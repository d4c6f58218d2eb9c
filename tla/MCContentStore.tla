--------------------------- MODULE MCContentStore ---------------------------
(* Instances of ContentStore for TLC: the keys, and the requests each run    *)
(* lets the clients send.                                                  *)
EXTENDS ContentStore, TLC

CONSTANTS n1, n2, d1, t1, a, b, w1, w2, w3

MCTypeOf == [k \in Keys |-> IF k \in {n1, n2} THEN "note" ELSE IF k = d1 THEN "deck" ELSE "notetype"]

Push(op, items, force) ==
  [op |-> op, items |-> items, keys |-> {items[i].key : i \in DOMAIN items}, order |-> << >>,
   force |-> force]

Delete_(op, order) ==
  [op |-> op, items |-> << >>, keys |-> {order[i] : i \in DOMAIN order}, order |-> order, force |-> FALSE]

MCSortOrder == {<<n1, n2>>, <<n1, d1>>, <<n1, t1>>, <<n2, d1>>, <<n2, t1>>, <<d1, t1>>}

(* Single pushes and deletes of a note, forced and not, single pushes and    *)
(* deletes of the others; two notes, and a note and a deck, pushed         *)
(* together; batch deletes of one, two and three types, of two notes in    *)
(* either order, an empty and an oversized one.                            *)
AllKinds ==
  {Push("put", <<[key |-> n1, new |-> c, base |-> a]>>, f) : c \in Contents, f \in BOOLEAN}
  \cup {Push("put", <<[key |-> k, new |-> a, base |-> Absent]>>, FALSE) : k \in {n1, d1, t1}}
  \cup {Push("batchPush", <<[key |-> n1, new |-> b, base |-> o], [key |-> k, new |-> a, base |-> Absent]>>, FALSE) :
           k \in {n2, d1}, o \in {a, Absent}}
  \cup {Delete_("delete", <<k>>) : k \in {n1, d1, t1}}
  \cup {Delete_("batchDelete", K) : K \in {<< >>, <<n1, n2>>, <<n2, n1>>, <<n1, d1>>, <<n1, d1, t1>>}}

Symmetry == Permutations({a, b}) \cup Permutations(Workers)
=============================================================================
