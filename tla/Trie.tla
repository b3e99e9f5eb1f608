-------------------------------- MODULE Trie --------------------------------
(***************************************************************************)
(* The tries that hold subscriptions (trie.cpp, mtrie.cpp).  A node keeps  *)
(* what is held for the prefix it stands for: a number of references in    *)
(* trie_t, a set of pipes in mtrie_t.  Its table covers the characters     *)
(* from min on, is widened when a character outside comes and trimmed when *)
(* a node becomes redundant.  A slot of the table is {} or {node}.         *)
(***************************************************************************)
EXTENDS Integers, Sequences, FiniteSetsExt

CONSTANTS
  Nothing,      \* what a node holds that holds nothing
  Put(_, _),    \* Put(held, x): held after x is added
  Cut(_, _)     \* Cut(held, x): held after x is removed

Leaf == [held |-> Nothing, min |-> 0, next |-> <<>>]

Covers(n, c) == c \in n.min .. n.min + Len(n.next) - 1
Slot(n, c)   == IF Covers(n, c) THEN n.next[c - n.min + 1] ELSE {}

Used(n) == {i \in DOMAIN n.next : n.next[i] # {}}

IsRedundant(n) == n.held = Nothing /\ Used(n) = {}

(* The table is extended to the character c.                               *)
Widen(n, c) ==
  LET lo == IF n.next = <<>> THEN c ELSE Min({n.min, c})
      hi == IF n.next = <<>> THEN c ELSE Max({n.min + Len(n.next) - 1, c})
  IN [n EXCEPT !.min = lo, !.next = [i \in 1..hi - lo + 1 |-> Slot(n, lo + i - 1)]]

(* ... and compacted to the nodes that are left.                           *)
Trim(n) ==
  IF Used(n) = {} THEN [n EXCEPT !.next = <<>>]
  ELSE [n EXCEPT !.min = n.min + Min(Used(n)) - 1,
                 !.next = SubSeq(n.next, Min(Used(n)), Max(Used(n)))]

SetSlot(n, c, node) ==
  [n EXCEPT !.next[c - n.min + 1] = IF IsRedundant(node) THEN {} ELSE {node}]

Child(n, c) == CHOOSE k \in Slot(n, c) : TRUE

(* add(): whether the prefix is new is told by Holds() of the old trie.    *)
RECURSIVE Add(_, _, _)
Add(n, prefix, x) ==
  IF prefix = <<>> THEN [n EXCEPT !.held = Put(n.held, x)]
  ELSE LET c == Head(prefix)
           v == IF Covers(n, c) THEN n ELSE Widen(n, c)
           k == IF Slot(v, c) = {} THEN Leaf ELSE Child(v, c)
       IN SetSlot(v, c, Add(k, Tail(prefix), x))

(* rm(prefix)                                                              *)
RECURSIVE Remove(_, _, _)
Remove(n, prefix, x) ==
  IF prefix = <<>>
    THEN IF n.held = Nothing THEN n ELSE [n EXCEPT !.held = Cut(n.held, x)]
  ELSE LET c == Head(prefix)
       IN IF Slot(n, c) = {} THEN n
          ELSE Trim(SetSlot(n, c, Remove(Child(n, c), Tail(prefix), x)))

(* rm(pipe): x goes from every node.                                       *)
RECURSIVE RemoveAll(_, _)
RemoveAll(n, x) ==
  Trim([held |-> Cut(n.held, x), min |-> n.min,
        next |-> [i \in DOMAIN n.next |->
                    {k \in {RemoveAll(j, x) : j \in n.next[i]} :
                       ~IsRedundant(k)}]])

(* What is held for the prefix.                                            *)
RECURSIVE Holds(_, _)
Holds(n, prefix) ==
  IF prefix = <<>> THEN n.held
  ELSE IF Slot(n, Head(prefix)) = {} THEN Nothing
  ELSE Holds(Child(n, Head(prefix)), Tail(prefix))

(* Whether there is a node for the prefix.                                 *)
RECURSIVE Has(_, _)
Has(n, prefix) ==
  \/ prefix = <<>>
  \/ /\ Slot(n, Head(prefix)) # {}
     /\ Has(Child(n, Head(prefix)), Tail(prefix))

(* match() and check(): what the nodes on the way along data hold.         *)
RECURSIVE Match(_, _)
Match(n, data) ==
  {n.held} \cup IF data = <<>> \/ Slot(n, Head(data)) = {} THEN {}
                ELSE Match(Child(n, Head(data)), Tail(data))

(* apply(): the prefixes for which something is held, from left to right.  *)
RECURSIVE Prefixes(_), PrefixesFrom(_, _)
PrefixesFrom(n, i) ==
  IF i > Len(n.next) THEN <<>>
  ELSE (IF n.next[i] = {} THEN <<>>
        ELSE LET below == Prefixes(CHOOSE k \in n.next[i] : TRUE)
             IN [j \in DOMAIN below |-> <<n.min + i - 1>> \o below[j]])
       \o PrefixesFrom(n, i + 1)
Prefixes(n) ==
  (IF n.held = Nothing THEN <<>> ELSE <<(<<>>)>>) \o PrefixesFrom(n, 1)
=============================================================================
