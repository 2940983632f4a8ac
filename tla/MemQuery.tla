------------------------------ MODULE MemQuery ------------------------------
(***************************************************************************)
(* What the index is asked about memory and registers (lib/index.cpp):     *)
(* read_memtree_value() while the index is built, and IndexNavigator's     *)
(* getmem() and getmem_next() afterwards.  They write nothing.             *)
(***************************************************************************)
EXTENDS MemTree

(* The bytes known of sub-tree t from lo to hi, as their loop finds them:  *)
(* a set of pairs of an address and what it contains.                      *)
CopyFromStart(p, lo, hi) ==   \* mutant: not from where lo is in p
  {<<a, bytes[p.contents + (a - lo)]>> : a \in lo .. hi}

Copy(p, lo, hi) == {<<a, bytes[p.contents + (a - p.lo)]>> : a \in lo .. hi}

SubBytes(t, lo, hi) ==
  LET from[l \in Addr] ==
        LET hits == SubHits(t, l, hi)
            p == Leftmost(hits)
            end == Min2(hi, p.hi)
        IN IF hits = {} THEN {}
           ELSE Copy(p, Max2(l, p.lo), end)
                \cup (IF Succ(end) <= hi THEN from[Succ(end)] ELSE {})
  IN from[lo]

(* getmem(): what is known, and the last record that touched any of it.    *)
GetMem(root, type, lo, hi) ==
  LET from[l \in Addr] ==
        LET hits == Hits(root, type, l, hi)
            p == Leftmost(hits)
            known == IF p.raw THEN Copy(p, Max2(l, p.lo), Min2(hi, p.hi))
                     ELSE SubBytes(subtrees[p.contents], Max2(l, p.lo),
                                   Min2(hi, p.hi))
            rest == IF Succ(p.hi) # 0 /\ Succ(p.hi) <= hi THEN from[Succ(p.hi)]
                    ELSE [known |-> {}, line |-> 0]
        IN IF hits = {} THEN [known |-> {}, line |-> 0]
           ELSE [known |-> known \cup rest.known,
                 line |-> Max2(p.line, rest.line)]
  IN from[lo]

(* read_memtree_value(): the value, if all of it is known. *)
ReadMemtreeValue(root, type, lo, hi) ==
  LET got == GetMem(root, type, lo, hi).known
  IN IF \A a \in lo .. hi : \E k \in got : k[1] = a THEN got ELSE {}

(* getmem_next(): the first stretch of known bytes, as far as it is in one *)
(* piece.                                                                  *)
NoStretch == [known |-> {}, line |-> 0]

GetMemNext(root, type, lo, hi) ==
  LET from[l \in Addr] ==
        LET hits == Hits(root, type, l, hi)
            p == Leftmost(hits)
            first == Max2(l, p.lo)
            last == Min2(hi, p.hi)
            subs == SubHits(subtrees[p.contents], first, last)
            s == Leftmost(subs)
        IN IF hits = {} THEN NoStretch
           ELSE IF p.raw
           THEN [known |-> Copy(p, first, last), line |-> p.line]
           ELSE IF subs # {}
           THEN [known |-> Copy(s, Max2(first, s.lo), Min2(last, s.hi)),
                 line |-> p.line]
           ELSE IF Succ(p.hi) # 0 /\ Succ(p.hi) <= hi
           THEN from[Succ(p.hi)]
           ELSE NoStretch
  IN from[lo]
=============================================================================
