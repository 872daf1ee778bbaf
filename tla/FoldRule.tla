------------------------------ MODULE FoldRule ------------------------------
(***************************************************************************)
(* Induction over a fold.  A loop of the code is a fold in the model:      *)
(* op is the loop's body, a and b what the body reads besides the state x  *)
(* and the element e.  What holds before the loop and is kept by every     *)
(* turn of it holds after it.  A module that reasons about a loop          *)
(* instantiates op with the body and Good with what the loop keeps, of     *)
(* the parameter p after turn i.                                           *)
(*                                                                         *)
(* The indices of q are any set I that can be counted up: seg[i] is the    *)
(* set of indices up to i, pre[i] the one before i, zero the one before    *)
(* the first.  A module that instantiates this one shows it of 1..Len(q).  *)
(***************************************************************************)
EXTENDS Folds

CONSTANTS op(_, _, _, _), Good(_, _, _), Max(_)

\* ScopeOps!loop, of the body op.
fold(a, b, s, q) ==
    MapThenFoldSet(LAMBDA e, x : op(a, b, x, e), s, LAMBDA i : q[i],
                   LAMBDA S : Max(S), DOMAIN q)

\* The indices are counted up, from the one after zero to last.
Counted(I, seg, pre, zero, last) ==
    /\ zero \notin I /\ last \in I \cup {zero}
    /\ seg[zero] = {} /\ seg[last] = I
    /\ \A i \in I : /\ pre[i] \in I \cup {zero} /\ i \in seg[i]
                    /\ seg[i] \subseteq I /\ seg[i] \ {i} = seg[pre[i]]
    /\ \A i \in I : \A S \in SUBSET seg[i] : i \in S => Max(S) = i
    /\ \A T : zero \in T /\ (\A i \in I : pre[i] \in T => i \in T) => I \subseteq T

\* What holds at the start and is kept by every turn holds at the end.
THEOREM FoldKeeps ==
    ASSUME NEW a, NEW b, NEW p, NEW s, NEW q, NEW seg, NEW pre, NEW zero, NEW last,
           Counted(DOMAIN q, seg, pre, zero, last),
           Good(p, zero, s),
           \A i \in DOMAIN q : \A x : Good(p, pre[i], x) => Good(p, i, op(a, b, x, q[i]))
    PROVE  Good(p, last, fold(a, b, s, q))
<1> USE DEF Counted
<1> DEFINE I == DOMAIN q
           body(g, S) == IF S = {} THEN s ELSE op(a, b, g[S \ {Max(S)}], q[Max(S)])
           T == {k \in I \cup {zero} : \E g : g = [S \in SUBSET seg[k] |-> body(g, S)]}
<1>1. zero \in T
  <2> DEFINE g == [S \in SUBSET seg[zero] |-> s]
  <2>1. \A S \in SUBSET seg[zero] : body(g, S) = s
    OBVIOUS
  <2> HIDE DEF body
  <2>2. g = [S \in SUBSET seg[zero] |-> body(g, S)]
    BY <2>1
  <2>3. \E f : f = [S \in SUBSET seg[zero] |-> body(f, S)]
    <3> HIDE DEF g
    <3> QED
      BY <2>2
  <2> QED
    BY <2>3
<1>2. ASSUME NEW k \in I, pre[k] \in T
      PROVE  k \in T
  <2>1. PICK g : g = [S \in SUBSET seg[pre[k]] |-> body(g, S)]
    BY <1>2
  <2> DEFINE h == [S \in SUBSET seg[k] |-> IF k \in S THEN op(a, b, g[S \ {k}], q[k]) ELSE g[S]]
  <2>2. ASSUME NEW S \in SUBSET seg[k]
        PROVE  h[S] = body(h, S)
    <3>1. CASE k \in S
      <4>1. /\ Max(S) = k /\ S # {} /\ S \ {k} \in SUBSET seg[pre[k]]
            /\ k \notin S \ {k} /\ S \ {k} \in SUBSET seg[k]
        BY <3>1
      <4>2. h[S \ {k}] = g[S \ {k}]
        BY <4>1
      <4> QED
        BY <3>1, <4>1, <4>2
    <3>2. CASE k \notin S
      <4>1. S \in SUBSET seg[pre[k]]
        BY <3>2
      <4>2. g[S] = body(g, S)
        BY <2>1, <4>1
      <4>3. CASE S = {}
        BY <3>2, <4>2, <4>3
      <4>4. CASE S # {}
        <5>1. S \ {Max(S)} \in SUBSET seg[k] /\ k \notin S \ {Max(S)}
            BY <3>2
        <5>2. h[S \ {Max(S)}] = g[S \ {Max(S)}]
            BY <5>1
        <5> QED
            BY <3>2, <4>2, <4>4, <5>2
      <4> QED
        BY <4>3, <4>4
    <3> QED
        BY <3>1, <3>2
  <2>3. h = [S \in SUBSET seg[k] |-> body(h, S)]
    <3> HIDE DEF body
    <3> QED
        BY <2>2
  <2> HIDE DEF h, body
  <2> QED
    BY <2>3
<1>3. last \in T
  <2> HIDE DEF T
  <2> QED
    BY <1>1, <1>2
<1> DEFINE it == CHOOSE g : g = [S \in SUBSET I |-> body(g, S)]
<1>4. it = [S \in SUBSET I |-> body(it, S)]
  <2> HIDE DEF body
  <2> QED
    BY <1>3
<1>5. fold(a, b, s, q) = it[I]
    BY DEF fold, MapThenFoldSet
<1>6. it[{}] = s
  <2> HIDE DEF it
  <2> QED
    BY <1>4
<1>7. ASSUME NEW i \in I
      PROVE  it[seg[i]] = op(a, b, it[seg[pre[i]]], q[i])
  <2>1. /\ seg[i] \in SUBSET I /\ seg[i] # {} /\ seg[i] \ {i} = seg[pre[i]]
        /\ Max(seg[i]) = i
    OBVIOUS
  <2>2. it[seg[i]] = body(it, seg[i])
    <3> HIDE DEF it, body
    <3> QED
        BY <1>4, <2>1
  <2> HIDE DEF it
  <2> QED
    BY <2>1, <2>2
<1> HIDE DEF it
<1> DEFINE U == {i \in I \cup {zero} : Good(p, i, it[seg[i]])}
<1>8. zero \in U
    BY <1>6
<1>9. \A i \in I : pre[i] \in U => i \in U
    BY <1>7
<1>10. last \in U
  <2> HIDE DEF U
  <2> QED
    BY <1>8, <1>9
<1> QED
    BY <1>5, <1>10
=============================================================================
