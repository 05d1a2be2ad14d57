----------------------------- MODULE Recursion ------------------------------
(* A loop, as the function from each position to what the loop has made up  *)
(* to there.  A recursive definition of that function defines it: TLA+      *)
(* chooses some function with the equation, and here it is proved that      *)
(* there is one.  Start and Step are the loop's, arg is what it goes over.  *)
EXTENDS Lists

CONSTANTS Start(_), Step(_, _, _)

\* g obeys the equation of the loop, on the positions P.
Obeys(g, P, arg) ==
    g = [i \in P |-> IF i = 0 THEN Start(arg) ELSE Step(g[i - 1], i, arg)]

\* The functions that recursive definitions choose.
Loop(n, arg) == CHOOSE g : Obeys(g, 0..n, arg)
Unending(arg) == CHOOSE g : Obeys(g, Nat, arg)

\* One more position.
LEMMA StepObeys ==
    ASSUME NEW arg, NEW n \in Nat, NEW g, Obeys(g, 0..n, arg)
    PROVE  \E h : Obeys(h, 0..(n + 1), arg)
  <1> DEFINE h == [i \in 0..(n + 1) |->
                     IF i = n + 1 THEN Step(g[n], n + 1, arg) ELSE g[i]]
  <1>1. Obeys(h, 0..(n + 1), arg)
    BY DEF Obeys
  <1> QED
    BY <1>1

LEMMA LoopExists == \A arg : \A n \in Nat : \E g : Obeys(g, 0..n, arg)
  <1> TAKE arg
  <1> DEFINE S == {n \in Nat : \E g : Obeys(g, 0..n, arg)}
  <1>1. 0 \in S
    <2>1. Obeys([i \in 0..0 |-> Start(arg)], 0..0, arg)
      BY DEF Obeys
    <2> QED
      BY <2>1
  <1>2. \A n \in Nat : n \in S => n + 1 \in S
    BY StepObeys
  <1> HIDE DEF S
  <1>3. \A n \in Nat : n \in S
    BY <1>1, <1>2, SetInduction
  <1> QED
    BY <1>3 DEF S

\* A longer loop begins like a shorter one.
LEMMA LoopsAgree ==
    ASSUME NEW arg, NEW m \in Nat, NEW n \in Nat, m <= n,
           NEW g, Obeys(g, 0..m, arg), NEW h, Obeys(h, 0..n, arg)
    PROVE  \A i \in 0..m : g[i] = h[i]
  <1> DEFINE S == {i \in 0..m : g[i] = h[i]}
  <1>1. 0 \in S
    BY DEF Obeys
  <1>2. \A i \in 1..m : i - 1 \in S => i \in S
    BY DEF Obeys
  <1> HIDE DEF S
  <1>3. \A i \in 0..m : i \in S
    BY <1>1, <1>2, LoopInduction
  <1> QED
    BY <1>3 DEF S

(* The recursive function of a loop of n rounds obeys its equation.         *)
LEMMA LoopObeys ==
    ASSUME NEW arg, NEW n \in Nat PROVE Obeys(Loop(n, arg), 0..n, arg)
  BY LoopExists DEF Loop

(* So does one over all numbers.                                            *)
LEMMA UnendingObeys == ASSUME NEW arg PROVE Obeys(Unending(arg), Nat, arg)
  <1> DEFINE whole == [n \in Nat |-> Loop(n, arg)[n]]
  <1>1. whole[0] = Start(arg)
    BY LoopObeys DEF Obeys
  <1>2. ASSUME NEW n \in Nat, n # 0
        PROVE  whole[n] = Step(whole[n - 1], n, arg)
    <2>1. /\ n - 1 \in Nat
          /\ Obeys(Loop(n - 1, arg), 0..(n - 1), arg)
          /\ Obeys(Loop(n, arg), 0..n, arg)
      BY <1>2, LoopObeys
    <2>2. Loop(n - 1, arg)[n - 1] = Loop(n, arg)[n - 1]
      BY <2>1, LoopsAgree
    <2>3. Loop(n, arg)[n] = Step(Loop(n, arg)[n - 1], n, arg)
      BY <1>2, <2>1 DEF Obeys
    <2> QED
      BY <2>1, <2>2, <2>3
  <1>3. Obeys(whole, Nat, arg)
    BY <1>1, <1>2 DEF Obeys
  <1> HIDE DEF whole
  <1> QED
    BY <1>3 DEF Unending

=============================================================================
