-------------------------- MODULE AppRuntimeProofs --------------------------
(* Proofs about AppRuntime for any applications, policies and launcher     *)
(* kinds: types and the locking discipline of the lifecycle calls; which   *)
(* method calls which, and what follows for persistent applications and    *)
(* for threads that wait; _visible and the screen; exclusive groups; the   *)
(* end of the runtime.                                                     *)
EXTENDS AppRuntime, SequenceTheorems, TLAPS

\* A frame is in a step its method has, on a registered application.
FrameOK(f, reg) ==
    /\ f \in Frame
    /\ f.todo \subseteq reg
    /\ f.at # "next" => f.app \in reg
    /\ f.at = "peers" => f.op = "show"
    /\ f.at = "show" => f.op = "restart"
    /\ f.op = "stopAll" => f.at \in {"next", "enter", "stop", "discard"}
    /\ f.op = "preload" => f.at = "next"
    /\ f.at \in {"next", "discard"} => f.op \in PassOps

\* How deep a method can call: close under show under restart or preload.
Rank(op) == CASE op \in {"restart", "preload"} -> 3 [] op = "show" -> 2 [] OTHER -> 1

StackOK(s, reg) ==
    /\ s \in Seq(Frame)
    /\ \A i \in 1..Len(s) : FrameOK(s[i], reg)
    /\ \A i \in 1..Len(s) : i + Rank(s[i].op) <= 4
    /\ \A i \in 1..Len(s) : (i < Len(s) /\ s[i].op = "restart") => s[i].at = "return"

\* Every frame holds the lock of its application while it is past Enter.
HeldSteps == LockedSteps \cup {"raise"}

Held(s, own, t) ==
    \A i \in 1..Len(s) : s[i].at \in HeldSteps => own[s[i].app] = t

\* The frame that will release a lock is its outermost holder.
Outermost(s) ==
    \A i, j \in 1..Len(s) :
        (i < j /\ s[i].at \in HeldSteps /\ s[j].at \in HeldSteps /\ s[j].locked)
            => s[i].app # s[j].app

DataInv ==
    /\ registered \subseteq Apps /\ visible \subseteq registered
    /\ owner \in [Apps -> Threads \cup {NoThread}]
    /\ closed \in BOOLEAN /\ running \subseteq Apps /\ onScreen \subseteq Apps /\ astray \subseteq Apps

StackInv ==
    /\ stack \in [Threads -> Seq(Frame)]
    /\ \A t \in Threads : /\ StackOK(stack[t], registered)
                          /\ Held(stack[t], owner, t)
                          /\ Outermost(stack[t])

IInv == DataInv /\ StackInv

-----------------------------------------------------------------------------
(* Stacks: replacing, pushing and popping the innermost frame.             *)

\* A stack that is not empty has a top frame.
LEMMA TopInRange ==
    ASSUME NEW s \in Seq(Frame), s # <<>>
    PROVE  Len(s) \in 1..Len(s) /\ Len(s) \in Nat /\ Len(s) > 0
BY EmptySeq, LenProperties

\* A frame that moves on to its next step leaves a legal stack.
LEMMA ReplaceStack ==
    ASSUME NEW reg, NEW s, StackOK(s, reg), s # <<>>,
           NEW f, FrameOK(f, reg), f.op = s[Len(s)].op
    PROVE  /\ StackOK(Replace(s, f), reg)
           /\ Len(Replace(s, f)) = Len(s)
           /\ \A i \in 1..Len(s) : Replace(s, f)[i] = IF i = Len(s) THEN f ELSE s[i]
<1>1. s \in Seq(Frame) /\ f \in Frame BY DEF StackOK, FrameOK
<1>2. Len(s) \in 1..Len(s) BY <1>1, TopInRange
<1>3. /\ Replace(s, f) \in Seq(Frame)
      /\ Len(Replace(s, f)) = Len(s)
      /\ \A i \in 1..Len(s) : Replace(s, f)[i] = IF i = Len(s) THEN f ELSE s[i]
  BY <1>1, <1>2, ExceptSeq DEF Replace
<1> QED BY <1>2, <1>3 DEF StackOK

\* A frame that calls another method leaves a legal stack below the callee.
LEMMA PushStack ==
    ASSUME NEW reg, NEW s, StackOK(s, reg), s # <<>>,
           NEW f, FrameOK(f, reg), f.op = s[Len(s)].op, f.op = "restart" => f.at = "return",
           NEW c, FrameOK(c, reg), Rank(c.op) + 1 <= Rank(f.op)
    PROVE  LET r == Append(Replace(s, f), c)
           IN  /\ StackOK(r, reg)
               /\ Len(r) = Len(s) + 1
               /\ \A i \in 1..Len(r) :
                    r[i] = IF i = Len(s) + 1 THEN c ELSE IF i = Len(s) THEN f ELSE s[i]
<1> DEFINE q == Replace(s, f)
           r == Append(q, c)
<1>1. /\ StackOK(q, reg) /\ Len(q) = Len(s)
      /\ \A i \in 1..Len(s) : q[i] = IF i = Len(s) THEN f ELSE s[i]
  BY ReplaceStack
<1>2. q \in Seq(Frame) /\ c \in Frame /\ s \in Seq(Frame) BY <1>1 DEF StackOK, FrameOK
<1>3. Len(s) \in 1..Len(s) /\ Len(s) \in Nat BY <1>2, TopInRange
<1>4. /\ r \in Seq(Frame) /\ Len(r) = Len(q) + 1
      /\ \A i \in 1..Len(q) : r[i] = q[i]
      /\ r[Len(q) + 1] = c
  BY <1>2, AppendProperties
<1> HIDE DEF q, r
<1>5. \A i \in 1..Len(r) : r[i] = IF i = Len(s) + 1 THEN c ELSE IF i = Len(s) THEN f ELSE s[i]
  BY <1>1, <1>3, <1>4
<1>6. \A i \in 1..Len(r) : FrameOK(r[i], reg)
  BY <1>1, <1>3, <1>4 DEF StackOK
<1>7. Len(s) + 1 + Rank(c.op) <= 4
  <2>1. Len(s) + Rank(f.op) <= 4 BY <1>3 DEF StackOK
  <2>2. Rank(c.op) \in Nat /\ Rank(f.op) \in Nat BY DEF Rank
  <2> QED BY <2>1, <2>2, <1>3
<1>8. \A i \in 1..Len(r) : i + Rank(r[i].op) <= 4
  BY <1>1, <1>3, <1>4, <1>7 DEF StackOK
<1>9. \A i \in 1..Len(r) : (i < Len(r) /\ r[i].op = "restart") => r[i].at = "return"
  BY <1>1, <1>3, <1>4, <1>5 DEF StackOK
<1>10. StackOK(r, reg) BY <1>4, <1>6, <1>8, <1>9 DEF StackOK
<1> QED BY <1>1, <1>4, <1>5, <1>10 DEF q, r

\* A method that returns leaves a legal stack.
LEMMA PopStack ==
    ASSUME NEW reg, NEW s, StackOK(s, reg), s # <<>>
    PROVE  LET r == SubSeq(s, 1, Len(s) - 1)
           IN  /\ StackOK(r, reg)
               /\ Len(r) = Len(s) - 1
               /\ \A i \in 1..Len(r) : i < Len(s) /\ i \in 1..Len(s) /\ r[i] = s[i]
<1> DEFINE r == SubSeq(s, 1, Len(s) - 1)
<1>1. s \in Seq(Frame) BY DEF StackOK
<1>2. Len(s) \in Nat /\ Len(s) > 0 BY <1>1, TopInRange
<1>3. \A i \in 1..(Len(s) - 1) : i \in 1..Len(s) /\ s[i] \in Frame
  BY <1>1, <1>2, ElementOfSeq
<1>4. /\ r \in Seq(Frame)
      /\ Len(r) = IF 1 <= Len(s) - 1 THEN Len(s) - 1 - 1 + 1 ELSE 0
      /\ \A i \in 1..(Len(s) - 1 - 1 + 1) : r[i] = s[1 + i - 1]
  BY <1>2, <1>3, SubSeqProperties
<1> HIDE DEF r
<1>5. Len(r) = Len(s) - 1
  <2>1. CASE 1 <= Len(s) - 1 BY <2>1, <1>2, <1>4
  <2>2. CASE ~(1 <= Len(s) - 1)
    <3>1. Len(r) = 0 BY <2>2, <1>4
    <3>2. \A n \in Nat : (n > 0 /\ ~(1 <= n - 1)) => n - 1 = 0 OBVIOUS
    <3>3. Len(s) - 1 = 0 BY <3>2, <2>2, <1>2
    <3> QED BY <3>1, <3>3
  <2> QED BY <2>1, <2>2
<1>6. \A i \in 1..Len(r) : i < Len(s) /\ i \in 1..Len(s) /\ r[i] = s[i]
  BY <1>2, <1>4, <1>5
<1>7. StackOK(r, reg) BY <1>2, <1>4, <1>5, <1>6 DEF StackOK
<1> QED BY <1>5, <1>6, <1>7 DEF r

\* A step of t that leaves the locks of the other threads alone preserves
\* the invariant when t's own stack satisfies it afterwards.
LEMMA OneStack ==
    ASSUME StackInv, NEW t \in Threads, NEW s,
           stack' = [stack EXCEPT ![t] = s],
           registered' = registered,
           StackOK(s, registered), Held(s, owner', t), Outermost(s),
           \A a \in Apps : owner'[a] = owner[a] \/ owner[a] \in {NoThread, t}
    PROVE  StackInv'
<1>1. stack' \in [Threads -> Seq(Frame)] BY DEF StackInv, StackOK
<1>2. ASSUME NEW u \in Threads
      PROVE  StackOK(stack'[u], registered') /\ Held(stack'[u], owner', u) /\ Outermost(stack'[u])
  <2>1. CASE u = t BY <2>1 DEF StackInv
  <2>2. CASE u # t
    <3>1. stack'[u] = stack[u] BY <2>2 DEF StackInv
    <3>2. Held(stack[u], owner', u)
      <4> SUFFICES ASSUME NEW i \in 1..Len(stack[u]), stack[u][i].at \in HeldSteps
                   PROVE  owner'[stack[u][i].app] = u
        BY DEF Held
      <4>1. owner[stack[u][i].app] = u BY DEF StackInv, Held
      <4>2. stack[u][i].app \in Apps BY DEF StackInv, StackOK, FrameOK, Frame
      <4> QED BY <4>1, <4>2, <2>2, ThreadsAssumption
    <3> QED BY <3>1, <3>2 DEF StackInv
  <2> QED BY <2>1, <2>2
<1> QED BY <1>1, <1>2 DEF StackInv

-----------------------------------------------------------------------------
(* The three kinds of step of one thread.                                  *)

\* What the invariant says of the thread whose top frame moves.
LEMMA TopFacts ==
    ASSUME StackInv, NEW t \in Threads, stack[t] # <<>>
    PROVE  /\ StackOK(stack[t], registered) /\ Held(stack[t], owner, t) /\ Outermost(stack[t])
           /\ stack[t] \in Seq(Frame) /\ Len(stack[t]) \in 1..Len(stack[t]) /\ Len(stack[t]) \in Nat
           /\ Top(t) = stack[t][Len(stack[t])]
           /\ FrameOK(Top(t), registered) /\ App(t) \in Apps
           /\ Top(t).at \in HeldSteps => owner[App(t)] = t
<1>1. stack[t] \in Seq(Frame) BY DEF StackInv
<1>2. Len(stack[t]) \in 1..Len(stack[t]) /\ Len(stack[t]) \in Nat BY <1>1, TopInRange
<1>3. FrameOK(Top(t), registered) BY <1>2 DEF StackInv, StackOK, Top
<1> QED BY <1>1, <1>2, <1>3 DEF StackInv, Held, Top, App, FrameOK, Frame

\* The innermost frame moves on, on the same application, under its lock.
LEMMA ReplaceStep ==
    ASSUME StackInv, NEW t \in Threads, stack[t] # <<>>, NEW f, FrameOK(f, registered),
           f.op = Top(t).op, stack' = WithTop(t, f), registered' = registered,
           \A a \in Apps : owner'[a] = owner[a] \/ owner[a] \in {NoThread, t},
           \A i \in 1..Len(stack[t]) : (i < Len(stack[t]) /\ stack[t][i].at \in HeldSteps)
               => /\ owner'[stack[t][i].app] = t
                  /\ (f.at \in HeldSteps /\ f.locked) => stack[t][i].app # f.app,
           f.at \in HeldSteps => owner'[f.app] = t
    PROVE  StackInv'
<1> DEFINE s == stack[t]
           r == Replace(s, f)
<1>1. /\ StackOK(s, registered) /\ Outermost(s) /\ f.op = s[Len(s)].op
      /\ Len(s) \in 1..Len(s) /\ Len(s) \in Nat
  BY TopFacts
<1>2. /\ StackOK(r, registered) /\ Len(r) = Len(s)
      /\ \A i \in 1..Len(s) : r[i] = IF i = Len(s) THEN f ELSE s[i]
  BY <1>1, ReplaceStack
<1> HIDE DEF r
<1>3. Held(r, owner', t) BY <1>1, <1>2 DEF Held
<1>4. Outermost(r) BY <1>1, <1>2 DEF Outermost
<1>5. stack' = [stack EXCEPT ![t] = r] BY DEF WithTop, r
<1> QED BY <1>2, <1>3, <1>4, <1>5, OneStack

\* A call: the caller's frame f moves on and c starts outside any lock.
LEMMA PushStep ==
    ASSUME StackInv, NEW t \in Threads, stack[t] # <<>>, NEW f, FrameOK(f, registered),
           f.op = Top(t).op, f.app = Top(t).app \/ f.at \notin HeldSteps, f.locked = Top(t).locked,
           f.at \in HeldSteps => Top(t).at \in HeldSteps, f.op = "restart" => f.at = "return",
           NEW c, FrameOK(c, registered), c.at \notin HeldSteps, Rank(c.op) + 1 <= Rank(f.op),
           stack' = Push(t, f, c), registered' = registered, owner' = owner
    PROVE  StackInv'
<1> DEFINE s == stack[t]
           r == Append(Replace(s, f), c)
<1>1. /\ StackOK(s, registered) /\ Held(s, owner, t) /\ Outermost(s)
      /\ Top(t) = s[Len(s)] /\ Len(s) \in 1..Len(s) /\ Len(s) \in Nat
  BY TopFacts
<1>2. /\ StackOK(r, registered) /\ Len(r) = Len(s) + 1
      /\ \A i \in 1..Len(r) : r[i] = IF i = Len(s) + 1 THEN c ELSE IF i = Len(s) THEN f ELSE s[i]
  BY <1>1, PushStack
<1> HIDE DEF r
<1>3. Held(r, owner', t) BY <1>1, <1>2 DEF Held
<1>4. Outermost(r)
  <2> SUFFICES ASSUME NEW i \in 1..Len(r), NEW j \in 1..Len(r), i < j, r[i].at \in HeldSteps,
                      r[j].at \in HeldSteps, r[j].locked
               PROVE  r[i].app # r[j].app
    BY DEF Outermost
  <2>1. i \in 1..Len(s) /\ j \in 1..Len(s) /\ i # Len(s) BY <1>1, <1>2
  <2>2. r[i] = s[i] BY <1>1, <1>2, <2>1
  <2>3. CASE j = Len(s)
    <3>1. r[j] = f BY <1>1, <1>2, <2>3
    <3>2. s[j].at \in HeldSteps /\ s[j].locked /\ f.app = s[j].app BY <1>1, <2>3, <3>1
    <3> QED BY <1>1, <2>1, <2>2, <3>1, <3>2 DEF Outermost
  <2>4. CASE j # Len(s)
    <3>1. r[j] = s[j] BY <1>1, <1>2, <2>1, <2>4
    <3> QED BY <1>1, <2>1, <2>2, <3>1 DEF Outermost
  <2> QED BY <2>3, <2>4
<1>5. stack' = [stack EXCEPT ![t] = r] BY DEF Push, r
<1> QED BY <1>2, <1>3, <1>4, <1>5, OneStack

\* Leaving a frame: Release frees its lock when it was the outermost holder.
LEMMA ReleaseFacts ==
    ASSUME StackInv, DataInv, NEW t \in Threads, stack[t] # <<>>, Top(t).at \in HeldSteps, Release(t)
    PROVE  /\ owner' \in [Apps -> Threads \cup {NoThread}]
           /\ \A a \in Apps : owner'[a] = owner[a] \/ owner[a] \in {NoThread, t}
           /\ \A i \in 1..Len(stack[t]) :
                (i < Len(stack[t]) /\ stack[t][i].at \in HeldSteps) => owner'[stack[t][i].app] = t
<1>1. /\ Held(stack[t], owner, t) /\ Outermost(stack[t]) /\ StackOK(stack[t], registered)
      /\ Len(stack[t]) \in 1..Len(stack[t]) /\ Len(stack[t]) \in Nat
      /\ Top(t) = stack[t][Len(stack[t])] /\ App(t) \in Apps /\ owner[App(t)] = t
  BY TopFacts
<1>2. owner \in [Apps -> Threads \cup {NoThread}] BY DEF DataInv
<1>3. \A i \in 1..Len(stack[t]) : stack[t][i].app \in Apps BY <1>1 DEF StackOK, FrameOK, Frame
<1>4. CASE Top(t).locked
  <2>1. owner' = [owner EXCEPT ![App(t)] = NoThread] BY <1>4 DEF Release
  <2>2. \A i \in 1..Len(stack[t]) :
          (i < Len(stack[t]) /\ stack[t][i].at \in HeldSteps) => stack[t][i].app # App(t)
    BY <1>1, <1>4 DEF Outermost, App
  <2> QED BY <1>1, <1>2, <1>3, <2>1, <2>2 DEF Held
<1>5. CASE ~Top(t).locked
  <2>1. owner' = owner BY <1>5 DEF Release
  <2> QED BY <1>1, <1>2, <2>1 DEF Held
<1> QED BY <1>4, <1>5

\* Return and PassDone: the innermost frame disappears.
LEMMA PopStep ==
    ASSUME StackInv, NEW t \in Threads, stack[t] # <<>>, registered' = registered,
           stack' = [stack EXCEPT ![t] = Pop(t)],
           \A a \in Apps : owner'[a] = owner[a] \/ owner[a] \in {NoThread, t},
           \A i \in 1..Len(stack[t]) :
               (i < Len(stack[t]) /\ stack[t][i].at \in HeldSteps) => owner'[stack[t][i].app] = t
    PROVE  StackInv'
<1> DEFINE s == stack[t]
           r == SubSeq(s, 1, Len(s) - 1)
<1>1. StackOK(s, registered) /\ Outermost(s) BY TopFacts
<1>2. /\ StackOK(r, registered) /\ Len(r) = Len(s) - 1
      /\ \A i \in 1..Len(r) : i < Len(s) /\ i \in 1..Len(s) /\ r[i] = s[i]
  BY <1>1, PopStack
<1> HIDE DEF r
<1>3. Held(r, owner', t) BY <1>2 DEF Held
<1>4. Outermost(r) BY <1>1, <1>2 DEF Outermost
<1>5. stack' = [stack EXCEPT ![t] = r] BY DEF Pop, r
<1> QED BY <1>2, <1>3, <1>4, <1>5, OneStack

\* Inside the lock the frame only moves to another step of its method.
LEMMA StayStep ==
    ASSUME StackInv, NEW t \in Threads, stack[t] # <<>>, Top(t).at \in HeldSteps,
           Top(t).op # "stopAll", NEW step \in HeldSteps, step = "show" => Top(t).op = "restart",
           Goto(t, step), registered' = registered, owner' = owner
    PROVE  StackInv'
<1> DEFINE s == stack[t]
           f == [Top(t) EXCEPT !.at = step]
<1>1. /\ Held(s, owner, t) /\ Outermost(s) /\ Top(t) = s[Len(s)] /\ FrameOK(Top(t), registered)
      /\ Len(s) \in 1..Len(s) /\ Len(s) \in Nat /\ owner[App(t)] = t
  BY TopFacts
<1>2. FrameOK(f, registered)
  BY <1>1 DEF FrameOK, Frame, HeldSteps, LockedSteps, LauncherSteps, Steps
<1>3. f.op = Top(t).op /\ f.app = Top(t).app /\ f.locked = Top(t).locked /\ f.at = step
  BY <1>1 DEF FrameOK, Frame
<1>4. stack' = WithTop(t, f) BY DEF Goto
<1> HIDE DEF f
<1>5. \A i \in 1..Len(s) : (i < Len(s) /\ s[i].at \in HeldSteps)
         => owner'[s[i].app] = t /\ ((f.at \in HeldSteps /\ f.locked) => s[i].app # f.app)
  BY <1>1, <1>3 DEF Held, Outermost
<1> QED BY <1>1, <1>2, <1>3, <1>4, <1>5, ReplaceStep DEF App

\* A new frame of a method on one application is at that method's first step.
LEMMA CallOK ==
    ASSUME NEW op \in AppOps, NEW a \in registered, registered \subseteq Apps
    PROVE  /\ FrameOK(Call(op, a), registered)
           /\ Call(op, a).op = op /\ Call(op, a).at \notin HeldSteps
<1>1. Peers(a) \subseteq registered BY DEF Peers
<1>2. Call(op, a) \in Frame BY <1>1 DEF Call, Frame, AppOps, Steps
<1> QED BY <1>1, <1>2 DEF Call, FrameOK, AppOps, PassOps, HeldSteps, LockedSteps, LauncherSteps

\* The first frame of an idle thread.
LEMMA StartStep ==
    ASSUME StackInv, NEW t \in Threads, NEW c, FrameOK(c, registered), c.at \notin HeldSteps,
           stack' = [stack EXCEPT ![t] = <<c>>], registered' = registered, owner' = owner
    PROVE  StackInv'
<1>1. c \in Frame BY DEF FrameOK
<1>2. <<c>> \in Seq(Frame) /\ Len(<<c>>) = 1 /\ <<c>>[1] = c BY <1>1
<1>3. Rank(c.op) <= 3 BY DEF Rank
<1>4. StackOK(<<c>>, registered) BY <1>2, <1>3 DEF StackOK, Rank
<1>5. Held(<<c>>, owner', t) /\ Outermost(<<c>>) BY <1>2 DEF Held, Outermost
<1> QED BY <1>4, <1>5, OneStack

\* A new frame of a method over all applications is at its first step.
LEMMA PassOK ==
    ASSUME NEW op \in PassOps, registered \subseteq Apps
    PROVE  FrameOK(Pass(op), registered) /\ Pass(op).at \notin HeldSteps
<1>1. (CHOOSE a \in Apps : TRUE) \in Apps BY LauncherAssumption
<1>2. Pass(op) \in Frame BY <1>1 DEF Pass, Frame, AppOps, PassOps, Steps
<1> QED BY <1>2 DEF Pass, FrameOK, PassOps, HeldSteps, LockedSteps, LauncherSteps

-----------------------------------------------------------------------------
(* One lemma per group of actions, then the inductive step.                *)

\* Registration, the preload worker and requests of the user interface.
LEMMA RequestsPreserve == IInv /\ Requests => IInv'
<1> SUFFICES ASSUME IInv, Requests PROVE IInv' OBVIOUS
<1>1. StackInv /\ DataInv BY DEF IInv
<1>2. ASSUME NEW a \in Apps, Register(a) PROVE IInv'
  <2>1. DataInv' BY <1>1, <1>2 DEF DataInv, Register, launcherVars
  <2>2. stack' = stack /\ owner' = owner /\ \A t \in Threads : stack[t] = <<>>
    BY <1>2 DEF Register
  <2>3. \A t \in Threads : StackOK(<<>>, registered') /\ Held(<<>>, owner, t) /\ Outermost(<<>>)
    BY EmptySeq DEF StackOK, Held, Outermost
  <2>4. StackInv' BY <1>1, <2>2, <2>3 DEF StackInv
  <2> QED BY <2>1, <2>4 DEF IInv
<1>3. ASSUME NEW t \in Callers, NEW a \in Apps, NEW op \in AppOps, Request(t, op, a) PROVE IInv'
  <2>1. DataInv' BY <1>1, <1>3 DEF DataInv, Request, launcherVars
  <2>2. a \in registered /\ registered \subseteq Apps BY <1>1, <1>3 DEF Request, DataInv
  <2>3. StackInv' BY <1>1, <1>3, <2>2, CallOK, StartStep DEF Request, Threads
  <2> QED BY <2>1, <2>3 DEF IInv
<1>4. ASSUME NEW t \in Callers, StopAll(t) PROVE IInv'
  <2>1. DataInv' BY <1>1, <1>4 DEF DataInv, StopAll, launcherVars
  <2>2. StackInv' BY <1>1, <1>4, PassOK, StartStep DEF StopAll, Threads, PassOps, DataInv
  <2> QED BY <2>1, <2>2 DEF IInv
<1>5. ASSUME StartBackgroundApps PROVE IInv'
  <2>1. DataInv' BY <1>1, <1>5 DEF DataInv, StartBackgroundApps, launcherVars
  <2>2. StackInv' BY <1>1, <1>5, PassOK, StartStep DEF StartBackgroundApps, Threads, PassOps, DataInv
  <2> QED BY <2>1, <2>2 DEF IInv
<1> QED BY <1>2, <1>3, <1>4, <1>5 DEF Requests

\* Launcher calls and the bookkeeping of _visible, all under the lock.
LEMMA InsidePreserve ==
    ASSUME IInv, NEW t \in Threads,
           \/ Present(t) \/ Launch(t) \/ Hide(t) \/ CloseBrowser(t) \/ Prepare(t)
           \/ Mark(t) \/ Unmark(t) \/ (Stop(t) /\ Top(t).op # "stopAll")
    PROVE  IInv'
<1>1. StackInv /\ DataInv BY DEF IInv
<1>2. \E step \in HeldSteps : Goto(t, step) /\ (step = "show" => Top(t).op = "restart")
  <2>1. CASE Present(t) BY <2>1 DEF Present, Raises, HeldSteps, LockedSteps, LauncherSteps
  <2>2. CASE Launch(t)
    BY <2>2 DEF Launch, HalfOpens, Raises, AfterLaunch, HeldSteps, LockedSteps, LauncherSteps
  <2>3. CASE Hide(t)
    BY <2>3 DEF Hide, Raises, AfterHideRefused, HeldSteps, LockedSteps, LauncherSteps
  <2>4. CASE CloseBrowser(t) BY <2>4 DEF CloseBrowser, Raises, HeldSteps, LockedSteps, LauncherSteps
  <2>5. CASE Prepare(t)
    BY <2>5 DEF Prepare, HalfOpens, Raises, HeldSteps, LockedSteps, LauncherSteps
  <2>6. CASE Mark(t) BY <2>6 DEF Mark, HeldSteps, LockedSteps, LauncherSteps
  <2>7. CASE Unmark(t) BY <2>7 DEF Unmark, HeldSteps, LockedSteps, LauncherSteps
  <2>8. CASE Stop(t) /\ Top(t).op # "stopAll"
    BY <2>8 DEF Stop, StopFails, Raises, AfterStop, HeldSteps, LockedSteps, LauncherSteps
  <2> QED BY <2>1, <2>2, <2>3, <2>4, <2>5, <2>6, <2>7, <2>8
<1>3. stack[t] # <<>> /\ Top(t).at \in LauncherSteps \cup {"mark", "unmark"}
  BY DEF Present, Launch, Hide, CloseBrowser, Prepare, Mark, Unmark, Stop, At, LauncherSteps
<1>4. Top(t).at \in HeldSteps BY <1>3 DEF HeldSteps, LockedSteps
<1>5. FrameOK(Top(t), registered) /\ App(t) \in Apps BY <1>1, <1>3, TopFacts
<1>6. Top(t).op # "stopAll" /\ App(t) \in registered
  BY <1>3, <1>5 DEF FrameOK, App, LauncherSteps, Present, Launch, Hide, CloseBrowser, Prepare,
                    Mark, Unmark, Stop, At
<1>7. registered' = registered /\ owner' = owner /\ closed' = closed
  BY DEF Present, Launch, Hide, CloseBrowser, Prepare, Mark, Unmark, Stop
<1>8. visible' \subseteq visible \cup {App(t)}
  BY DEF Present, Launch, Hide, CloseBrowser, Prepare, Mark, Unmark, Stop
<1>9. /\ running' \subseteq running \cup {App(t)} /\ onScreen' \subseteq onScreen \cup {App(t)}
      /\ astray' \subseteq astray \cup {App(t)}
  BY DEF Present, Launch, Hide, CloseBrowser, Prepare, Mark, Unmark, Stop, launcherVars,
         Opens, Quits, Covers, Misses, HalfOpens
<1>10. DataInv' BY <1>1, <1>5, <1>6, <1>7, <1>8, <1>9 DEF DataInv
<1>11. StackInv' BY <1>1, <1>2, <1>3, <1>4, <1>6, <1>7, StayStep
<1> QED BY <1>10, <1>11 DEF IInv

\* Taking the lock: free, or already held by a caller frame of this thread.
LEMMA EnterPreserves ==
    ASSUME IInv, NEW t \in Threads, Enter(t)
    PROVE  IInv'
<1> DEFINE s == stack[t]
           a == App(t)
           f == [Top(t) EXCEPT !.at = FirstStep(Top(t)), !.locked = (owner[a] = NoThread)]
<1>1. StackInv /\ DataInv BY DEF IInv
<1>2. s # <<>> /\ Top(t).at = "enter" /\ owner[a] \in {NoThread, t} BY DEF Enter, At
<1>3. /\ Held(s, owner, t) /\ FrameOK(Top(t), registered) /\ a \in Apps
      /\ Len(s) \in 1..Len(s) /\ Len(s) \in Nat /\ StackOK(s, registered)
  BY <1>1, <1>2, TopFacts
<1>4. owner' = [owner EXCEPT ![a] = t] /\ registered' = registered BY DEF Enter
<1>5. owner' \in [Apps -> Threads \cup {NoThread}] /\ owner'[a] = t
  BY <1>1, <1>3, <1>4 DEF DataInv
<1>6. DataInv' BY <1>1, <1>5 DEF DataInv, Enter, launcherVars
<1>7. Top(t).op # "preload" /\ Top(t) \in Frame /\ Top(t).app = a /\ a \in registered
  BY <1>2, <1>3 DEF FrameOK, App
<1>8. FirstStep(Top(t)) \in LauncherSteps \cup {"unmark", "return"}
  BY DEF FirstStep, CloseStep, LauncherSteps
<1>9. Top(t).op = "stopAll" => FirstStep(Top(t)) = "stop" BY DEF FirstStep
<1>10. /\ f \in Frame /\ f.at = FirstStep(Top(t)) /\ f.op = Top(t).op /\ f.app = a
       /\ f.todo = Top(t).todo /\ f.locked = (owner[a] = NoThread)
  BY <1>7, <1>8 DEF Frame, Steps, LockedSteps, LauncherSteps
<1>11. stack' = WithTop(t, f) BY DEF Enter
<1> HIDE DEF f
<1>12. FrameOK(f, registered)
  BY <1>2, <1>3, <1>7, <1>8, <1>9, <1>10 DEF FrameOK, LauncherSteps
<1>13. \A x \in Apps : owner'[x] = owner[x] \/ owner[x] \in {NoThread, t}
  BY <1>1, <1>2, <1>3, <1>4 DEF DataInv
<1>14. ASSUME NEW i \in 1..Len(s), i < Len(s), s[i].at \in HeldSteps
       PROVE  owner'[s[i].app] = t /\ (f.locked => s[i].app # f.app)
  <2>1. owner[s[i].app] = t BY <1>3, <1>14 DEF Held
  <2>2. s[i].app \in Apps BY <1>3 DEF StackOK, FrameOK, Frame
  <2>3. owner'[s[i].app] = t BY <2>1, <2>2, <1>1, <1>4 DEF DataInv
  <2>4. f.locked => owner[a] = NoThread BY <1>10, Zenon
  <2>5. f.locked => s[i].app # f.app BY <2>1, <2>4, <1>10, ThreadsAssumption
  <2> QED BY <2>3, <2>5
<1>15. StackInv'
  BY <1>1, <1>2, <1>4, <1>5, <1>10, <1>11, <1>12, <1>13, <1>14, ReplaceStep
<1> QED BY <1>6, <1>15 DEF IInv

\* stop_all leaves the lock right after launcher.stop, raised or not.
LEMMA StopAllStepPreserves ==
    ASSUME IInv, NEW t \in Threads, Stop(t), Top(t).op = "stopAll"
    PROVE  IInv'
<1> DEFINE s == stack[t]
           f == [Top(t) EXCEPT !.at = "discard"]
<1>1. StackInv /\ DataInv BY DEF IInv
<1>2. s # <<>> /\ Top(t).at = "stop" BY DEF Stop, At
<1>3. Top(t).at \in HeldSteps BY <1>2 DEF HeldSteps, LockedSteps, LauncherSteps
<1>4. FrameOK(Top(t), registered) /\ App(t) \in Apps BY <1>1, <1>2, TopFacts
<1>5. Goto(t, "discard") /\ Release(t) BY DEF Stop, StopFails, AfterStop
<1>6. /\ owner' \in [Apps -> Threads \cup {NoThread}]
      /\ \A a \in Apps : owner'[a] = owner[a] \/ owner[a] \in {NoThread, t}
      /\ \A i \in 1..Len(s) : (i < Len(s) /\ s[i].at \in HeldSteps) => owner'[s[i].app] = t
  BY <1>1, <1>2, <1>3, <1>5, ReleaseFacts
<1>7. DataInv' BY <1>1, <1>4, <1>6 DEF DataInv, Stop, Quits, Misses, launcherVars
<1>8. f.op = Top(t).op /\ f.at = "discard" /\ f.at \notin HeldSteps
  BY <1>4 DEF FrameOK, Frame, HeldSteps, LockedSteps, LauncherSteps
<1>9. FrameOK(f, registered) BY <1>2, <1>4 DEF FrameOK, Frame, Steps, PassOps
<1>10. stack' = WithTop(t, f) BY <1>5 DEF Goto
<1>11. registered' = registered BY DEF Stop
<1> HIDE DEF f
<1>12. StackInv' BY <1>1, <1>2, <1>6, <1>8, <1>9, <1>10, <1>11, ReplaceStep
<1> QED BY <1>7, <1>12 DEF IInv

\* Steps outside the lock: the loops over peers and over registered
\* applications, and the calls they make.
LEMMA PlainReplace ==
    ASSUME StackInv, NEW t \in Threads, stack[t] # <<>>, NEW f, FrameOK(f, registered),
           f.op = Top(t).op, f.at \notin HeldSteps, stack' = WithTop(t, f),
           registered' = registered, owner' = owner
    PROVE  StackInv'
<1>1. Held(stack[t], owner, t) BY TopFacts
<1> QED BY <1>1, ReplaceStep DEF Held

\* The loops over peers and applications, and the discard of a failed start.
LEMMA LoopsPreserve ==
    ASSUME IInv, NEW t \in Threads,
           ClosePeer(t) \/ PeersClosed(t) \/ NextApp(t) \/ Discard(t)
    PROVE  IInv'
<1>1. StackInv /\ DataInv BY DEF IInv
<1>2. stack[t] # <<>> BY DEF ClosePeer, PeersClosed, NextApp, Discard, At
<1>3. FrameOK(Top(t), registered) /\ registered \subseteq Apps BY <1>1, <1>2, TopFacts DEF DataInv
<1>4. DataInv'
  BY <1>1 DEF DataInv, ClosePeer, PeersClosed, NextApp, Discard, launcherVars
<1>5. registered' = registered /\ owner' = owner
  BY DEF ClosePeer, PeersClosed, NextApp, Discard
<1>6. CASE ClosePeer(t)
  <2>1. PICK p \in Top(t).todo :
          LET rest == [Top(t) EXCEPT !.todo = @ \ {p}]
          IN stack' = IF p \in running THEN Push(t, rest, Call("close", p)) ELSE WithTop(t, rest)
    BY <1>6 DEF ClosePeer
  <2> DEFINE rest == [Top(t) EXCEPT !.todo = @ \ {p}]
  <2>2. Top(t).at = "peers" /\ Top(t).op = "show" BY <1>3, <1>6 DEF ClosePeer, At, FrameOK
  <2>3. /\ FrameOK(rest, registered) /\ rest.op = "show" /\ rest.at = "peers"
        /\ rest.app = Top(t).app /\ rest.locked = Top(t).locked
    BY <1>3, <2>2 DEF FrameOK, Frame
  <2>4. FrameOK(Call("close", p), registered) /\ Call("close", p).op = "close"
        /\ Call("close", p).at \notin HeldSteps
    BY <1>3, CallOK DEF FrameOK, AppOps
  <2>5. "peers" \notin HeldSteps BY DEF HeldSteps, LockedSteps, LauncherSteps
  <2>6. stack' = Push(t, rest, Call("close", p)) \/ stack' = WithTop(t, rest) BY <2>1
  <2>7. Rank("close") + 1 <= Rank("show") BY DEF Rank
  <2> HIDE DEF rest
  <2>8. CASE stack' = Push(t, rest, Call("close", p))
    BY <1>1, <1>2, <1>4, <1>5, <2>2, <2>3, <2>4, <2>5, <2>7, <2>8, PushStep DEF IInv
  <2>9. CASE stack' = WithTop(t, rest)
    BY <1>1, <1>2, <1>4, <1>5, <2>2, <2>3, <2>5, <2>9, PlainReplace DEF IInv
  <2> QED BY <2>6, <2>8, <2>9
<1>7. CASE PeersClosed(t)
  <2> DEFINE f == [Top(t) EXCEPT !.at = "enter"]
  <2>1. Top(t).at = "peers" /\ Top(t).op = "show" BY <1>3, <1>7 DEF PeersClosed, At, FrameOK
  <2>2. FrameOK(f, registered) /\ f.op = Top(t).op /\ f.at \notin HeldSteps
    BY <1>3, <2>1 DEF FrameOK, Frame, Steps, HeldSteps, LockedSteps, LauncherSteps
  <2>3. stack' = WithTop(t, f) BY <1>7 DEF PeersClosed, Goto
  <2> QED BY <1>1, <1>2, <1>4, <1>5, <2>2, <2>3, PlainReplace DEF IInv
<1>8. CASE Discard(t)
  <2> DEFINE f == [Top(t) EXCEPT !.at = "next", !.locked = FALSE]
  <2>1. Top(t).op \in PassOps BY <1>3, <1>8 DEF Discard, At, FrameOK
  <2>2. FrameOK(f, registered) /\ f.op = Top(t).op /\ f.at \notin HeldSteps
    BY <1>3, <2>1 DEF FrameOK, Frame, Steps, HeldSteps, LockedSteps, LauncherSteps
  <2>3. stack' = WithTop(t, f) BY <1>8 DEF Discard
  <2> QED BY <1>1, <1>2, <1>4, <1>5, <2>2, <2>3, PlainReplace DEF IInv
<1>9. CASE NextApp(t)
  <2>1. PICK a \in Top(t).todo :
          LET rest == [Top(t) EXCEPT !.todo = @ \ {a}, !.app = a]
          IN stack' = IF Top(t).op = "stopAll" THEN WithTop(t, [rest EXCEPT !.at = "enter"])
                      ELSE IF Startup[a] = "lazy" THEN WithTop(t, rest)
                      ELSE Push(t, rest, Call(IF Startup[a] = "preload" THEN "prewarm" ELSE "show", a))
    BY <1>9 DEF NextApp
  <2> DEFINE rest == [Top(t) EXCEPT !.todo = @ \ {a}, !.app = a]
             waiting == [rest EXCEPT !.at = "enter"]
             op == IF Startup[a] = "preload" THEN "prewarm" ELSE "show"
  <2>2. Top(t).at = "next" /\ Top(t).op \in PassOps /\ a \in registered /\ Top(t).op # "restart"
    BY <1>3, <1>9 DEF NextApp, At, FrameOK, PassOps
  <2>3. "next" \notin HeldSteps /\ "enter" \notin HeldSteps
    BY DEF HeldSteps, LockedSteps, LauncherSteps
  <2>4. /\ FrameOK(rest, registered) /\ rest.op = Top(t).op /\ rest.at = "next"
        /\ rest.locked = Top(t).locked
    BY <1>3, <2>2 DEF FrameOK, Frame
  <2>5. waiting.op = Top(t).op /\ waiting.at = "enter" BY <1>3 DEF FrameOK, Frame
  <2>6. Top(t).op = "stopAll" => FrameOK(waiting, registered)
    BY <1>3, <2>2 DEF FrameOK, Frame, Steps
  <2>7. op \in AppOps /\ Rank(op) + 1 <= 3 BY DEF AppOps, Rank
  <2>8. FrameOK(Call(op, a), registered) /\ Call(op, a).op = op /\ Call(op, a).at \notin HeldSteps
    BY <1>3, <2>2, <2>7, CallOK
  <2>9. \/ Top(t).op = "stopAll" /\ stack' = WithTop(t, waiting)
        \/ Top(t).op # "stopAll" /\ (stack' = WithTop(t, rest) \/ stack' = Push(t, rest, Call(op, a)))
    <3>1. CASE Top(t).op = "stopAll" BY <2>1, <3>1
    <3>2. CASE Top(t).op # "stopAll" /\ Startup[a] = "lazy" BY <2>1, <3>2
    <3>3. CASE Top(t).op # "stopAll" /\ Startup[a] # "lazy" BY <2>1, <3>3
    <3> QED BY <3>1, <3>2, <3>3
  <2>10. Top(t).op # "stopAll" => Rank(Top(t).op) = 3 BY <2>2 DEF Rank, PassOps
  <2> HIDE DEF rest, waiting, op
  <2>11. CASE Top(t).op = "stopAll" /\ stack' = WithTop(t, waiting)
    BY <1>1, <1>2, <1>4, <1>5, <2>3, <2>5, <2>6, <2>11, PlainReplace DEF IInv
  <2>12. CASE stack' = WithTop(t, rest)
    BY <1>1, <1>2, <1>4, <1>5, <2>3, <2>4, <2>12, PlainReplace DEF IInv
  <2>13. CASE Top(t).op # "stopAll" /\ stack' = Push(t, rest, Call(op, a))
    BY <1>1, <1>2, <1>4, <1>5, <2>2, <2>3, <2>4, <2>7, <2>8, <2>10, <2>13, PushStep DEF IInv
  <2> QED BY <2>9, <2>11, <2>12, <2>13
<1> QED BY <1>6, <1>7, <1>8, <1>9

\* restart keeps its lock while it calls show.
LEMMA RestartPreserves ==
    ASSUME IInv, NEW t \in Threads, RestartShows(t)
    PROVE  IInv'
<1> DEFINE f == [Top(t) EXCEPT !.at = "return"]
<1>1. StackInv /\ DataInv BY DEF IInv
<1>2. stack[t] # <<>> /\ Top(t).at = "show" BY DEF RestartShows, At
<1>3. FrameOK(Top(t), registered) /\ registered \subseteq Apps BY <1>1, <1>2, TopFacts DEF DataInv
<1>4. Top(t).op = "restart" /\ App(t) \in registered BY <1>2, <1>3 DEF FrameOK, App
<1>5. DataInv' BY <1>1 DEF DataInv, RestartShows, launcherVars
<1>6. /\ FrameOK(f, registered) /\ f.op = "restart" /\ f.app = Top(t).app /\ f.at = "return"
      /\ f.locked = Top(t).locked /\ Top(t).at \in HeldSteps
  BY <1>2, <1>3, <1>4 DEF FrameOK, Frame, Steps, HeldSteps, LockedSteps
<1>7. FrameOK(Call("show", App(t)), registered) /\ Call("show", App(t)).op = "show"
      /\ Call("show", App(t)).at \notin HeldSteps
  BY <1>3, <1>4, CallOK DEF AppOps
<1>8. Rank("show") + 1 <= Rank("restart") BY DEF Rank
<1>9. stack' = Push(t, f, Call("show", App(t))) /\ registered' = registered /\ owner' = owner
  BY DEF RestartShows
<1> HIDE DEF f
<1>10. StackInv' BY <1>1, <1>2, <1>4, <1>6, <1>7, <1>8, <1>9, PushStep
<1> QED BY <1>5, <1>10 DEF IInv

\* Leaving a method: return, a finished loop, or an exception.
LEMMA LeavePreserves ==
    ASSUME IInv, NEW t \in Threads, Return(t) \/ PassDone(t) \/ Unwind(t)
    PROVE  IInv'
<1> DEFINE s == stack[t]
<1>1. StackInv /\ DataInv BY DEF IInv
<1>2. s # <<>> BY DEF Return, PassDone, Unwind, At
<1>3. /\ Held(s, owner, t) /\ StackOK(s, registered) /\ Outermost(s)
      /\ Len(s) \in 1..Len(s) /\ Len(s) \in Nat
  BY <1>1, <1>2, TopFacts
<1>4. CASE PassDone(t)
  <2>1. DataInv' BY <1>1, <1>4 DEF DataInv, PassDone, launcherVars
  <2>2. owner' = owner /\ registered' = registered /\ stack' = [stack EXCEPT ![t] = Pop(t)]
    BY <1>4 DEF PassDone
  <2>3. StackInv' BY <1>1, <1>2, <1>3, <2>2, PopStep DEF Held
  <2> QED BY <2>1, <2>3 DEF IInv
<1>5. ASSUME Return(t) \/ Unwind(t)
      PROVE  /\ DataInv' /\ registered' = registered
             /\ \A a \in Apps : owner'[a] = owner[a] \/ owner[a] \in {NoThread, t}
             /\ \A i \in 1..Len(s) : (i < Len(s) /\ s[i].at \in HeldSteps) => owner'[s[i].app] = t
  <2>1. Top(t).at \in HeldSteps BY <1>5 DEF Return, Unwind, At, HeldSteps, LockedSteps
  <2>2. Release(t) BY <1>5 DEF Return, Unwind
  <2>3. /\ owner' \in [Apps -> Threads \cup {NoThread}]
        /\ \A a \in Apps : owner'[a] = owner[a] \/ owner[a] \in {NoThread, t}
        /\ \A i \in 1..Len(s) : (i < Len(s) /\ s[i].at \in HeldSteps) => owner'[s[i].app] = t
    BY <1>1, <1>2, <2>1, <2>2, ReleaseFacts
  <2> QED BY <1>1, <1>5, <2>3 DEF DataInv, Return, Unwind, launcherVars
<1>6. CASE Return(t)
  <2>1. stack' = [stack EXCEPT ![t] = Pop(t)] BY <1>6 DEF Return
  <2> QED BY <1>1, <1>2, <1>5, <1>6, <2>1, PopStep DEF IInv
<1>7. CASE Unwind(t)
  <2> DEFINE r == SubSeq(s, 1, Len(s) - 1)
             n == Len(r)
             f == [r[n] EXCEPT !.at = "raise"]
             q == Replace(r, f)
  <2>1. /\ StackOK(r, registered) /\ Len(r) = Len(s) - 1
        /\ \A i \in 1..Len(r) : i < Len(s) /\ i \in 1..Len(s) /\ r[i] = s[i]
    BY <1>2, <1>3, PopStack
  <2>2. stack' = [stack EXCEPT ![t] = IF n > 0 /\ r[n].op = "restart" THEN q ELSE r]
    BY <1>7 DEF Unwind, Pop
  <2> HIDE DEF r
  <2>3. Held(r, owner', t) BY <1>5, <1>7, <2>1 DEF Held
  <2>4. Outermost(r) BY <1>3, <2>1 DEF Outermost
  <2>5. CASE ~(n > 0 /\ r[n].op = "restart")
    <3>1. stack' = [stack EXCEPT ![t] = r] BY <2>2, <2>5
    <3> QED BY <1>1, <1>5, <1>7, <2>1, <2>3, <2>4, <3>1, OneStack DEF IInv
  <2>6. CASE n > 0 /\ r[n].op = "restart"
    <3>1. stack' = [stack EXCEPT ![t] = q] BY <2>2, <2>6
    <3>2. r \in Seq(Frame) /\ n \in Nat /\ n \in 1..n BY <1>3, <2>1, <2>6 DEF StackOK
    <3>3. r # <<>> BY <3>2, EmptySeq, <2>6
    <3>4. FrameOK(r[n], registered) /\ r[n].at = "return"
      BY <1>3, <2>1, <2>6, <3>2 DEF StackOK
    <3>5. /\ FrameOK(f, registered) /\ f.op = r[n].op /\ f.app = r[n].app
          /\ f.locked = r[n].locked /\ f.at = "raise"
      BY <3>4, <2>6 DEF FrameOK, Frame, Steps
    <3>6. "return" \in HeldSteps BY DEF HeldSteps, LockedSteps
    <3> HIDE DEF f
    <3>7. /\ StackOK(q, registered) /\ Len(q) = n
          /\ \A i \in 1..n : q[i] = IF i = n THEN f ELSE r[i]
      <4>1. StackOK(r, registered) /\ r # <<>> /\ FrameOK(f, registered) /\ f.op = r[Len(r)].op
        BY <2>1, <3>3, <3>5
      <4> QED BY <4>1, ReplaceStack
    <3> HIDE DEF q
    <3>8. Held(q, owner', t) BY <2>3, <3>2, <3>4, <3>5, <3>6, <3>7 DEF Held
    <3>9. Outermost(q) BY <2>4, <3>2, <3>4, <3>5, <3>6, <3>7 DEF Outermost
    <3> QED BY <1>1, <1>5, <1>7, <3>1, <3>7, <3>8, <3>9, OneStack DEF IInv
  <2> QED BY <2>5, <2>6
<1> QED BY <1>4, <1>6, <1>7

\* Any step of a thread inside a call.
LEMMA StepPreserves ==
    ASSUME IInv, NEW t \in Threads, Step(t)
    PROVE  IInv'
BY EnterPreserves, StopAllStepPreserves, InsidePreserve, LoopsPreserve, RestartPreserves,
   LeavePreserves DEF Step

\* A new runtime satisfies the invariant.
LEMMA InitIInv == Init => IInv
<1> SUFFICES ASSUME Init PROVE IInv OBVIOUS
<1>1. DataInv BY LauncherAssumption DEF Init, DataInv
<1>2. StackOK(<<>>, registered) BY EmptySeq DEF StackOK
<1>3. \A t \in Threads : Held(<<>>, owner, t) /\ Outermost(<<>>) BY DEF Held, Outermost
<1>4. StackInv BY <1>2, <1>3, EmptySeq DEF StackInv, Init
<1> QED BY <1>1, <1>4 DEF IInv

\* The invariant is inductive.
LEMMA NextIInv == IInv /\ [Next]_vars => IInv'
<1> SUFFICES ASSUME IInv, [Next]_vars PROVE IInv' OBVIOUS
<1>1. CASE Requests BY <1>1, RequestsPreserve
<1>2. ASSUME NEW t \in Threads, Step(t) PROVE IInv' BY <1>2, StepPreserves
<1>3. ASSUME NEW a \in Apps, AppExits(a) \/ WindowCloses(a) PROVE IInv'
  BY <1>3 DEF AppExits, WindowCloses, Quits, IInv, DataInv, StackInv, StackOK, FrameOK, Held
<1>4. CASE UNCHANGED vars
  BY <1>4 DEF vars, launcherVars, IInv, DataInv, StackInv, StackOK, FrameOK, Held
<1> QED BY <1>1, <1>2, <1>3, <1>4 DEF Next

-----------------------------------------------------------------------------
(* The results.                                                            *)

\* The inductive invariant holds in every reachable state.
THEOREM Inductive == Spec => []IInv
<1>1. Init => IInv BY InitIInv
<1>2. IInv /\ [Next]_vars => IInv' BY NextIInv
<1> QED BY <1>1, <1>2, PTL DEF Spec

\* Types, only registered applications visible, calls at most three deep:
\* for every configuration and any number of calling threads.
THEOREM TypeCorrect == Spec => []TypeOK
<1>1. IInv => TypeOK
  <2> SUFFICES ASSUME IInv PROVE TypeOK OBVIOUS
  <2>1. ASSUME NEW t \in Threads PROVE Len(stack[t]) <= 3
    <3>1. StackOK(stack[t], registered) /\ stack[t] \in Seq(Frame) BY DEF IInv, StackInv
    <3>2. CASE stack[t] = <<>> BY <3>2, EmptySeq
    <3>3. CASE stack[t] # <<>>
      <4>1. Len(stack[t]) \in 1..Len(stack[t]) /\ Len(stack[t]) \in Nat BY <3>1, <3>3, TopInRange
      <4>2. Len(stack[t]) + Rank(stack[t][Len(stack[t])].op) <= 4 BY <3>1, <4>1 DEF StackOK
      <4>3. \A op : Rank(op) \in Nat /\ Rank(op) >= 1 BY DEF Rank
      <4> QED BY <4>1, <4>2, <4>3
    <3> QED BY <3>2, <3>3
  <2> QED BY <2>1 DEF TypeOK, IInv, DataInv, StackInv
<1> QED BY <1>1, Inductive, PTL

\* A method that took a lifecycle lock holds it until it is left.
THEOREM LocksHeld == Spec => []LifecycleLocked
<1>1. IInv => LifecycleLocked BY DEF IInv, StackInv, Held, HeldSteps, LifecycleLocked
<1> QED BY <1>1, Inductive, PTL

\* No two threads are inside the launcher of one application.
THEOREM Serialized == Spec => []LauncherSerialized
<1>1. IInv => LauncherSerialized
  <2> SUFFICES ASSUME IInv, NEW t \in Threads, NEW u \in Threads, t # u,
                      stack[t] # <<>>, stack[u] # <<>>,
                      Top(t).at \in LauncherSteps, Top(u).at \in LauncherSteps
               PROVE  App(t) # App(u)
    BY DEF LauncherSerialized
  <2>1. LauncherSteps \subseteq HeldSteps BY DEF HeldSteps, LockedSteps
  <2>2. owner[App(t)] = t /\ owner[App(u)] = u BY <2>1, TopFacts DEF IInv
  <2> QED BY <2>2
<1> QED BY <1>1, Inductive, PTL

-----------------------------------------------------------------------------
(* What calls what.                                                        *)

Peer(p, a) == p # a /\ Group[a] # NoGroup /\ Group[p] = Group[a]

\* The methods that have a step, and what they know when they are at it.
Fit(f) ==
    /\ f.at \in {"present", "mark"} => f.op = "show"
    /\ f.at = "launch" => f.op = "show" \/ (f.op = "prewarm" /\ f.app \notin Preloadable)
    /\ f.at = "prepare" => f.op = "prewarm"
    /\ f.at = "hide" => f.op \in {"hide", "close", "prewarm"}
    /\ f.at = "closeBrowser" => f.op = "close"
    /\ f.at \in {"hide", "closeBrowser"} /\ f.op = "close" => Startup[f.app] # "lazy"
    /\ f.at = "stop" => /\ f.op \in {"stop", "restart", "close", "prewarm", "stopAll"}
                        /\ f.op = "close" => Startup[f.app] # "persistent"
    /\ f.at = "raise" => f.app \in Faulty
    /\ f.op = "restart" => f.app \in Restartable
    /\ f.op = "show" => /\ \A p \in f.todo : Peer(p, f.app)
                        /\ f.at # "peers" => f.todo = {}

\* Frame g is that of a method which the method of frame f has called.
Calls(f, g) ==
    \/ f.op = "restart" /\ g.op = "show" /\ g.app = f.app
    \/ f.op = "show" /\ f.at = "peers" /\ g.op = "close" /\ Peer(g.app, f.app)
    \/ /\ f.op = "preload" /\ g.app = f.app
       /\ \/ g.op = "prewarm" /\ Startup[g.app] = "preload"
          \/ g.op = "show" /\ Startup[g.app] = "persistent"

Nested(s) ==
    /\ \A i \in 1..Len(s) : Fit(s[i])
    /\ \A i \in 1..Len(s) : i < Len(s) => Calls(s[i], s[i + 1])

\* Applications are preloaded by the preload worker, which does nothing else.
Begun(s, t) == s # <<>> => /\ s[1].op # "prewarm"
                           /\ s[1].op = "preload" <=> t = Preloader

CallsInv == \A t \in Threads : Nested(stack[t]) /\ Begun(stack[t], t)

-----------------------------------------------------------------------------
(* The three ways in which a step changes the stack of its thread.         *)

Others(t) == \A u \in Threads : u # t => stack'[u] = stack[u]

\* The innermost frame becomes f.
Becomes(t, f) ==
    /\ f \in Frame /\ stack'[t] \in Seq(Frame) /\ stack'[t] # <<>> /\ Len(stack'[t]) = Len(stack[t])
    /\ \A i \in 1..Len(stack[t]) : stack'[t][i] = IF i = Len(stack[t]) THEN f ELSE stack[t][i]
    /\ Top(t)' = f /\ Others(t)

\* It becomes f and calls c.
MakesCall(t, f, c) ==
    /\ f \in Frame /\ c \in Frame /\ stack'[t] \in Seq(Frame) /\ stack'[t] # <<>>
    /\ Len(stack'[t]) = Len(stack[t]) + 1
    /\ \A i \in 1..Len(stack[t]) : stack'[t][i] = IF i = Len(stack[t]) THEN f ELSE stack[t][i]
    /\ stack'[t][Len(stack[t]) + 1] = c
    /\ Top(t)' = c /\ Others(t)

\* It disappears; its caller stays as it is, or raises in its turn.
Leaves(t) ==
    /\ stack'[t] \in Seq(Frame) /\ Len(stack'[t]) = Len(stack[t]) - 1
    /\ \A i \in 1..(Len(stack[t]) - 1) :
         \/ stack'[t][i] = stack[t][i]
         \/ /\ stack[t][i].op = "restart" /\ i = Len(stack[t]) - 1 /\ Top(t).at = "raise"
            /\ stack'[t][i] = [stack[t][i] EXCEPT !.at = "raise"]
    /\ Others(t)

\* A thread inside a call: its stack, its top frame, in the terms used below.
LEMMA Inside ==
    ASSUME IInv, NEW t \in Threads, stack[t] # <<>>
    PROVE  /\ stack[t] \in Seq(Frame) /\ Len(stack[t]) \in Nat /\ Len(stack[t]) > 0
           /\ Len(stack[t]) \in 1..Len(stack[t])
           /\ Top(t) = stack[t][Len(stack[t])] /\ Top(t) \in Frame /\ App(t) = Top(t).app
           /\ App(t) \in Apps /\ FrameOK(Top(t), registered)
           /\ Top(t).at \in HeldSteps => owner[App(t)] = t
<1>1. StackInv BY DEF IInv
<1> QED BY <1>1, TopFacts, TopInRange DEF FrameOK, App

\* WithTop is Becomes.
LEMMA WithTopBecomes ==
    ASSUME IInv, NEW t \in Threads, stack[t] # <<>>, NEW f \in Frame, stack' = WithTop(t, f)
    PROVE  Becomes(t, f)
<1>1. /\ stack[t] \in Seq(Frame) /\ Len(stack[t]) \in Nat /\ Len(stack[t]) > 0
      /\ Len(stack[t]) \in 1..Len(stack[t]) /\ stack \in [Threads -> Seq(Frame)]
  BY Inside DEF IInv, StackInv
<1> DEFINE r == Replace(stack[t], f)
<1>2. /\ r \in Seq(Frame) /\ Len(r) = Len(stack[t])
      /\ \A i \in 1..Len(stack[t]) : r[i] = IF i = Len(stack[t]) THEN f ELSE stack[t][i]
  BY <1>1, ExceptSeq DEF Replace
<1>3. stack' = [stack EXCEPT ![t] = r] BY DEF WithTop
<1> HIDE DEF r
<1>4. stack'[t] = r /\ Others(t) BY <1>1, <1>3 DEF Others
<1>5. r # <<>> BY <1>1, <1>2, EmptySeq
<1> QED BY <1>1, <1>2, <1>4, <1>5 DEF Becomes, Top

\* Push is MakesCall.
LEMMA PushMakesCall ==
    ASSUME IInv, NEW t \in Threads, stack[t] # <<>>, NEW f \in Frame, NEW c \in Frame,
           stack' = Push(t, f, c)
    PROVE  MakesCall(t, f, c)
<1>1. /\ stack[t] \in Seq(Frame) /\ Len(stack[t]) \in Nat /\ Len(stack[t]) > 0
      /\ Len(stack[t]) \in 1..Len(stack[t]) /\ stack \in [Threads -> Seq(Frame)]
  BY Inside DEF IInv, StackInv
<1> DEFINE q == Replace(stack[t], f)
           r == Append(q, c)
<1>2. /\ q \in Seq(Frame) /\ Len(q) = Len(stack[t])
      /\ \A i \in 1..Len(stack[t]) : q[i] = IF i = Len(stack[t]) THEN f ELSE stack[t][i]
  BY <1>1, ExceptSeq DEF Replace
<1> HIDE DEF q
<1>3. /\ r \in Seq(Frame) /\ Len(r) = Len(q) + 1 /\ r[Len(q) + 1] = c
      /\ \A i \in 1..Len(q) : r[i] = q[i]
  BY <1>2, AppendProperties
<1>4. stack' = [stack EXCEPT ![t] = r] BY DEF Push, q
<1> HIDE DEF r
<1>5. stack'[t] = r /\ Others(t) BY <1>1, <1>4 DEF Others
<1>6. r # <<>> BY <1>1, <1>2, <1>3, EmptySeq
<1> QED BY <1>1, <1>2, <1>3, <1>5, <1>6 DEF MakesCall, Top

\* Pop, and Unwind with it, is Leaves.
LEMMA PopLeaves ==
    ASSUME IInv, NEW t \in Threads, Return(t) \/ PassDone(t) \/ Unwind(t)
    PROVE  Leaves(t)
<1> DEFINE s == stack[t]
           r == Pop(t)
           n == Len(r)
           f == [r[n] EXCEPT !.at = "raise"]
<1>1. s # <<>> BY DEF Return, PassDone, Unwind, At
<1>2. /\ s \in Seq(Frame) /\ Len(s) \in Nat /\ Len(s) > 0 /\ StackOK(s, registered)
      /\ stack \in [Threads -> Seq(Frame)]
  BY <1>1, Inside DEF IInv, StackInv
<1>3. /\ r \in Seq(Frame) /\ n = Len(s) - 1 /\ \A i \in 1..n : r[i] = s[i]
  <2>1. /\ StackOK(r, registered) /\ n = Len(s) - 1
        /\ \A i \in 1..n : i < Len(s) /\ i \in 1..Len(s) /\ r[i] = s[i]
    BY <1>1, <1>2, PopStack DEF Pop
  <2> HIDE DEF r
  <2> QED BY <2>1 DEF StackOK
<1> HIDE DEF r
<1>4. CASE stack' = [stack EXCEPT ![t] = r]
  <2>1. stack'[t] = r /\ Others(t) BY <1>2, <1>4 DEF Others
  <2> QED BY <1>2, <1>3, <2>1 DEF Leaves
<1>5. CASE Unwind(t) /\ n > 0 /\ r[n].op = "restart" /\ stack' = [stack EXCEPT ![t] = Replace(r, f)]
  <2>1. n \in 1..n /\ r[n] \in Frame BY <1>2, <1>3, <1>5
  <2>2. f \in Frame BY <2>1 DEF Frame, Steps
  <2> HIDE DEF f
  <2> DEFINE q == Replace(r, f)
  <2>3. q \in Seq(Frame) /\ Len(q) = n /\ \A i \in 1..n : q[i] = IF i = n THEN f ELSE r[i]
    BY <1>3, <2>1, <2>2, ExceptSeq DEF Replace
  <2>4. stack' = [stack EXCEPT ![t] = q] BY <1>5
  <2> HIDE DEF q
  <2>5. stack'[t] = q /\ Others(t) BY <1>2, <2>4 DEF Others
  <2>6. Top(t).at = "raise" BY <1>5 DEF Unwind, At
  <2>7. f = [s[n] EXCEPT !.at = "raise"] BY <1>3, <2>1 DEF f
  <2>8. s[n].op = "restart" BY <1>3, <1>5, <2>1
  <2>9. \A i \in 1..(Len(s) - 1) :
          \/ stack'[t][i] = s[i]
          \/ i = Len(s) - 1 /\ i = n /\ stack'[t][i] = f
    BY <1>2, <1>3, <2>3, <2>5
  <2> QED BY <1>3, <2>3, <2>5, <2>6, <2>7, <2>8, <2>9 DEF Leaves
<1> QED BY <1>4, <1>5 DEF Return, PassDone, Unwind, r, n, f

\* Calls depends on the callee's method and application only.
LEMMA CallsSame ==
    ASSUME NEW f, NEW g, NEW h, Calls(f, g), h.op = g.op, h.app = g.app
    PROVE  Calls(f, h)
BY DEF Calls

\* The passes are never called.
LEMMA PassAtBottom ==
    ASSUME IInv, CallsInv, NEW t \in Threads, stack[t] # <<>>, Top(t).op \in PassOps
    PROVE  Len(stack[t]) = 1
<1>1. /\ Len(stack[t]) \in Nat /\ Len(stack[t]) > 0 /\ Top(t) = stack[t][Len(stack[t])]
      /\ Nested(stack[t])
  BY Inside DEF CallsInv
<1> SUFFICES ASSUME Len(stack[t]) # 1 PROVE FALSE OBVIOUS
<1>2. /\ Len(stack[t]) - 1 \in 1..Len(stack[t]) /\ Len(stack[t]) - 1 < Len(stack[t])
      /\ Len(stack[t]) - 1 + 1 = Len(stack[t])
  <2>1. \A n \in Nat : n > 0 /\ n # 1 => n - 1 \in 1..n /\ n - 1 < n /\ n - 1 + 1 = n OBVIOUS
  <2> QED BY <1>1, <2>1
<1>3. Calls(stack[t][Len(stack[t]) - 1], Top(t)) BY <1>1, <1>2 DEF Nested
<1> QED BY <1>3 DEF Calls, PassOps

\* The innermost frame moves on.
LEMMA CallsBecomes ==
    ASSUME IInv, CallsInv, NEW t \in Threads, stack[t] # <<>>, NEW f, Becomes(t, f), Fit(f),
           f.op = Top(t).op, f.app = App(t) \/ Top(t).op \in PassOps
    PROVE  CallsInv'
<1> DEFINE s == stack[t]
           r == stack'[t]
<1>1. /\ Len(s) \in Nat /\ Len(s) > 0 /\ Top(t) = s[Len(s)] /\ App(t) = Top(t).app
      /\ Nested(s) /\ Begun(s, t)
  BY Inside DEF CallsInv
<1>2. Top(t).op \in PassOps => Len(s) = 1 BY PassAtBottom
<1>3. /\ Len(r) = Len(s) /\ \A i \in 1..Len(s) : r[i] = IF i = Len(s) THEN f ELSE s[i]
      /\ \A u \in Threads : u # t => stack'[u] = stack[u]
  BY DEF Becomes, Others
<1>4. \A i \in 1..Len(r) : Fit(r[i]) BY <1>1, <1>3 DEF Nested
<1>5. ASSUME NEW i \in 1..Len(r), i < Len(r) PROVE Calls(r[i], r[i + 1])
  <2>1. Calls(s[i], s[i + 1]) /\ r[i] = s[i] BY <1>1, <1>3, <1>5 DEF Nested
  <2>2. CASE i + 1 = Len(s)
    <3>1. r[i + 1] = f /\ Calls(s[i], Top(t)) BY <1>1, <1>3, <2>1, <2>2
    <3>2. f.app = Top(t).app BY <1>1, <1>2, <1>3, <1>5, <2>2
    <3> QED BY <2>1, <3>1, <3>2, CallsSame
  <2>3. CASE i + 1 # Len(s)
    <3>1. r[i + 1] = s[i + 1] BY <1>1, <1>3, <1>5, <2>3
    <3> QED BY <2>1, <3>1
  <2> QED BY <2>2, <2>3
<1>6. Nested(r) BY <1>4, <1>5 DEF Nested
<1>7. Begun(r, t)
  <2>1. r[1].op = s[1].op BY <1>1, <1>3
  <2>2. s # <<>> OBVIOUS
  <2> QED BY <1>1, <2>1, <2>2 DEF Begun
<1> QED BY <1>3, <1>6, <1>7 DEF CallsInv

\* It calls another method.
LEMMA CallsCall ==
    ASSUME IInv, CallsInv, NEW t \in Threads, stack[t] # <<>>, NEW f, NEW c, MakesCall(t, f, c),
           Fit(f), Fit(c), Calls(f, c), f.op = Top(t).op, f.app = App(t) \/ Top(t).op \in PassOps
    PROVE  CallsInv'
<1> DEFINE s == stack[t]
           r == stack'[t]
<1>1. /\ Len(s) \in Nat /\ Len(s) > 0 /\ Top(t) = s[Len(s)] /\ App(t) = Top(t).app
      /\ Nested(s) /\ Begun(s, t)
  BY Inside DEF CallsInv
<1>2. Top(t).op \in PassOps => Len(s) = 1 BY PassAtBottom
<1>3. /\ Len(r) = Len(s) + 1 /\ \A i \in 1..Len(s) : r[i] = IF i = Len(s) THEN f ELSE s[i]
      /\ r[Len(s) + 1] = c
      /\ \A u \in Threads : u # t => stack'[u] = stack[u]
  BY DEF MakesCall, Others
<1>4. ASSUME NEW i \in 1..Len(r) PROVE Fit(r[i])
  <2>1. i \in 1..Len(s) \/ i = Len(s) + 1 BY <1>1, <1>3
  <2> QED BY <1>1, <1>3, <2>1 DEF Nested
<1>5. ASSUME NEW i \in 1..Len(r), i < Len(r) PROVE Calls(r[i], r[i + 1])
  <2>1. CASE i = Len(s)
    <3>1. r[i] = f /\ r[i + 1] = c BY <1>1, <1>3, <2>1
    <3> QED BY <3>1
  <2>2. CASE i + 1 = Len(s)
    <3>1. r[i] = s[i] /\ r[i + 1] = f /\ Calls(s[i], Top(t)) BY <1>1, <1>3, <2>2 DEF Nested
    <3>2. f.app = Top(t).app BY <1>1, <1>2, <2>2
    <3> QED BY <3>1, <3>2, CallsSame
  <2>3. CASE i # Len(s) /\ i + 1 # Len(s)
    <3>1. r[i] = s[i] /\ r[i + 1] = s[i + 1] /\ Calls(s[i], s[i + 1])
      BY <1>1, <1>3, <1>5, <2>3 DEF Nested
    <3> QED BY <3>1
  <2> QED BY <2>1, <2>2, <2>3
<1>6. Nested(r) BY <1>4, <1>5 DEF Nested
<1>7. Begun(r, t)
  <2>1. r[1].op = s[1].op BY <1>1, <1>3
  <2>2. s # <<>> OBVIOUS
  <2> QED BY <1>1, <2>1, <2>2 DEF Begun
<1> QED BY <1>3, <1>6, <1>7 DEF CallsInv

\* It is left; an exception goes on only through restart, on the same application.
LEMMA CallsLeave ==
    ASSUME IInv, CallsInv, NEW t \in Threads, stack[t] # <<>>, Leaves(t)
    PROVE  CallsInv'
<1> DEFINE s == stack[t]
           r == stack'[t]
<1>1. /\ Len(s) \in Nat /\ Len(s) > 0 /\ Top(t) = s[Len(s)] /\ App(t) = Top(t).app
      /\ Nested(s) /\ Begun(s, t) /\ s \in Seq(Frame)
  BY Inside DEF CallsInv
<1>2. /\ Len(r) = Len(s) - 1 /\ r \in Seq(Frame)
      /\ \A u \in Threads : u # t => stack'[u] = stack[u]
  BY DEF Leaves, Others
<1>3. ASSUME NEW i \in 1..Len(r)
      PROVE  /\ Fit(r[i]) /\ r[i].op = s[i].op /\ r[i].app = s[i].app
             /\ r[i] = s[i] \/ i = Len(r)
  <2>1. CASE r[i] = s[i] BY <1>1, <1>2, <2>1 DEF Nested
  <2>2. CASE r[i] # s[i]
    <3>1. /\ s[i].op = "restart" /\ i = Len(s) - 1 /\ Top(t).at = "raise"
          /\ r[i] = [s[i] EXCEPT !.at = "raise"]
      BY <1>2, <2>2 DEF Leaves
    <3>2. s[i] \in Frame BY <1>1, <1>2
    <3>6. i \in 1..Len(s) /\ i < Len(s) /\ i + 1 = Len(s) /\ Len(s) \in 1..Len(s) BY <1>1, <1>2, <3>1
    <3>3. Calls(s[i], Top(t)) /\ Fit(s[i]) /\ Fit(Top(t)) BY <1>1, <3>6 DEF Nested
    <3>4. s[i].app \in Faulty BY <3>1, <3>3 DEF Calls, Fit
    <3>5. /\ r[i].op = "restart" /\ r[i].app = s[i].app /\ r[i].at = "raise"
      BY <3>1, <3>2 DEF Frame
    <3> QED BY <1>2, <3>1, <3>3, <3>4, <3>5 DEF Fit
  <2> QED BY <2>1, <2>2
<1>4. ASSUME NEW i \in 1..Len(r), i < Len(r) PROVE Calls(r[i], r[i + 1])
  <2>1. /\ i + 1 \in 1..Len(r) /\ i \in 1..Len(s) /\ i < Len(s) /\ i # Len(r) BY <1>1, <1>2, <1>4
  <2>2. /\ r[i] = s[i] /\ r[i + 1].op = s[i + 1].op /\ r[i + 1].app = s[i + 1].app
        /\ Calls(s[i], s[i + 1])
    BY <1>1, <1>3, <2>1 DEF Nested
  <2> QED BY <2>2, CallsSame
<1>5. Nested(r) BY <1>3, <1>4 DEF Nested
<1>6. Begun(r, t)
  <2>1. CASE r = <<>> BY <2>1 DEF Begun
  <2>2. CASE r # <<>>
    <3>1. 1 \in 1..Len(r) BY <1>2, <2>2, TopInRange
    <3>2. r[1].op = s[1].op BY <1>3, <3>1
    <3>3. s # <<>> OBVIOUS
    <3> QED BY <1>1, <3>2, <3>3 DEF Begun
  <2> QED BY <2>1, <2>2
<1> QED BY <1>2, <1>5, <1>6 DEF CallsInv

\* The frame of the innermost method fits it.
LEMMA TopFits ==
    ASSUME IInv, CallsInv, NEW t \in Threads, stack[t] # <<>>
    PROVE  Fit(Top(t))
BY Inside DEF CallsInv, Nested

\* The innermost method goes to another of its steps.
LEMMA CallsGoto ==
    ASSUME IInv, CallsInv, NEW t \in Threads, stack[t] # <<>>, NEW step \in Steps, Goto(t, step),
           Fit([Top(t) EXCEPT !.at = step])
    PROVE  CallsInv' /\ Becomes(t, [Top(t) EXCEPT !.at = step])
<1> DEFINE f == [Top(t) EXCEPT !.at = step]
<1>1. Top(t) \in Frame /\ App(t) = Top(t).app BY Inside
<1>2. f \in Frame /\ f.op = Top(t).op /\ f.app = App(t) BY <1>1 DEF Frame
<1>3. stack' = WithTop(t, f) BY DEF Goto
<1> HIDE DEF f
<1>4. Becomes(t, f) BY <1>2, <1>3, WithTopBecomes
<1>5. Fit(f) BY DEF f
<1>6. CallsInv' BY <1>2, <1>4, <1>5, CallsBecomes
<1> QED BY <1>4, <1>6 DEF f

\* Where a launcher call, the bookkeeping of _visible, or the end of the loop
\* over the peers may go.
Follows(f, step) ==
    \/ f.at = "peers" /\ f.todo = {} /\ step = "enter"
    \/ f.at = "present" /\ step \in {"mark", "launch"}
    \/ f.at = "launch" /\ step = AfterLaunch(f)
    \/ f.at = "stop" /\ step = AfterStop(f)
    \/ f.at = "stop" /\ f.op = "stopAll" /\ step = "discard"
    \/ f.at = "hide" /\ step \in {"unmark", AfterHideRefused(f)}
    \/ f.at = "closeBrowser" /\ step = "unmark"
    \/ f.at = "prepare" /\ step = "unmark"
    \/ f.at = "mark" /\ step = "return"
    \/ f.at = "unmark" /\ step = IF f.op = "restart" THEN "show" ELSE "return"
    \/ f.at \in LauncherSteps /\ f.app \in Faulty /\ step = "raise"

\* A launcher call, or the bookkeeping of _visible, is a step of its method.
LEMMA GotoFits ==
    ASSUME NEW f \in Frame, Fit(f), FrameOK(f, registered), NEW step,
           Follows(f, step)
    PROVE  step \in Steps /\ Fit([f EXCEPT !.at = step])
<1> DEFINE g == [f EXCEPT !.at = step]
<1>1. g.op = f.op /\ g.app = f.app /\ g.todo = f.todo /\ g.at = step BY DEF Frame
<1> HIDE DEF g
<1>2. step \in Steps
  BY DEF Follows, Steps, LockedSteps, LauncherSteps, AfterLaunch, AfterStop, AfterHideRefused
<1>3. f.at = "peers" => f.op = "show" BY DEF FrameOK
<1>4. Fit(g)
  <2>1. CASE f.at = "peers" /\ f.todo = {} /\ step = "enter" BY <1>1, <1>3, <2>1 DEF Fit
  <2>2. CASE f.at = "present" /\ step \in {"mark", "launch"} BY <1>1, <2>2 DEF Fit
  <2>3. CASE f.at = "launch" /\ step = AfterLaunch(f) BY <1>1, <2>3 DEF Fit, AfterLaunch
  <2>4. CASE f.at = "stop" /\ step = AfterStop(f) BY <1>1, <2>4 DEF Fit, AfterStop
  <2>5. CASE f.at = "stop" /\ f.op = "stopAll" /\ step = "discard" BY <1>1, <2>5 DEF Fit
  <2>6. CASE f.at = "hide" /\ step \in {"unmark", AfterHideRefused(f)}
    BY <1>1, <2>6 DEF Fit, AfterHideRefused
  <2>7. CASE f.at = "closeBrowser" /\ step = "unmark" BY <1>1, <2>7 DEF Fit
  <2>8. CASE f.at = "prepare" /\ step = "unmark" BY <1>1, <2>8 DEF Fit
  <2>9. CASE f.at = "mark" /\ step = "return" BY <1>1, <2>9 DEF Fit
  <2>10. CASE f.at = "unmark" /\ step = IF f.op = "restart" THEN "show" ELSE "return"
    BY <1>1, <2>10 DEF Fit
  <2>11. CASE f.at \in LauncherSteps /\ f.app \in Faulty /\ step = "raise"
    BY <1>1, <2>11 DEF Fit, LauncherSteps
  <2> QED BY <2>1, <2>2, <2>3, <2>4, <2>5, <2>6, <2>7, <2>8, <2>9, <2>10, <2>11 DEF Follows
<1> QED BY <1>2, <1>4 DEF g

Proceeds(t) ==
    \/ PeersClosed(t) \/ Present(t) \/ Launch(t) \/ Stop(t) \/ Hide(t) \/ CloseBrowser(t)
    \/ Prepare(t) \/ Mark(t) \/ Unmark(t)

\* Such a step is one of those of Follows, and nothing but the stack, _visible
\* and the process and window of its application change.
LEMMA ProceedsFollows ==
    ASSUME IInv, CallsInv, NEW t \in Threads, Proceeds(t)
    PROVE  /\ stack[t] # <<>>
           /\ \E step \in Steps : Follows(Top(t), step) /\ Goto(t, step)
<1>1. stack[t] # <<>>
  BY DEF Proceeds, PeersClosed, Present, Launch, Stop, Hide, CloseBrowser, Prepare, Mark, Unmark, At
<1>2. Top(t) \in Frame /\ FrameOK(Top(t), registered) /\ Fit(Top(t)) /\ App(t) = Top(t).app
  BY <1>1, Inside, TopFits
<1>3. \E step : Follows(Top(t), step) /\ Goto(t, step)
  <2> USE DEF Follows, At, LauncherSteps
  <2>1. CASE PeersClosed(t) BY <2>1 DEF PeersClosed
  <2>2. CASE Present(t) BY <1>2, <2>2 DEF Present, Raises
  <2>3. CASE Launch(t) BY <1>2, <2>3 DEF Launch, HalfOpens, Raises
  <2>4. CASE Stop(t) BY <1>2, <2>4 DEF Stop, StopFails, Raises
  <2>5. CASE Hide(t) BY <1>2, <2>5 DEF Hide, Raises
  <2>6. CASE CloseBrowser(t) BY <1>2, <2>6 DEF CloseBrowser, Raises
  <2>7. CASE Prepare(t) BY <1>2, <2>7 DEF Prepare, HalfOpens, Raises
  <2>8. CASE Mark(t) BY <2>8 DEF Mark
  <2>9. CASE Unmark(t) BY <2>9 DEF Unmark
  <2> QED BY <2>1, <2>2, <2>3, <2>4, <2>5, <2>6, <2>7, <2>8, <2>9 DEF Proceeds
<1> QED BY <1>1, <1>2, <1>3, GotoFits

\* What it does to its stack.
LEMMA ProceedsBecomes ==
    ASSUME IInv, CallsInv, NEW t \in Threads, Proceeds(t)
    PROVE  /\ CallsInv'
           /\ \E step \in Steps : /\ Follows(Top(t), step) /\ Goto(t, step)
                                  /\ Becomes(t, [Top(t) EXCEPT !.at = step])
<1>1. stack[t] # <<>> BY ProceedsFollows
<1>2. PICK step \in Steps : Follows(Top(t), step) /\ Goto(t, step) BY ProceedsFollows
<1>3. Top(t) \in Frame /\ FrameOK(Top(t), registered) /\ Fit(Top(t)) BY <1>1, Inside, TopFits
<1>4. Fit([Top(t) EXCEPT !.at = step]) BY <1>2, <1>3, GotoFits
<1> QED BY <1>1, <1>2, <1>4, CallsGoto

Entered(t) == [Top(t) EXCEPT !.at = FirstStep(Top(t)), !.locked = (owner[App(t)] = NoThread)]

\* Taking the lock.
LEMMA EnterBecomes ==
    ASSUME IInv, CallsInv, NEW t \in Threads, Enter(t)
    PROVE  /\ CallsInv' /\ stack[t] # <<>> /\ Becomes(t, Entered(t))
           /\ Entered(t).op = Top(t).op /\ Entered(t).app = App(t) /\ Entered(t).todo = Top(t).todo
           /\ Entered(t).at = FirstStep(Top(t)) /\ Entered(t).locked = (owner[App(t)] = NoThread)
<1> DEFINE f == Entered(t)
<1>1. stack[t] # <<>> /\ Top(t).at = "enter" BY DEF Enter, At
<1>2. Top(t) \in Frame /\ FrameOK(Top(t), registered) /\ Fit(Top(t)) /\ App(t) = Top(t).app
  BY <1>1, Inside, TopFits
<1>3. FirstStep(Top(t)) \in Steps
  BY DEF FirstStep, CloseStep, Steps, LockedSteps, LauncherSteps
<1>4. /\ f.op = Top(t).op /\ f.app = App(t) /\ f.at = FirstStep(Top(t)) /\ f.todo = Top(t).todo
      /\ f.locked = (owner[App(t)] = NoThread) /\ f \in Frame
  BY <1>2, <1>3 DEF Frame, Entered
<1>5. stack' = WithTop(t, f) BY DEF Enter, Entered
<1> HIDE DEF f
<1>6. Fit(f)
  <2>1. f.op # "preload" BY <1>1, <1>2, <1>4 DEF FrameOK
  <2>2. f.app \in Apps /\ Startup[f.app] \in Policies BY <1>2, <1>4, PolicyAssumption DEF Frame
  <2>3. f.op \in AppOps \cup PassOps BY <1>4 DEF Frame
  <2>4. f.at \in {"present", "mark"} => f.op = "show" BY <1>4 DEF FirstStep, CloseStep
  <2>5. f.at = "launch" => f.op = "prewarm" /\ f.app \notin Preloadable
    BY <1>2, <1>4 DEF FirstStep, CloseStep
  <2>6. f.at = "prepare" => f.op = "prewarm" BY <1>4 DEF FirstStep, CloseStep
  <2>7. f.at = "hide" => f.op \in {"hide", "close", "prewarm"} BY <1>4 DEF FirstStep, CloseStep
  <2>8. f.at = "closeBrowser" => f.op = "close" BY <1>4 DEF FirstStep, CloseStep
  <2>9. f.at = "stop" => /\ f.op \in {"stop", "restart", "close", "prewarm", "stopAll"}
                         /\ f.op = "close" => Startup[f.app] # "persistent"
    BY <1>2, <1>4, <2>1, <2>3 DEF FirstStep, CloseStep, AppOps, PassOps
  <2>10. f.at # "raise" BY <1>4 DEF FirstStep, CloseStep
  <2>11. (f.op = "restart" => f.app \in Restartable)
         /\ (f.op = "show" => f.todo = {})
    BY <1>1, <1>2, <1>4 DEF Fit
  <2>12. f.at \in {"hide", "closeBrowser"} /\ f.op = "close" => Startup[f.app] # "lazy"
    BY <1>2, <1>4 DEF FirstStep, CloseStep
  <2> QED BY <2>4, <2>5, <2>6, <2>7, <2>8, <2>9, <2>10, <2>11, <2>12 DEF Fit
<1>7. Becomes(t, f) BY <1>1, <1>4, <1>5, WithTopBecomes
<1>8. CallsInv' BY <1>1, <1>4, <1>6, <1>7, CallsBecomes
<1> QED BY <1>1, <1>4, <1>7, <1>8 DEF f

\* The frame of a new call.
LEMMA CallFits ==
    ASSUME NEW op \in AppOps, NEW a \in registered, registered \subseteq Apps,
           op = "restart" => a \in Restartable
    PROVE  /\ Call(op, a) \in Frame /\ Fit(Call(op, a))
           /\ Call(op, a).op = op /\ Call(op, a).app = a /\ ~Call(op, a).locked
           /\ Call(op, a).at = IF op = "show" THEN "peers" ELSE "enter"
           /\ Call(op, a).todo = IF op = "show" THEN Peers(a) ELSE {}
<1>1. Peers(a) \subseteq registered BY DEF Peers
<1>2. Call(op, a) \in Frame BY <1>1 DEF Call, Frame, AppOps, Steps
<1>3. \A p \in Peers(a) : Peer(p, a) BY DEF Peers, Peer
<1> QED BY <1>2, <1>3 DEF Call, Fit, AppOps

\* One turn of the loop over the peers.
LEMMA ClosePeerCalls ==
    ASSUME IInv, CallsInv, NEW t \in Threads, ClosePeer(t)
    PROVE  /\ CallsInv' /\ stack[t] # <<>> /\ Top(t).op = "show" /\ Top(t).at = "peers"
           /\ \E p \in Top(t).todo, f \in Frame :
                 /\ f.op = "show" /\ f.app = App(t) /\ f.at = "peers" /\ f.todo = Top(t).todo \ {p}
                 /\ f.locked = Top(t).locked /\ Peer(p, App(t)) /\ p \in registered
                 /\ \/ p \in running /\ MakesCall(t, f, Call("close", p))
                    \/ p \notin running /\ Becomes(t, f)
<1>1. stack[t] # <<>> /\ Top(t).at = "peers" BY DEF ClosePeer, At
<1>2. Top(t) \in Frame /\ FrameOK(Top(t), registered) /\ Fit(Top(t)) /\ App(t) = Top(t).app
  BY <1>1, Inside, TopFits
<1>3. Top(t).op = "show" BY <1>1, <1>2 DEF FrameOK
<1>4. PICK p \in Top(t).todo :
        LET rest == [Top(t) EXCEPT !.todo = @ \ {p}]
        IN stack' = IF p \in running THEN Push(t, rest, Call("close", p)) ELSE WithTop(t, rest)
  BY DEF ClosePeer
<1> DEFINE f == [Top(t) EXCEPT !.todo = @ \ {p}]
<1>5. /\ f \in Frame /\ f.op = "show" /\ f.app = App(t) /\ f.at = "peers"
      /\ f.todo = Top(t).todo \ {p} /\ f.locked = Top(t).locked
  BY <1>1, <1>2, <1>3 DEF Frame
<1>6. stack' = IF p \in running THEN Push(t, f, Call("close", p)) ELSE WithTop(t, f) BY <1>4
<1> HIDE DEF f
<1>7. Peer(p, App(t)) /\ p \in registered /\ Fit(f)
  BY <1>2, <1>3, <1>5 DEF Fit, FrameOK
<1>8. registered \subseteq Apps BY DEF IInv, DataInv
<1>9. CASE p \in running
  <2>1. /\ Call("close", p) \in Frame /\ Fit(Call("close", p)) /\ Call("close", p).op = "close"
        /\ Call("close", p).app = p
    BY <1>7, <1>8, CallFits DEF AppOps
  <2>2. MakesCall(t, f, Call("close", p)) BY <1>1, <1>5, <1>6, <1>9, <2>1, PushMakesCall
  <2>3. Calls(f, Call("close", p)) BY <1>5, <1>7, <2>1 DEF Calls
  <2>4. CallsInv' BY <1>1, <1>3, <1>5, <1>7, <2>1, <2>2, <2>3, CallsCall
  <2> QED BY <1>1, <1>3, <1>5, <1>7, <1>9, <2>2, <2>4
<1>10. CASE p \notin running
  <2>1. Becomes(t, f) BY <1>1, <1>5, <1>6, <1>10, WithTopBecomes
  <2>2. CallsInv' BY <1>1, <1>3, <1>5, <1>7, <2>1, CallsBecomes
  <2> QED BY <1>1, <1>3, <1>5, <1>7, <1>10, <2>1, <2>2
<1> QED BY <1>9, <1>10

\* One turn of the loops of stop_all and of the preload worker.
LEMMA NextAppCalls ==
    ASSUME IInv, CallsInv, NEW t \in Threads, NextApp(t)
    PROVE  /\ CallsInv' /\ stack[t] # <<>> /\ Top(t).op \in PassOps /\ Len(stack[t]) = 1
           /\ Top(t).at = "next"
           /\ \E a \in Top(t).todo, f \in Frame :
                 /\ f.op = Top(t).op /\ f.app = a /\ f.todo = Top(t).todo \ {a}
                 /\ f.locked = Top(t).locked /\ a \in registered
                 /\ \/ f.op = "stopAll" /\ f.at = "enter" /\ Becomes(t, f)
                    \/ f.op = "preload" /\ f.at = "next" /\ Startup[a] = "lazy" /\ Becomes(t, f)
                    \/ /\ f.op = "preload" /\ f.at = "next" /\ Startup[a] = "preload"
                       /\ MakesCall(t, f, Call("prewarm", a))
                    \/ /\ f.op = "preload" /\ f.at = "next" /\ Startup[a] = "persistent"
                       /\ MakesCall(t, f, Call("show", a))
<1>1. stack[t] # <<>> /\ Top(t).at = "next" BY DEF NextApp, At
<1>2. Top(t) \in Frame /\ FrameOK(Top(t), registered) /\ Fit(Top(t)) /\ App(t) = Top(t).app
  BY <1>1, Inside, TopFits
<1>3. Top(t).op \in PassOps BY <1>1, <1>2 DEF FrameOK
<1>4. Len(stack[t]) = 1 BY <1>1, <1>3, PassAtBottom
<1>5. PICK a \in Top(t).todo :
        LET rest == [Top(t) EXCEPT !.todo = @ \ {a}, !.app = a]
        IN stack' = IF Top(t).op = "stopAll" THEN WithTop(t, [rest EXCEPT !.at = "enter"])
                    ELSE IF Startup[a] = "lazy" THEN WithTop(t, rest)
                    ELSE Push(t, rest, Call(IF Startup[a] = "preload" THEN "prewarm" ELSE "show", a))
  BY DEF NextApp
<1> DEFINE f == [Top(t) EXCEPT !.todo = @ \ {a}, !.app = a]
           g == [f EXCEPT !.at = "enter"]
<1>6. a \in registered /\ a \in Apps /\ registered \subseteq Apps
  BY <1>2 DEF FrameOK, IInv, DataInv
<1>7. /\ f \in Frame /\ f.op = Top(t).op /\ f.app = a /\ f.at = "next"
      /\ f.todo = Top(t).todo \ {a} /\ f.locked = Top(t).locked
  BY <1>1, <1>2, <1>6 DEF Frame
<1>8. /\ g \in Frame /\ g.op = Top(t).op /\ g.app = a /\ g.at = "enter"
      /\ g.todo = Top(t).todo \ {a} /\ g.locked = Top(t).locked
  BY <1>1, <1>2, <1>6 DEF Frame, Steps
<1>9. /\ Top(t).op = "stopAll" => stack' = WithTop(t, g)
      /\ (Top(t).op = "preload" /\ Startup[a] = "lazy") => stack' = WithTop(t, f)
      /\ (Top(t).op = "preload" /\ Startup[a] = "preload") => stack' = Push(t, f, Call("prewarm", a))
      /\ (Top(t).op = "preload" /\ Startup[a] = "persistent") => stack' = Push(t, f, Call("show", a))
  BY <1>5
<1> HIDE DEF f, g
<1>10. Fit(f) /\ Fit(g) BY <1>3, <1>7, <1>8 DEF Fit, PassOps
<1>11. CASE Top(t).op = "stopAll"
  <2>1. Becomes(t, g) BY <1>1, <1>8, <1>9, <1>11, WithTopBecomes
  <2>2. CallsInv' BY <1>1, <1>3, <1>8, <1>10, <2>1, CallsBecomes
  <2> QED BY <1>1, <1>3, <1>4, <1>6, <1>8, <1>11, <2>1, <2>2
<1>12. CASE Top(t).op = "preload" /\ Startup[a] = "lazy"
  <2>1. Becomes(t, f) BY <1>1, <1>7, <1>9, <1>12, WithTopBecomes
  <2>2. CallsInv' BY <1>1, <1>3, <1>7, <1>10, <2>1, CallsBecomes
  <2> QED BY <1>1, <1>3, <1>4, <1>6, <1>7, <1>12, <2>1, <2>2
<1>13. CASE Top(t).op = "preload" /\ Startup[a] = "preload"
  <2>1. /\ Call("prewarm", a) \in Frame /\ Fit(Call("prewarm", a)) /\ Call("prewarm", a).op = "prewarm"
        /\ Call("prewarm", a).app = a
    BY <1>6, CallFits DEF AppOps
  <2>2. MakesCall(t, f, Call("prewarm", a)) BY <1>1, <1>7, <1>9, <1>13, <2>1, PushMakesCall
  <2>3. Calls(f, Call("prewarm", a)) BY <1>7, <1>13, <2>1 DEF Calls
  <2>4. CallsInv' BY <1>1, <1>3, <1>7, <1>10, <2>1, <2>2, <2>3, CallsCall
  <2> QED BY <1>1, <1>3, <1>4, <1>6, <1>7, <1>13, <2>2, <2>4
<1>14. CASE Top(t).op = "preload" /\ Startup[a] = "persistent"
  <2>1. /\ Call("show", a) \in Frame /\ Fit(Call("show", a)) /\ Call("show", a).op = "show"
        /\ Call("show", a).app = a
    BY <1>6, CallFits DEF AppOps
  <2>2. MakesCall(t, f, Call("show", a)) BY <1>1, <1>7, <1>9, <1>14, <2>1, PushMakesCall
  <2>3. Calls(f, Call("show", a)) BY <1>7, <1>14, <2>1 DEF Calls
  <2>4. CallsInv' BY <1>1, <1>3, <1>7, <1>10, <2>1, <2>2, <2>3, CallsCall
  <2> QED BY <1>1, <1>3, <1>4, <1>6, <1>7, <1>14, <2>2, <2>4
<1> QED BY <1>3, <1>6, <1>11, <1>12, <1>13, <1>14, PolicyAssumption DEF PassOps, Policies

\* The end of one turn of stop_all.
LEMMA DiscardBecomes ==
    ASSUME IInv, CallsInv, NEW t \in Threads, Discard(t)
    PROVE  /\ CallsInv' /\ stack[t] # <<>> /\ Top(t).op = "stopAll" /\ Top(t).at = "discard"
           /\ \E f \in Frame : /\ Becomes(t, f) /\ f.op = "stopAll" /\ f.app = App(t)
                               /\ f.at = "next" /\ ~f.locked /\ f.todo = Top(t).todo
<1>1. stack[t] # <<>> /\ Top(t).at = "discard" BY DEF Discard, At
<1>2. Top(t) \in Frame /\ FrameOK(Top(t), registered) /\ Fit(Top(t)) /\ App(t) = Top(t).app
  BY <1>1, Inside, TopFits
<1>3. Top(t).op = "stopAll" BY <1>1, <1>2 DEF FrameOK, PassOps
<1> DEFINE f == [Top(t) EXCEPT !.at = "next", !.locked = FALSE]
<1>4. /\ f \in Frame /\ f.op = "stopAll" /\ f.app = App(t) /\ f.at = "next" /\ ~f.locked
      /\ f.todo = Top(t).todo
  BY <1>2, <1>3 DEF Frame, Steps
<1>5. stack' = WithTop(t, f) BY DEF Discard
<1> HIDE DEF f
<1>6. Becomes(t, f) BY <1>1, <1>4, <1>5, WithTopBecomes
<1>7. Fit(f) BY <1>4 DEF Fit
<1>8. CallsInv' BY <1>1, <1>3, <1>4, <1>6, <1>7, CallsBecomes
<1> QED BY <1>1, <1>3, <1>4, <1>6, <1>8

\* The nested call of restart.
LEMMA RestartCalls ==
    ASSUME IInv, CallsInv, NEW t \in Threads, RestartShows(t)
    PROVE  /\ CallsInv' /\ stack[t] # <<>> /\ Top(t).op = "restart" /\ Top(t).at = "show"
           /\ \E f \in Frame : /\ MakesCall(t, f, Call("show", App(t))) /\ f.op = "restart"
                               /\ f.app = App(t) /\ f.at = "return" /\ f.locked = Top(t).locked
                               /\ f.todo = Top(t).todo
<1>1. stack[t] # <<>> /\ Top(t).at = "show" BY DEF RestartShows, At
<1>2. /\ Top(t) \in Frame /\ FrameOK(Top(t), registered) /\ Fit(Top(t)) /\ App(t) = Top(t).app
      /\ registered \subseteq Apps
  BY <1>1, Inside, TopFits DEF IInv, DataInv
<1>3. Top(t).op = "restart" /\ App(t) \in registered BY <1>1, <1>2 DEF FrameOK
<1> DEFINE f == [Top(t) EXCEPT !.at = "return"]
           c == Call("show", App(t))
<1>4. /\ f \in Frame /\ f.op = "restart" /\ f.app = App(t) /\ f.at = "return"
      /\ f.locked = Top(t).locked /\ f.todo = Top(t).todo
  BY <1>2, <1>3 DEF Frame, Steps, LockedSteps
<1>5. c \in Frame /\ Fit(c) /\ c.op = "show" /\ c.app = App(t) BY <1>2, <1>3, CallFits DEF AppOps
<1>6. stack' = Push(t, f, c) BY DEF RestartShows
<1> HIDE DEF f, c
<1>7. Fit(f) BY <1>2, <1>3, <1>4 DEF Fit
<1>8. Calls(f, c) BY <1>4, <1>5 DEF Calls
<1>9. MakesCall(t, f, c) BY <1>1, <1>4, <1>5, <1>6, PushMakesCall
<1>10. CallsInv' BY <1>1, <1>3, <1>4, <1>5, <1>7, <1>8, <1>9, CallsCall
<1> QED BY <1>1, <1>3, <1>4, <1>9, <1>10 DEF c

\* A thread begins a call, or is not concerned.
LEMMA RequestsCalls == IInv /\ CallsInv /\ Requests => CallsInv'
<1> SUFFICES ASSUME IInv, CallsInv, Requests PROVE CallsInv' OBVIOUS
<1>1. stack \in [Threads -> Seq(Frame)] /\ registered \subseteq Apps
  BY DEF IInv, StackInv, DataInv
<1>2. ASSUME NEW t \in Threads, NEW c \in Frame, stack' = [stack EXCEPT ![t] = <<c>>],
             Fit(c), c.op # "prewarm", c.op = "preload" <=> t = Preloader
      PROVE  CallsInv'
  <2>1. Len(<<c>>) = 1 /\ <<c>>[1] = c BY <1>2
  <2>2. Nested(<<c>>) /\ Begun(<<c>>, t) BY <1>2, <2>1 DEF Nested, Begun
  <2>3. stack'[t] = <<c>> /\ \A u \in Threads : u # t => stack'[u] = stack[u] BY <1>1, <1>2
  <2> QED BY <2>2, <2>3 DEF CallsInv
<1>3. ASSUME NEW op \in PassOps PROVE Pass(op) \in Frame /\ Fit(Pass(op)) /\ Pass(op).op = op
  BY <1>1, PassOK DEF FrameOK, Pass, Fit, PassOps
<1>4. ASSUME NEW a \in Apps, Register(a) PROVE CallsInv' BY <1>4 DEF Register, CallsInv
<1>5. ASSUME NEW t \in Callers, NEW a \in Apps, NEW op \in AppOps \ {"prewarm"}, Request(t, op, a)
      PROVE CallsInv'
  <2>1. a \in registered /\ (op = "restart" => a \in Restartable) BY <1>5 DEF Request
  <2>2. Call(op, a) \in Frame /\ Fit(Call(op, a)) /\ Call(op, a).op = op BY <1>1, <2>1, CallFits
  <2>3. stack' = [stack EXCEPT ![t] = <<Call(op, a)>>] BY <1>5 DEF Request
  <2>4. t \in Threads /\ t # Preloader /\ op # "preload" BY ThreadsAssumption DEF Threads, AppOps
  <2> QED BY <1>2, <2>2, <2>3, <2>4
<1>6. ASSUME NEW t \in Callers, StopAll(t) PROVE CallsInv'
  <2>1. stack' = [stack EXCEPT ![t] = <<Pass("stopAll")>>] BY <1>6 DEF StopAll
  <2>2. t \in Threads /\ t # Preloader BY ThreadsAssumption DEF Threads
  <2> QED BY <1>2, <1>3, <2>1, <2>2 DEF PassOps
<1>7. ASSUME StartBackgroundApps PROVE CallsInv'
  <2>1. stack' = [stack EXCEPT ![Preloader] = <<Pass("preload")>>] BY <1>7 DEF StartBackgroundApps
  <2> QED BY <1>2, <1>3, <2>1 DEF PassOps, Threads
<1> QED BY <1>4, <1>5, <1>6, <1>7 DEF Requests

\* The three ways to leave a method.
LEMMA LeaveCalls ==
    ASSUME IInv, CallsInv, NEW t \in Threads, Return(t) \/ PassDone(t) \/ Unwind(t)
    PROVE  CallsInv' /\ stack[t] # <<>> /\ Leaves(t)
<1>1. stack[t] # <<>> BY DEF Return, PassDone, Unwind, At
<1> QED BY <1>1, PopLeaves, CallsLeave

\* The nesting of the methods is kept by every step.
LEMMA NextCalls == IInv /\ CallsInv /\ [Next]_vars => CallsInv'
<1> SUFFICES ASSUME IInv, CallsInv, [Next]_vars PROVE CallsInv' OBVIOUS
<1>1. CASE Requests BY <1>1, RequestsCalls
<1>2. ASSUME NEW t \in Threads, Step(t) PROVE CallsInv'
  BY <1>2, ProceedsBecomes, EnterBecomes, ClosePeerCalls, NextAppCalls, DiscardBecomes, RestartCalls,
     LeaveCalls DEF Step, Proceeds
<1>3. CASE stack' = stack BY <1>3 DEF CallsInv
<1>4. (\E a \in Apps : AppExits(a) \/ WindowCloses(a)) \/ UNCHANGED vars => stack' = stack BY DEF AppExits, WindowCloses, Quits, vars
<1> QED BY <1>1, <1>2, <1>3, <1>4 DEF Next

\* The nesting of the methods, for every configuration.
THEOREM CallsNested == Spec => []CallsInv
<1>1. Init => CallsInv
  <2> SUFFICES ASSUME Init, NEW t \in Threads PROVE Nested(stack[t]) /\ Begun(stack[t], t)
    BY DEF CallsInv
  <2>1. stack[t] = <<>> BY DEF Init
  <2>2. Len(stack[t]) = 0 BY <2>1
  <2> QED BY <2>1, <2>2 DEF Nested, Begun
<1>2. IInv /\ CallsInv /\ [Next]_vars => CallsInv' BY NextCalls
<1> QED BY <1>1, <1>2, Inductive, PTL DEF Spec

-----------------------------------------------------------------------------
(* A persistent application outlives every close.                          *)

\* Only stop and restart, of the user, and the end of the runtime take a
\* persistent application's process away: no close, whoever asked for it.
THEOREM PersistentProcessKept == Spec => PersistentKept
<1> DEFINE Kept == \A a \in running \ running' : Startup[a] = "persistent" =>
                      \/ UNCHANGED stack
                      \/ \E t \in Threads : At(t, "stop") /\ App(t) = a /\ Top(t).op # "close"
<1>1. IInv /\ CallsInv /\ [Next]_vars => [Kept]_vars
  <2> SUFFICES ASSUME IInv, CallsInv, Next, NEW a \in running \ running', Startup[a] = "persistent"
               PROVE  \/ UNCHANGED stack
                      \/ \E t \in Threads : At(t, "stop") /\ App(t) = a /\ Top(t).op # "close"
    OBVIOUS
  <2>1. CASE \E b \in Apps : AppExits(b) \/ WindowCloses(b) BY <2>1 DEF AppExits, WindowCloses, Quits
  <2>2. CASE Requests
    BY <2>2 DEF Requests, Register, Request, StopAll, StartBackgroundApps, launcherVars
  <2>3. ASSUME NEW t \in Threads, Step(t)
        PROVE  At(t, "stop") /\ App(t) = a /\ Top(t).op # "close"
    <3>1. At(t, "stop") /\ App(t) = a
      BY <2>3 DEF Step, ClosePeer, PeersClosed, Enter, Present, Launch, Stop, Hide, CloseBrowser,
                  Prepare, Mark, Unmark, RestartShows, Return, Unwind, NextApp, Discard, PassDone,
                  launcherVars, Opens, Quits, Covers, Misses, HalfOpens
    <3>2. stack[t] # <<>> /\ Top(t).at = "stop" /\ App(t) = Top(t).app BY <3>1 DEF At, App
    <3> QED BY <3>1, <3>2, TopFits DEF Fit
  <2> QED BY <2>1, <2>2, <2>3 DEF Next
<1>2. [][Kept]_vars => PersistentKept BY PTL DEF PersistentKept
<1> QED BY <1>1, <1>2, Inductive, CallsNested, PTL DEF Spec

-----------------------------------------------------------------------------
(* Who holds a lifecycle lock, and why no set of threads is deadlocked.    *)

HeldBy(s, a) == \E i \in 1..Len(s) : s[i].app = a /\ s[i].locked /\ s[i].at \in HeldSteps

\* A lock is held by a frame that will release it.
OwnerInv == \A t \in Threads : \A a \in Apps : owner[a] = t => HeldBy(stack[t], a)

\* The innermost frame becomes f, which holds what the frame before it held.
LEMMA OwnersBecome ==
    ASSUME IInv, OwnerInv, NEW t \in Threads, stack[t] # <<>>, NEW f, Becomes(t, f),
           \A a \in Apps : \A u \in Threads : (u # t /\ owner'[a] = u) => owner[a] = u,
           \A a \in Apps : owner'[a] = t =>
               \/ f.app = a /\ f.locked /\ f.at \in HeldSteps
               \/ owner[a] = t /\ ~(App(t) = a /\ Top(t).locked /\ Top(t).at \in HeldSteps)
    PROVE  OwnerInv'
<1> SUFFICES ASSUME NEW u \in Threads, NEW a \in Apps, owner'[a] = u PROVE HeldBy(stack'[u], a)
  BY DEF OwnerInv
<1>1. CASE u # t BY <1>1 DEF OwnerInv, Becomes, Others
<1>2. CASE u = t
  <2>1. /\ Len(stack[t]) \in Nat /\ Len(stack[t]) \in 1..Len(stack[t])
        /\ Top(t) = stack[t][Len(stack[t])] /\ App(t) = Top(t).app
    BY Inside
  <2>2. /\ Len(stack'[t]) = Len(stack[t])
        /\ \A i \in 1..Len(stack[t]) : stack'[t][i] = IF i = Len(stack[t]) THEN f ELSE stack[t][i]
    BY DEF Becomes
  <2>3. CASE f.app = a /\ f.locked /\ f.at \in HeldSteps
    <3>1. stack'[t][Len(stack'[t])] = f /\ Len(stack'[t]) \in 1..Len(stack'[t]) BY <2>1, <2>2
    <3> QED BY <1>2, <2>3, <3>1 DEF HeldBy
  <2>4. CASE owner[a] = t /\ ~(App(t) = a /\ Top(t).locked /\ Top(t).at \in HeldSteps)
    <3>1. PICK i \in 1..Len(stack[t]) :
            stack[t][i].app = a /\ stack[t][i].locked /\ stack[t][i].at \in HeldSteps
      BY <2>4 DEF OwnerInv, HeldBy
    <3>2. i # Len(stack[t]) BY <2>1, <2>4, <3>1
    <3>3. stack'[t][i] = stack[t][i] /\ i \in 1..Len(stack'[t]) BY <2>2, <3>2
    <3> QED BY <1>2, <3>1, <3>3 DEF HeldBy
  <2> QED BY <1>2, <2>3, <2>4
<1> QED BY <1>1, <1>2

\* It calls another method, from f.
LEMMA OwnersCall ==
    ASSUME IInv, OwnerInv, NEW t \in Threads, stack[t] # <<>>, NEW f, NEW c, MakesCall(t, f, c),
           owner' = owner,
           (Top(t).at \in HeldSteps /\ Top(t).locked)
               => f.app = App(t) /\ f.locked /\ f.at \in HeldSteps
    PROVE  OwnerInv'
<1> SUFFICES ASSUME NEW u \in Threads, NEW a \in Apps, owner[a] = u PROVE HeldBy(stack'[u], a)
  BY DEF OwnerInv
<1>1. CASE u # t BY <1>1 DEF OwnerInv, MakesCall, Others
<1>2. CASE u = t
  <2>1. /\ Len(stack[t]) \in Nat /\ Len(stack[t]) \in 1..Len(stack[t])
        /\ Top(t) = stack[t][Len(stack[t])] /\ App(t) = Top(t).app
    BY Inside
  <2>2. /\ Len(stack'[t]) = Len(stack[t]) + 1
        /\ \A i \in 1..Len(stack[t]) : stack'[t][i] = IF i = Len(stack[t]) THEN f ELSE stack[t][i]
    BY DEF MakesCall
  <2>3. PICK i \in 1..Len(stack[t]) :
          stack[t][i].app = a /\ stack[t][i].locked /\ stack[t][i].at \in HeldSteps
    BY <1>2 DEF OwnerInv, HeldBy
  <2>4. i \in 1..Len(stack'[t]) BY <2>1, <2>2
  <2>5. stack'[t][i].app = a /\ stack'[t][i].locked /\ stack'[t][i].at \in HeldSteps
    BY <2>1, <2>2, <2>3
  <2> QED BY <1>2, <2>4, <2>5 DEF HeldBy
<1> QED BY <1>1, <1>2

\* A method is left, and with it its lock.
LEMMA OwnersLeave ==
    ASSUME IInv, CallsInv, OwnerInv, NEW t \in Threads, Return(t) \/ PassDone(t) \/ Unwind(t)
    PROVE  OwnerInv'
<1> DEFINE s == stack[t]
           r == stack'[t]
<1>1. s # <<>> /\ Leaves(t) BY LeaveCalls
<1>2. /\ Len(s) \in Nat /\ Len(s) \in 1..Len(s) /\ s \in Seq(Frame) /\ Top(t) = s[Len(s)]
      /\ App(t) = Top(t).app /\ App(t) \in Apps /\ StackOK(s, registered)
      /\ owner \in [Apps -> Threads \cup {NoThread}]
  BY <1>1, Inside, TopFacts DEF IInv, DataInv
<1>3. ASSUME NEW a \in Apps, NEW u \in Threads, owner'[a] = u
      PROVE  owner[a] = u /\ ~(u = t /\ App(t) = a /\ Top(t).locked /\ Top(t).at \in HeldSteps)
  <2>1. CASE PassDone(t)
    BY <1>3, <2>1 DEF PassDone, At, HeldSteps, LockedSteps, LauncherSteps
  <2>2. CASE Release(t)
    <3>1. Top(t).locked => owner' = [owner EXCEPT ![App(t)] = NoThread] BY <2>2 DEF Release
    <3>2. ~Top(t).locked => owner' = owner BY <2>2 DEF Release
    <3> QED BY <1>2, <1>3, <3>1, <3>2, ThreadsAssumption
  <2> QED BY <2>1, <2>2 DEF Return, Unwind
<1>4. SUFFICES ASSUME NEW u \in Threads, NEW a \in Apps, owner'[a] = u PROVE HeldBy(stack'[u], a)
  BY DEF OwnerInv
<1>5. CASE u # t BY <1>1, <1>3, <1>4, <1>5 DEF OwnerInv, Leaves, Others
<1>6. CASE u = t
  <2>1. PICK i \in 1..Len(s) : s[i].app = a /\ s[i].locked /\ s[i].at \in HeldSteps
    BY <1>3, <1>4, <1>6 DEF OwnerInv, HeldBy
  <2>2. i # Len(s) BY <1>2, <1>3, <1>4, <1>6, <2>1
  <2>3. i \in 1..(Len(s) - 1) /\ Len(r) = Len(s) - 1 /\ i \in 1..Len(r)
    BY <1>1, <1>2, <2>2 DEF Leaves
  <2>4. s[i] \in Frame BY <1>2
  <2>5. r[i].app = a /\ r[i].locked /\ r[i].at \in HeldSteps
    <3>1. CASE r[i] = s[i] BY <2>1, <3>1
    <3>2. CASE r[i] = [s[i] EXCEPT !.at = "raise"]
      <4>1. r[i].app = s[i].app /\ r[i].locked = s[i].locked /\ r[i].at = "raise"
        BY <2>4, <3>2 DEF Frame
      <4> QED BY <2>1, <4>1 DEF HeldSteps
    <3> QED BY <1>1, <2>3, <3>1, <3>2 DEF Leaves
  <2> QED BY <1>6, <2>3, <2>5 DEF HeldBy
<1> QED BY <1>5, <1>6

\* A step inside a method keeps its lock, or is the stop of stop_all, which releases it.
LEMMA OwnersProceed ==
    ASSUME IInv, CallsInv, OwnerInv, NEW t \in Threads, Proceeds(t)
    PROVE  OwnerInv'
<1>1. stack[t] # <<>> BY ProceedsFollows
<1>2. PICK step \in Steps : /\ Follows(Top(t), step) /\ Goto(t, step)
                            /\ Becomes(t, [Top(t) EXCEPT !.at = step])
  BY ProceedsBecomes
<1> DEFINE f == [Top(t) EXCEPT !.at = step]
<1>3. /\ Top(t) \in Frame /\ FrameOK(Top(t), registered) /\ App(t) = Top(t).app /\ App(t) \in Apps
      /\ owner \in [Apps -> Threads \cup {NoThread}] /\ Fit(Top(t))
  BY <1>1, Inside, TopFits DEF IInv, DataInv
<1>4. f.app = App(t) /\ f.locked = Top(t).locked /\ f.at = step BY <1>3 DEF Frame
<1> HIDE DEF f
<1>5. Becomes(t, f) BY <1>2 DEF f
<1>6. CASE Top(t).op = "stopAll" /\ Top(t).at = "stop"
  <2>1. Release(t)
    BY <1>6 DEF Proceeds, PeersClosed, Present, Launch, Stop, Hide, CloseBrowser, Prepare, Mark,
                Unmark, At
  <2>2. /\ Top(t).locked => owner' = [owner EXCEPT ![App(t)] = NoThread]
        /\ ~Top(t).locked => owner' = owner
    BY <2>1 DEF Release
  <2>3. ASSUME NEW a \in Apps, NEW u \in Threads, owner'[a] = u
        PROVE  owner[a] = u /\ ~(App(t) = a /\ Top(t).locked)
    BY <1>3, <2>2, <2>3, ThreadsAssumption
  <2> QED BY <1>1, <1>5, <2>3, OwnersBecome
<1>7. CASE ~(Top(t).op = "stopAll" /\ Top(t).at = "stop")
  <2>1. owner' = owner
    BY <1>7 DEF Proceeds, PeersClosed, Present, Launch, Stop, Hide, CloseBrowser, Prepare, Mark,
                Unmark, At
  <2>2. Top(t).at \in HeldSteps => step \in HeldSteps
    <3>1. "peers" \notin HeldSteps BY DEF HeldSteps, LockedSteps, LauncherSteps
    <3>2. Top(t).at = "stop" /\ Top(t).op # "stopAll" => AfterStop(Top(t)) \in {"return", "unmark"}
      BY DEF AfterStop
    <3>3. AfterLaunch(Top(t)) \in HeldSteps /\ AfterHideRefused(Top(t)) \in HeldSteps
      BY DEF AfterLaunch, AfterHideRefused, HeldSteps, LockedSteps, LauncherSteps
    <3>4. {"mark", "launch", "return", "unmark", "show", "raise"} \subseteq HeldSteps
      BY DEF HeldSteps, LockedSteps, LauncherSteps
    <3> QED BY <1>2, <1>7, <3>1, <3>2, <3>3, <3>4 DEF Follows
  <2> QED BY <1>1, <1>4, <1>5, <2>1, <2>2, OwnersBecome
<1> QED BY <1>6, <1>7

\* Every other step of a thread.
LEMMA OwnersStep ==
    ASSUME IInv, CallsInv, OwnerInv, NEW t \in Threads, Step(t)
    PROVE  OwnerInv'
<1>1. {"peers", "enter", "next", "discard"} \cap HeldSteps = {}
  BY DEF HeldSteps, LockedSteps, LauncherSteps
<1>2. owner \in [Apps -> Threads \cup {NoThread}] BY DEF IInv, DataInv
<1>3. CASE Enter(t)
  <2>1. stack[t] # <<>> /\ Becomes(t, Entered(t)) /\ Entered(t).app = App(t)
        /\ Entered(t).at = FirstStep(Top(t)) /\ Entered(t).locked = (owner[App(t)] = NoThread)
    BY <1>3, EnterBecomes
  <2>2. /\ Top(t).at = "enter" /\ owner[App(t)] \in {NoThread, t}
        /\ owner' = [owner EXCEPT ![App(t)] = t]
    BY <1>3 DEF Enter, At
  <2>3. FirstStep(Top(t)) \in HeldSteps
    BY DEF FirstStep, CloseStep, HeldSteps, LockedSteps, LauncherSteps
  <2>4. \A a \in Apps : \A u \in Threads : (u # t /\ owner'[a] = u) => owner[a] = u
    BY <1>2, <2>2
  <2>5. ASSUME NEW a \in Apps, owner'[a] = t
        PROVE \/ Entered(t).app = a /\ Entered(t).locked /\ Entered(t).at \in HeldSteps
              \/ owner[a] = t /\ ~(App(t) = a /\ Top(t).locked /\ Top(t).at \in HeldSteps)
    <3>1. CASE owner[a] = t BY <1>1, <2>2, <3>1
    <3>2. CASE owner[a] # t
      <4>1. App(t) = a /\ owner[a] = NoThread BY <1>2, <2>2, <2>5, <3>2
      <4>2. Entered(t).locked BY <2>1, <4>1, Zenon
      <4> QED BY <2>1, <2>3, <4>1, <4>2
    <3> QED BY <3>1, <3>2
  <2> QED BY <2>1, <2>4, <2>5, OwnersBecome
<1>4. CASE ClosePeer(t)
  <2>1. stack[t] # <<>> /\ Top(t).at = "peers" /\ owner' = owner
    BY <1>4, ClosePeerCalls DEF ClosePeer
  <2>2. PICK p \in Top(t).todo, f \in Frame : MakesCall(t, f, Call("close", p)) \/ Becomes(t, f)
    BY <1>4, ClosePeerCalls
  <2> QED BY <1>1, <2>1, <2>2, OwnersCall, OwnersBecome
<1>5. CASE NextApp(t)
  <2>1. stack[t] # <<>> /\ Top(t).at = "next" /\ owner' = owner
    BY <1>5, NextAppCalls DEF NextApp
  <2>2. PICK a \in Top(t).todo, f \in Frame :
          \/ Becomes(t, f) \/ MakesCall(t, f, Call("prewarm", a)) \/ MakesCall(t, f, Call("show", a))
    BY <1>5, NextAppCalls
  <2> QED BY <1>1, <2>1, <2>2, OwnersCall, OwnersBecome
<1>6. CASE Discard(t)
  <2>1. stack[t] # <<>> /\ Top(t).at = "discard" /\ owner' = owner BY <1>6, DiscardBecomes DEF Discard
  <2>2. PICK f \in Frame : Becomes(t, f) BY <1>6, DiscardBecomes
  <2> QED BY <1>1, <2>1, <2>2, OwnersBecome
<1>7. CASE RestartShows(t)
  <2>1. stack[t] # <<>> /\ owner' = owner BY <1>7, RestartCalls DEF RestartShows
  <2>2. PICK f \in Frame : /\ MakesCall(t, f, Call("show", App(t))) /\ f.app = App(t)
                           /\ f.at = "return" /\ f.locked = Top(t).locked
    BY <1>7, RestartCalls
  <2>3. "return" \in HeldSteps BY DEF HeldSteps, LockedSteps
  <2> QED BY <2>1, <2>2, <2>3, OwnersCall
<1> QED BY <1>3, <1>4, <1>5, <1>6, <1>7, OwnersProceed, OwnersLeave DEF Step, Proceeds

\* Every lock that is taken has a frame that will release it.
THEOREM LocksOwned == Spec => []OwnerInv
<1>1. Init => OwnerInv BY ThreadsAssumption DEF Init, OwnerInv
<1>2. IInv /\ CallsInv /\ OwnerInv /\ [Next]_vars => OwnerInv'
  <2> SUFFICES ASSUME IInv, CallsInv, OwnerInv, [Next]_vars PROVE OwnerInv' OBVIOUS
  <2>1. CASE Requests
    <3>1. ASSUME NEW t \in Threads, NEW a \in Apps, owner[a] = t PROVE stack[t] # <<>>
      <4>1. HeldBy(stack[t], a) BY <3>1 DEF OwnerInv
      <4>2. Len(<<>>) = 0 OBVIOUS
      <4> QED BY <4>1, <4>2 DEF HeldBy
    <3>2. owner' = owner /\ \A t \in Threads : stack'[t] = stack[t] \/ stack[t] = <<>>
      BY <2>1 DEF Requests, Register, Request, StopAll, StartBackgroundApps, IInv, StackInv, Threads
    <3> QED BY <3>1, <3>2 DEF OwnerInv
  <2>2. CASE stack' = stack /\ owner' = owner BY <2>2 DEF OwnerInv
  <2>3. (\E a \in Apps : AppExits(a) \/ WindowCloses(a)) \/ UNCHANGED vars => stack' = stack /\ owner' = owner
    BY DEF AppExits, WindowCloses, Quits, vars
  <2> QED BY <2>1, <2>2, <2>3, OwnersStep DEF Next
<1> QED BY <1>1, <1>2, Inductive, CallsNested, PTL DEF Spec

\* A thread that waits for a lock holds at most the one of its own restart.
LEMMA WaitingHolds ==
    ASSUME IInv, CallsInv, OwnerInv, NEW u \in Threads, At(u, "enter"), NEW a \in Apps, owner[a] = u
    PROVE  a \in Restartable /\ (App(u) = a \/ Peer(App(u), a))
<1> DEFINE s == stack[u]
           n == Len(s)
<1>1. s # <<>> /\ Top(u).at = "enter" BY DEF At
<1>2. /\ n \in Nat /\ n > 0 /\ n \in 1..n /\ Top(u) = s[n] /\ App(u) = Top(u).app /\ Nested(s)
      /\ \A i \in 1..n : FrameOK(s[i], registered)
  BY <1>1, Inside, TopFacts DEF CallsInv, IInv, StackInv, StackOK
<1>3. PICK i \in 1..n : s[i].app = a /\ s[i].locked /\ s[i].at \in HeldSteps
  BY DEF OwnerInv, HeldBy
<1>4. {"enter", "peers", "next"} \cap HeldSteps = {} BY DEF HeldSteps, LockedSteps, LauncherSteps
<1>5. i < n /\ i + 1 \in 1..n BY <1>1, <1>2, <1>3, <1>4
<1>6. Calls(s[i], s[i + 1]) /\ Fit(s[i]) /\ FrameOK(s[i], registered) BY <1>2, <1>5 DEF Nested
<1>7. s[i].op = "restart" /\ s[i + 1].op = "show" /\ s[i + 1].app = a /\ a \in Restartable
  BY <1>3, <1>4, <1>6 DEF Calls, Fit, FrameOK
<1>8. CASE i + 1 = n BY <1>2, <1>7, <1>8
<1>9. CASE i + 1 # n
  <2>1. i + 1 < n /\ i + 2 \in 1..n /\ i + 1 + 1 = i + 2 BY <1>2, <1>5, <1>9
  <2>2. Calls(s[i + 1], s[i + 2]) BY <1>2, <1>5, <2>1 DEF Nested
  <2>3. s[i + 2].op = "close" /\ Peer(s[i + 2].app, a) BY <1>7, <2>2 DEF Calls
  <2>4. i + 2 = n
    <3> SUFFICES ASSUME i + 2 # n PROVE FALSE OBVIOUS
    <3>1. i + 2 < n BY <1>2, <2>1
    <3>2. Calls(s[i + 2], s[i + 2 + 1]) BY <1>2, <2>1, <3>1 DEF Nested
    <3> QED BY <2>3, <3>2 DEF Calls
  <2> QED BY <1>2, <1>7, <2>3, <2>4
<1> QED BY <1>8, <1>9

\* No set of threads, however many there are, waits for locks that only its
\* own members hold, provided no two applications of one exclusive group are
\* ever restarted (the user interface restarts one application).
THEOREM NoDeadlock ==
    ASSUME \A a, b \in Restartable : ~Peer(a, b)
    PROVE  Spec => []NoDeadlockedSet
<1>1. IInv /\ CallsInv /\ OwnerInv => NoDeadlockedSet
  <2> SUFFICES ASSUME IInv, CallsInv, OwnerInv, NEW S \in (SUBSET Threads) \ {{}},
                      \A t \in S : \E u \in S : Waits(t, u)
               PROVE  FALSE
    BY DEF NoDeadlockedSet
  <2>1. PICK t \in S, u \in S, v \in S : Waits(t, u) /\ Waits(u, v) OBVIOUS
  <2>2. PICK w \in S : Waits(v, w) OBVIOUS
  <2>3. /\ At(u, "enter") /\ owner[App(t)] = u /\ owner[App(u)] = v /\ v # u
        /\ At(v, "enter") /\ At(t, "enter")
    BY <2>1, <2>2 DEF Waits
  <2>4. App(t) \in Apps /\ App(u) \in Apps BY <2>3, Inside DEF At
  <2>5. App(t) \in Restartable /\ (App(u) = App(t) \/ Peer(App(u), App(t)))
    BY <2>3, <2>4, WaitingHolds
  <2>6. App(u) \in Restartable BY <2>3, <2>4, WaitingHolds
  <2> QED BY <2>3, <2>5, <2>6
<1> QED BY <1>1, Inductive, CallsNested, LocksOwned, PTL

-----------------------------------------------------------------------------
(* What a step inside a method does to the screen and to _visible.         *)

\* Nothing: a loop is left, the launcher refuses or does nothing.
Quiet(t, step) ==
    /\ Top(t).at \notin {"mark", "unmark", "stop", "closeBrowser"} /\ step # "mark"
    /\ Top(t).at = "hide" => step = AfterHideRefused(Top(t))
    /\ UNCHANGED <<visible, launcherVars>>

Shows(t, step) ==
    /\ \/ Top(t).at = "present" /\ step = "mark" /\ App(t) \in running
       \/ Top(t).at = "launch" /\ step = AfterLaunch(Top(t))
    /\ Opens(App(t)) /\ visible' = visible

\* A start that fails half way.
HalfShows(t, step) ==
    /\ Top(t).at \in {"launch", "prepare"} /\ step = "raise" /\ App(t) \in Faulty
    /\ running' = running \cup {App(t)} /\ visible' = visible
    /\ \/ /\ onScreen' = onScreen \cup {App(t)}
          /\ astray' = IF Top(t).op = "prewarm" THEN astray \cup {App(t)} ELSE astray
       \/ onScreen' = onScreen \ {App(t)} /\ astray' = astray \cup {App(t)}

Ends(t, step) ==
    /\ Top(t).at = "stop" /\ step = AfterStop(Top(t))
    /\ Quits(App(t)) /\ visible' = visible

\* The launcher has not taken the application away.
Missed(t, step) ==
    /\ Top(t).at = "stop" \/ (Top(t).at \in {"hide", "closeBrowser"} /\ step = "raise")
    /\ step # "mark" /\ App(t) \in Faulty
    /\ onScreen' \in {onScreen, onScreen \ {App(t)}} /\ astray' = astray \cup {App(t)}
    /\ UNCHANGED <<visible, running>>

Hides(t, step) ==
    /\ Top(t).at \in {"hide", "closeBrowser"} /\ step = "unmark"
    /\ Covers(App(t)) /\ visible' = visible

Prepares(t, step) ==
    /\ Top(t).at = "prepare" /\ step = "unmark"
    /\ running' = running \cup {App(t)} /\ visible' = visible
    /\ onScreen' \in {onScreen, onScreen \ {App(t)}} /\ astray' = astray \ ({App(t)} \ onScreen')

Marks(t, step) ==
    /\ Top(t).at = "mark" /\ step = "return" /\ visible' = visible \cup {App(t)}
    /\ UNCHANGED launcherVars

Unmarks(t, step) ==
    /\ Top(t).at = "unmark" /\ step \in {"show", "return"} /\ visible' = visible \ {App(t)}
    /\ UNCHANGED launcherVars

Effect(t, step) ==
    \/ Quiet(t, step) \/ Shows(t, step) \/ HalfShows(t, step) \/ Ends(t, step) \/ Missed(t, step)
    \/ Hides(t, step) \/ Prepares(t, step) \/ Marks(t, step) \/ Unmarks(t, step)

\* The steps inside a method, each with its effect.
LEMMA ProceedsEffect ==
    ASSUME IInv, CallsInv, NEW t \in Threads, Proceeds(t)
    PROVE  /\ stack[t] # <<>>
           /\ \E step \in Steps :
                 /\ Follows(Top(t), step) /\ Effect(t, step)
                 /\ Becomes(t, [Top(t) EXCEPT !.at = step])
                 /\ stack'[t] # <<>> /\ Top(t)'.at = step
                 /\ Top(t)'.op = Top(t).op /\ App(t)' = App(t) /\ Top(t)'.todo = Top(t).todo
<1>1. stack[t] # <<>> BY ProceedsFollows
<1>2. Top(t) \in Frame /\ FrameOK(Top(t), registered) /\ Fit(Top(t)) /\ App(t) = Top(t).app
  BY <1>1, Inside, TopFits
<1>3. \E step : Follows(Top(t), step) /\ Goto(t, step) /\ Effect(t, step)
  <2> USE <1>2 DEF Follows, At, LauncherSteps, Effect, launcherVars
  <2>1. CASE PeersClosed(t) BY <2>1 DEF PeersClosed, Quiet
  <2>2. CASE Present(t)
    <3>0. Top(t).at = "present" BY <2>2 DEF Present
    <3>1. CASE App(t) \in running /\ Goto(t, "mark") /\ Opens(App(t)) /\ visible' = visible
      BY <3>0, <3>1 DEF Shows
    <3>2. CASE Goto(t, "launch") /\ UNCHANGED <<visible, launcherVars>> BY <3>0, <3>2 DEF Quiet
    <3>3. CASE Raises(t) /\ UNCHANGED <<visible, launcherVars>> BY <3>0, <3>3 DEF Raises, Quiet
    <3> QED BY <2>2, <3>1, <3>2, <3>3 DEF Present
  <2>3. CASE Launch(t)
    <3>0. Top(t).at = "launch" BY <2>3 DEF Launch
    <3>1. CASE Goto(t, AfterLaunch(Top(t))) /\ Opens(App(t)) /\ visible' = visible
      BY <3>0, <3>1 DEF Shows
    <3>2. CASE HalfOpens(t) /\ visible' = visible BY <3>0, <3>2 DEF HalfOpens, Raises, HalfShows
    <3>3. CASE Raises(t) /\ UNCHANGED <<visible, launcherVars>> BY <3>0, <3>3 DEF Raises, Quiet
    <3> QED BY <2>3, <3>1, <3>2, <3>3 DEF Launch
  <2>4. CASE Stop(t) BY <2>4 DEF Stop, StopFails, Raises, Misses, Missed, Ends, AfterStop
  <2>5. CASE Hide(t)
    <3>0. Top(t).at = "hide" BY <2>5 DEF Hide
    <3>1. CASE Goto(t, "unmark") /\ Covers(App(t)) /\ visible' = visible BY <3>0, <3>1 DEF Hides
    <3>2. CASE Goto(t, AfterHideRefused(Top(t))) /\ UNCHANGED <<visible, launcherVars>>
      <4>1. AfterHideRefused(Top(t)) # "mark" BY DEF AfterHideRefused
      <4> QED BY <3>0, <3>2, <4>1 DEF Quiet
    <3>3. CASE Raises(t) /\ Misses(App(t)) /\ visible' = visible
      BY <3>0, <3>3 DEF Raises, Misses, Missed
    <3> QED BY <2>5, <3>1, <3>2, <3>3 DEF Hide
  <2>6. CASE CloseBrowser(t) BY <2>6 DEF CloseBrowser, Raises, Misses, Missed, Hides
  <2>7. CASE Prepare(t)
    <3>0. Top(t).at = "prepare" BY <2>7 DEF Prepare
    <3>1. CASE /\ Goto(t, "unmark") /\ running' = running \cup {App(t)} /\ visible' = visible
               /\ onScreen' \in {onScreen, onScreen \ {App(t)}}
               /\ astray' = astray \ ({App(t)} \ onScreen')
      BY <3>0, <3>1 DEF Prepares
    <3>2. CASE HalfOpens(t) /\ visible' = visible BY <3>0, <3>2 DEF HalfOpens, Raises, HalfShows
    <3>3. CASE Raises(t) /\ UNCHANGED <<visible, launcherVars>> BY <3>0, <3>3 DEF Raises, Quiet
    <3> QED BY <2>7, <3>1, <3>2, <3>3 DEF Prepare
  <2>8. CASE Mark(t) BY <2>8 DEF Mark, Marks
  <2>9. CASE Unmark(t) BY <2>9 DEF Unmark, Unmarks
  <2> QED BY <2>1, <2>2, <2>3, <2>4, <2>5, <2>6, <2>7, <2>8, <2>9 DEF Proceeds
<1>4. PICK step : Follows(Top(t), step) /\ Goto(t, step) /\ Effect(t, step) BY <1>3
<1>5. step \in Steps /\ Fit([Top(t) EXCEPT !.at = step]) BY <1>2, <1>4, GotoFits
<1> DEFINE f == [Top(t) EXCEPT !.at = step]
<1>6. Becomes(t, f) BY <1>1, <1>4, <1>5, CallsGoto
<1>7. f.at = step /\ f.op = Top(t).op /\ f.app = Top(t).app /\ f.todo = Top(t).todo
  BY <1>2, <1>5 DEF Frame
<1> HIDE DEF f
<1>8. Top(t)' = f /\ stack'[t] # <<>> BY <1>6 DEF Becomes
<1>9. App(t)' = App(t) BY <1>2, <1>7, <1>8 DEF App
<1> QED BY <1>1, <1>4, <1>5, <1>6, <1>7, <1>8, <1>9 DEF f

-----------------------------------------------------------------------------
(* What the bookkeeping of _visible says of the screen.                    *)

\* An application that runs off screen as it should is not visible, or is being taken out
\* of _visible, and nobody is about to put it in.
VisInv ==
    \A a \in running \ (onScreen \cup astray) :
        /\ a \in visible => \E t \in Threads : At(t, "unmark") /\ App(t) = a
        /\ \A t \in Threads : At(t, "mark") => App(t) # a

\* Only what runs is on the screen, or is known to have been left there.
ScreenInv == onScreen \subseteq running \cup astray

\* The caller that a method returns to.
LEMMA CallerBelow ==
    ASSUME IInv, CallsInv, NEW t \in Threads, stack[t] # <<>>, Leaves(t), stack'[t] # <<>>
    PROVE  \E g \in Frame :
             /\ Calls(g, Top(t)) /\ g.at \in {"return", "peers", "next"}
             /\ Top(t)'.op = g.op /\ Top(t)'.app = g.app /\ Top(t)'.todo = g.todo
             /\ Top(t)'.at \in {g.at, "raise"}
<1> DEFINE s == stack[t]
           r == stack'[t]
           n == Len(s) - 1
<1>1. /\ Len(s) \in Nat /\ Len(s) > 0 /\ Top(t) = s[Len(s)] /\ Nested(s) /\ s \in Seq(Frame)
      /\ StackOK(s, registered)
  BY Inside, TopFacts DEF CallsInv, IInv
<1>2. r \in Seq(Frame) /\ Len(r) = n /\ Top(t)' = r[Len(r)] BY DEF Leaves, Top
<1>3. n \in Nat /\ n > 0 /\ n \in 1..n BY <1>2, TopInRange
<1>4. n \in 1..Len(s) /\ n < Len(s) /\ n + 1 = Len(s) BY <1>1, <1>3
<1>5. Calls(s[n], Top(t)) /\ s[n] \in Frame /\ FrameOK(s[n], registered)
  BY <1>1, <1>4 DEF Nested, StackOK
<1>6. s[n].op = "restart" => s[n].at = "return" BY <1>1, <1>4 DEF StackOK
<1>7. s[n].at \in {"return", "peers", "next"} BY <1>5, <1>6 DEF Calls, FrameOK
<1>8. r[n] = s[n] \/ r[n] = [s[n] EXCEPT !.at = "raise"] BY <1>3 DEF Leaves
<1>9. r[n].op = s[n].op /\ r[n].app = s[n].app /\ r[n].todo = s[n].todo /\ r[n].at \in {s[n].at, "raise"}
  BY <1>5, <1>8 DEF Frame
<1> QED BY <1>2, <1>5, <1>7, <1>9

\* The lifecycle lock: two threads past it are not on one application.
LEMMA LockExcludes ==
    ASSUME IInv, NEW t \in Threads, NEW u \in Threads, t # u, stack[t] # <<>>, stack[u] # <<>>,
           Top(t).at \in HeldSteps, Top(u).at \in HeldSteps
    PROVE  App(t) # App(u)
BY Inside

\* The other threads stay where they are.
LEMMA OthersStay ==
    ASSUME NEW t \in Threads, Others(t)
    PROVE  \A u \in Threads : u # t => /\ Top(u)' = Top(u) /\ App(u)' = App(u)
                                       /\ \A step : At(u, step)' <=> At(u, step)
BY DEF Others, Top, At, App

\* A step that puts no running application off the screen, and marks none.
LEMMA VisSame ==
    ASSUME VisInv, NEW t \in Threads, Others(t), ~At(t, "unmark"), ~At(t, "mark")',
           visible' \subseteq visible,
           running' \ (onScreen' \cup astray') \subseteq running \ (onScreen \cup astray)
    PROVE  VisInv'
<1> SUFFICES ASSUME NEW a \in running' \ (onScreen' \cup astray')
             PROVE  /\ a \in visible' => \E u \in Threads : At(u, "unmark")' /\ App(u)' = a
                    /\ \A u \in Threads : At(u, "mark")' => App(u)' # a
  BY DEF VisInv
<1>1. /\ a \in visible => \E u \in Threads : At(u, "unmark") /\ App(u) = a
      /\ \A u \in Threads : At(u, "mark") => App(u) # a
  BY DEF VisInv
<1> QED BY <1>1, OthersStay

\* Every other step of a thread: taking the lock, calls, returns and loops.
Moves(t) ==
    \/ Enter(t) \/ ClosePeer(t) \/ NextApp(t) \/ Discard(t) \/ RestartShows(t)
    \/ Return(t) \/ PassDone(t) \/ Unwind(t)

\* They leave the screen alone, and lead to no bookkeeping.
LEMMA MovesEffect ==
    ASSUME IInv, CallsInv, NEW t \in Threads, Moves(t)
    PROVE  /\ stack[t] # <<>> /\ Others(t)
           /\ Top(t).at \in {"peers", "enter", "next", "discard", "show", "return", "raise"}
           /\ visible' \subseteq visible /\ UNCHANGED <<registered, closed, launcherVars>>
           /\ ~At(t, "mark")'
           /\ At(t, "hide")' \/ At(t, "stop")' => Top(t)'.op # "prewarm"
<1>1. /\ visible' \subseteq visible /\ UNCHANGED <<registered, closed, launcherVars>>
      /\ stack[t] # <<>>
      /\ Top(t).at \in {"peers", "enter", "next", "discard", "show", "return", "raise"}
  BY DEF Moves, Enter, ClosePeer, NextApp, Discard, RestartShows, Return, PassDone, Unwind, At,
         launcherVars
<1>2. registered \subseteq Apps BY DEF IInv, DataInv
<1> DEFINE Fine == Others(t) /\ ~At(t, "mark")' /\ (At(t, "hide")' \/ At(t, "stop")' => Top(t)'.op # "prewarm")
<1>3. CASE Enter(t)
  <2>1. Becomes(t, Entered(t)) /\ Entered(t).op = Top(t).op /\ Entered(t).at = FirstStep(Top(t))
    BY <1>3, EnterBecomes
  <2>2. FirstStep(Top(t)) # "mark" /\ (FirstStep(Top(t)) \in {"hide", "stop"} => Top(t).op # "prewarm")
    BY DEF FirstStep, CloseStep
  <2> QED BY <1>1, <2>1, <2>2 DEF Becomes, At
<1>4. CASE ClosePeer(t)
  <2>1. PICK p \in Top(t).todo, f \in Frame :
          /\ f.op = "show" /\ f.at = "peers" /\ p \in registered
          /\ MakesCall(t, f, Call("close", p)) \/ Becomes(t, f)
    BY <1>4, ClosePeerCalls
  <2>2. Call("close", p).at = "enter" BY <1>2, <2>1, CallFits DEF AppOps
  <2> QED BY <1>1, <2>1, <2>2 DEF Becomes, MakesCall, At
<1>5. CASE NextApp(t)
  <2>1. PICK a \in Top(t).todo, f \in Frame :
          /\ f.at \in {"enter", "next"} /\ a \in registered
          /\ \/ Becomes(t, f) \/ MakesCall(t, f, Call("prewarm", a)) \/ MakesCall(t, f, Call("show", a))
    BY <1>5, NextAppCalls
  <2>2. Call("prewarm", a).at = "enter" /\ Call("show", a).at = "peers"
    BY <1>2, <2>1, CallFits DEF AppOps
  <2> QED BY <1>1, <2>1, <2>2 DEF Becomes, MakesCall, At
<1>6. CASE Discard(t)
  <2>1. PICK f \in Frame : Becomes(t, f) /\ f.at = "next" BY <1>6, DiscardBecomes
  <2> QED BY <1>1, <2>1 DEF Becomes, At
<1>7. CASE RestartShows(t)
  <2>1. PICK f \in Frame : MakesCall(t, f, Call("show", App(t))) BY <1>7, RestartCalls
  <2>2. App(t) \in registered BY <1>1, <1>7, RestartCalls, Inside DEF FrameOK
  <2>3. Call("show", App(t)).at = "peers" BY <1>2, <2>2, CallFits DEF AppOps
  <2> QED BY <1>1, <2>1, <2>3 DEF MakesCall, At
<1>8. CASE Return(t) \/ PassDone(t) \/ Unwind(t)
  <2>1. Leaves(t) BY <1>8, PopLeaves
  <2>2. stack'[t] # <<>> => Top(t)'.at \in {"return", "peers", "next", "raise"}
    BY <1>1, <2>1, CallerBelow
  <2> QED BY <1>1, <2>1, <2>2 DEF Leaves, At
<1>9. Fine BY <1>3, <1>4, <1>5, <1>6, <1>7, <1>8 DEF Moves
<1> QED BY <1>1, <1>9

\* Requests touch nothing but the stack of an idle thread, _apps and closed.
LEMMA RequestsEffect ==
    ASSUME IInv, Requests
    PROVE  /\ UNCHANGED <<visible, owner, launcherVars>>
           /\ \/ stack' = stack
              \/ \E t \in Threads, f \in Frame :
                    /\ stack[t] = <<>> /\ stack'[t] = <<f>> /\ Others(t)
                    /\ Top(t)' = f /\ f.at \in {"peers", "enter", "next"}
<1>1. UNCHANGED <<visible, owner, launcherVars>>
  BY DEF Requests, Register, Request, StopAll, StartBackgroundApps, launcherVars
<1>2. stack \in [Threads -> Seq(Frame)] /\ registered \subseteq Apps
  BY DEF IInv, StackInv, DataInv
<1>3. ASSUME NEW t \in Threads, NEW f \in Frame, stack[t] = <<>>, stack' = [stack EXCEPT ![t] = <<f>>]
      PROVE  stack'[t] = <<f>> /\ Others(t) /\ Top(t)' = f
  <2>1. stack'[t] = <<f>> BY <1>2, <1>3
  <2>2. Len(<<f>>) = 1 /\ <<f>>[1] = f OBVIOUS
  <2> QED BY <1>2, <1>3, <2>1, <2>2 DEF Others, Top
<1>4. ASSUME NEW t \in Callers, NEW a \in Apps, NEW op \in AppOps \ {"prewarm"}, Request(t, op, a)
      PROVE \E f \in Frame : f.at \in {"peers", "enter", "next"} /\ stack[t] = <<>>
                             /\ stack' = [stack EXCEPT ![t] = <<f>>]
  <2>1. a \in registered /\ (op = "restart" => a \in Restartable) /\ stack[t] = <<>>
        /\ stack' = [stack EXCEPT ![t] = <<Call(op, a)>>]
    BY <1>4 DEF Request
  <2>2. Call(op, a) \in Frame /\ Call(op, a).at \in {"peers", "enter", "next"} BY <1>2, <2>1, CallFits
  <2> QED BY <2>1, <2>2
<1>5. ASSUME NEW op \in PassOps PROVE Pass(op) \in Frame /\ Pass(op).at = "next"
  BY <1>2, PassOK DEF FrameOK, Pass
<1>6. \/ stack' = stack
      \/ \E t \in Threads, f \in Frame : /\ f.at \in {"peers", "enter", "next"} /\ stack[t] = <<>>
                                         /\ stack' = [stack EXCEPT ![t] = <<f>>]
  BY <1>4, <1>5 DEF Requests, Register, StopAll, StartBackgroundApps, PassOps, Threads
<1>7. CASE stack' = stack BY <1>1, <1>7
<1>8. CASE stack' # stack
  <2>1. PICK t \in Threads, f \in Frame : /\ f.at \in {"peers", "enter", "next"} /\ stack[t] = <<>>
                                          /\ stack' = [stack EXCEPT ![t] = <<f>>]
    BY <1>6, <1>8
  <2>2. stack'[t] = <<f>> /\ Others(t) /\ Top(t)' = f BY <1>3, <2>1
  <2> QED BY <1>1, <2>1, <2>2
<1> QED BY <1>7, <1>8

\* A step inside a method keeps VisInv.
LEMMA VisProceeds ==
    ASSUME IInv, CallsInv, VisInv, NEW t \in Threads, Proceeds(t)
    PROVE  VisInv'
<1> DEFINE a == App(t)
<1>1. PICK step \in Steps :
        /\ stack[t] # <<>> /\ Effect(t, step) /\ Becomes(t, [Top(t) EXCEPT !.at = step])
        /\ stack'[t] # <<>> /\ Top(t)'.at = step /\ App(t)' = a
  BY ProceedsEffect
<1>2. Others(t) /\ (At(t, "mark")' <=> step = "mark") /\ (At(t, "unmark")' <=> step = "unmark")
  BY <1>1 DEF Becomes, At
<1>3. {"mark", "unmark"} \cup LauncherSteps \subseteq HeldSteps BY DEF HeldSteps, LockedSteps
<1>4. ASSUME Top(t).at \in {"mark", "unmark"} \cup LauncherSteps, NEW u \in Threads, u # t,
             At(u, "mark") \/ At(u, "unmark")
      PROVE  App(u) # a
  BY <1>1, <1>3, <1>4, LockExcludes DEF At
<1> DEFINE Hidden == running \ (onScreen \cup astray)
<1>5. ASSUME NEW b \in Hidden
      PROVE  /\ b \in visible => \E u \in Threads : At(u, "unmark") /\ App(u) = b
             /\ \A u \in Threads : At(u, "mark") => App(u) # b
  BY DEF VisInv
<1> SUFFICES ASSUME NEW b \in Hidden'
             PROVE  /\ b \in visible' => \E u \in Threads : At(u, "unmark")' /\ App(u)' = b
                    /\ \A u \in Threads : At(u, "mark")' => App(u)' # b
  BY DEF VisInv
<1>6. CASE Quiet(t, step) \/ HalfShows(t, step) \/ Ends(t, step) \/ Missed(t, step)
  <2>1. ~At(t, "unmark") BY <1>6 DEF Quiet, HalfShows, Ends, Missed, At
  <2>2. ~At(t, "mark")' BY <1>2, <1>6 DEF Quiet, HalfShows, Ends, Missed, AfterStop
  <2>3. visible' = visible BY <1>6 DEF Quiet, HalfShows, Ends, Missed
  <2>4. b \in Hidden BY <1>6 DEF Quiet, HalfShows, Ends, Missed, Quits, launcherVars
  <2> QED BY <1>2, <1>5, <2>1, <2>2, <2>3, <2>4, OthersStay
<1>8. CASE Shows(t, step)
  <2>1. ~At(t, "unmark") /\ visible' = visible BY <1>8 DEF Shows, At
  <2>2. b \in Hidden /\ b # a BY <1>8 DEF Shows, Opens
  <2> QED BY <1>1, <1>2, <1>5, <2>1, <2>2, OthersStay
<1>9. CASE Hides(t, step) \/ Prepares(t, step)
  <2>1. /\ ~At(t, "unmark") /\ At(t, "unmark")' /\ ~At(t, "mark")' /\ visible' = visible
        /\ Top(t).at \in LauncherSteps
    BY <1>2, <1>9 DEF Hides, Prepares, At, LauncherSteps
  <2>2. CASE b = a
    <3>1. \A u \in Threads : At(u, "mark")' => App(u)' # b
      BY <1>2, <1>4, <2>1, <2>2, OthersStay
    <3> QED BY <1>1, <2>1, <2>2, <3>1
  <2>3. CASE b # a
    <3>1. b \in Hidden BY <1>9, <2>3 DEF Hides, Prepares, Covers
    <3> QED BY <1>1, <1>2, <1>5, <2>1, <2>3, <3>1, OthersStay
  <2> QED BY <2>2, <2>3
<1>10. CASE Marks(t, step)
  <2>1. At(t, "mark") /\ ~At(t, "unmark") /\ ~At(t, "mark")' /\ visible' = visible \cup {a}
    BY <1>1, <1>2, <1>10 DEF Marks, At
  <2>2. b \in Hidden BY <1>10 DEF Marks, launcherVars
  <2> QED BY <1>2, <1>5, <2>1, <2>2, OthersStay
<1>11. CASE Unmarks(t, step)
  <2>1. At(t, "unmark") /\ ~At(t, "mark")' /\ visible' = visible \ {a}
    BY <1>1, <1>2, <1>11 DEF Unmarks, At
  <2>2. b \in Hidden BY <1>11 DEF Unmarks, launcherVars
  <2> QED BY <1>2, <1>5, <2>1, <2>2, OthersStay
<1> QED BY <1>1, <1>6, <1>8, <1>9, <1>10, <1>11 DEF Effect

\* A call of a user or a timer comes to an idle thread.
LEMMA VisRequests == IInv /\ VisInv /\ Requests => VisInv'
<1> SUFFICES ASSUME IInv, VisInv, Requests PROVE VisInv' OBVIOUS
<1>1. UNCHANGED <<visible, running, onScreen, astray>> BY RequestsEffect DEF launcherVars
<1>2. CASE stack' = stack BY <1>1, <1>2 DEF VisInv, At, App, Top
<1>3. CASE stack' # stack
  <2>1. PICK t \in Threads, f \in Frame : /\ stack[t] = <<>> /\ Others(t) /\ Top(t)' = f
                                          /\ f.at \in {"peers", "enter", "next"}
    BY <1>3, RequestsEffect
  <2>2. ~At(t, "unmark") /\ ~At(t, "mark")' BY <2>1 DEF At
  <2> QED BY <1>1, <2>1, <2>2, VisSame
<1> QED BY <1>2, <1>3

\* The bookkeeping of _visible follows the screen, whatever the launchers do.
THEOREM VisibleAccounted == Spec => [](VisInv /\ ScreenInv)
<1>1. Init => VisInv /\ ScreenInv BY DEF Init, VisInv, ScreenInv, At
<1>2. IInv /\ CallsInv /\ VisInv /\ [Next]_vars => VisInv'
  <2> SUFFICES ASSUME IInv, CallsInv, VisInv, [Next]_vars PROVE VisInv' OBVIOUS
  <2>1. ASSUME NEW t \in Threads, Step(t) PROVE VisInv'
    <3>1. CASE Proceeds(t) BY <3>1, VisProceeds
    <3>2. CASE Moves(t)
      <4>1. ~At(t, "unmark") BY <3>2, MovesEffect DEF At
      <4> QED BY <3>2, <4>1, MovesEffect, VisSame DEF launcherVars
    <3> QED BY <2>1, <3>1, <3>2 DEF Step, Proceeds, Moves
  <2>2. CASE \E a \in Apps : AppExits(a) \/ WindowCloses(a)
    BY <2>2 DEF AppExits, WindowCloses, Quits, VisInv, At, App, Top
  <2>3. CASE UNCHANGED vars BY <2>3 DEF vars, launcherVars, VisInv, At, App, Top
  <2> QED BY <2>1, <2>2, <2>3, VisRequests DEF Next
<1>3. IInv /\ CallsInv /\ ScreenInv /\ [Next]_vars => ScreenInv'
  <2> SUFFICES ASSUME IInv, CallsInv, ScreenInv, [Next]_vars PROVE ScreenInv' OBVIOUS
  <2>1. ASSUME NEW t \in Threads, Step(t) PROVE ScreenInv'
    <3>1. CASE Proceeds(t)
      <4>1. PICK step : Effect(t, step) BY <3>1, ProceedsEffect
      <4>2. CASE Quiet(t, step) \/ Marks(t, step) \/ Unmarks(t, step)
        BY <4>2 DEF Quiet, Marks, Unmarks, launcherVars, ScreenInv
      <4>3. CASE Shows(t, step) \/ Ends(t, step) \/ Hides(t, step)
        BY <4>3 DEF Shows, Ends, Hides, Opens, Quits, Covers, ScreenInv
      <4>4. CASE HalfShows(t, step) BY <4>4 DEF HalfShows, ScreenInv
      <4>5. CASE Missed(t, step) BY <4>5 DEF Missed, ScreenInv
      <4>6. CASE Prepares(t, step) BY <4>6 DEF Prepares, ScreenInv
      <4> QED BY <4>1, <4>2, <4>3, <4>4, <4>5, <4>6 DEF Effect
    <3>2. CASE Moves(t) BY <3>2, MovesEffect DEF launcherVars, ScreenInv
    <3> QED BY <2>1, <3>1, <3>2 DEF Step, Proceeds, Moves
  <2>2. CASE \E a \in Apps : AppExits(a) \/ WindowCloses(a)
    BY <2>2 DEF AppExits, WindowCloses, Quits, ScreenInv
  <2>3. CASE UNCHANGED vars BY <2>3 DEF vars, launcherVars, ScreenInv
  <2>4. CASE Requests BY <2>4, RequestsEffect DEF launcherVars, ScreenInv
  <2> QED BY <2>1, <2>2, <2>3, <2>4 DEF Next
<1> QED BY <1>1, <1>2, <1>3, Inductive, CallsNested, PTL DEF Spec

\* A live application that is_visible reports is on the screen unless someone
\* is inside its lifecycle lock, its launcher has failed, or it is a dashboard
\* whose browser was closed by hand: any launchers, any number of threads.
THEOREM VisibleIsOnScreen == Spec => []VisibleTruthful
<1>1. IInv /\ VisInv => VisibleTruthful
  <2> SUFFICES ASSUME IInv, VisInv, NEW a \in (visible \cap running) \ astray, owner[a] = NoThread,
                      a \notin onScreen
               PROVE  FALSE
    BY DEF VisibleTruthful
  <2>1. PICK t \in Threads : At(t, "unmark") /\ App(t) = a BY DEF VisInv
  <2>2. stack[t] # <<>> /\ Top(t).at \in HeldSteps BY <2>1 DEF At, HeldSteps, LockedSteps
  <2> QED BY <2>1, <2>2, Inside, ThreadsAssumption
<1> QED BY <1>1, Inductive, VisibleAccounted, PTL

-----------------------------------------------------------------------------
(* One application of a group on the screen, with one caller.              *)

\* The public methods are called from one thread at a time.
OneCaller == \A c, d \in Callers : c = d

\* No application of a group is shown by the preload worker, and one that is
\* preloaded is preloaded off screen.
GroupsKept ==
    \A a \in Apps : Group[a] # NoGroup =>
        /\ Startup[a] # "persistent"
        /\ Startup[a] = "preload" => a \in Preloadable \cup Windowed

\* close has taken its application off the screen when it has dealt with the
\* launcher, unless the launcher has failed.
ClosedInv ==
    \A t \in Threads :
        (/\ stack[t] # <<>> /\ Top(t).op = "close" /\ Top(t).at \in {"unmark", "return", "raise"}
         /\ Group[App(t)] # NoGroup) => App(t) \notin onScreen \ astray

\* The preload worker has launched a and is about to take its window away.
Warming(a) ==
    /\ At(Preloader, "hide") \/ At(Preloader, "stop")
    /\ Top(Preloader).op = "prewarm" /\ App(Preloader) = a
Settled(a) == a \in onScreen \ astray /\ ~Warming(a)

\* The registered peers that show has dealt with are not on the screen.
Rivals(s) ==
    \A i \in 1..Len(s) : \A p \in registered :
        (/\ s[i].op = "show" /\ Peer(p, s[i].app) /\ p \notin s[i].todo
         /\ i < Len(s) => s[i + 1].app # p) => ~Settled(p)

RivalInv ==
    /\ \A t \in Callers : Rivals(stack[t])
    /\ \A a \in visible, b \in registered : Peer(a, b) => ~(Settled(a) /\ Settled(b))

\* Only the preload worker's loop calls prewarm; the loops and restart are called by no method.
LEMMA WhoStarts ==
    ASSUME IInv, CallsInv, NEW t \in Threads, stack[t] # <<>>, Top(t).op \in {"show", "prewarm"}
    PROVE  /\ t # Preloader => Top(t).op = "show"
           /\ (t = Preloader /\ Top(t).op = "show") => Startup[App(t)] = "persistent"
           /\ (t = Preloader /\ Top(t).op = "prewarm") => Startup[App(t)] = "preload"
<1> DEFINE s == stack[t]
           n == Len(s)
<1>1. /\ n \in Nat /\ n > 0 /\ n \in 1..n /\ Top(t) = s[n] /\ App(t) = Top(t).app
      /\ Nested(s) /\ Begun(s, t)
  BY Inside DEF CallsInv
<1>2. s[1].op # "prewarm" /\ (s[1].op = "preload" <=> t = Preloader) BY DEF Begun, CallsInv
<1>3. ASSUME NEW i \in 1..n, i # 1 PROVE Calls(s[i - 1], s[i])
  <2>1. i - 1 \in 1..n /\ i - 1 < n /\ i - 1 + 1 = i BY <1>1, <1>3
  <2> QED BY <1>1, <2>1 DEF Nested
<1>4. CASE n = 1 BY <1>1, <1>2, <1>4
<1>5. CASE n # 1
  <2> HIDE DEF n
  <2>0. n - 1 \in 1..n BY <1>1, <1>5
  <2>1. Calls(s[n - 1], s[n]) BY <1>1, <1>3, <1>5
  <2>2. s[n - 1].op \in {"restart", "preload"} BY <1>1, <2>1 DEF Calls
  <2>3. n - 1 = 1
    <3> SUFFICES ASSUME n - 1 # 1 PROVE FALSE OBVIOUS
    <3>1. Calls(s[n - 1 - 1], s[n - 1]) BY <1>3, <2>0
    <3> QED BY <2>2, <3>1 DEF Calls
  <2> QED BY <1>1, <1>2, <2>1, <2>2, <2>3 DEF Calls
<1> QED BY <1>4, <1>5

\* A method called from show is a close; show is called by no show.
LEMMA ShowAbove ==
    ASSUME IInv, CallsInv, NEW t \in Threads, NEW i \in 1..Len(stack[t]), stack[t][i].op = "show",
           i < Len(stack[t])
    PROVE  /\ i + 1 = Len(stack[t]) /\ stack[t][i].at = "peers"
           /\ stack[t][i + 1].op = "close" /\ Peer(stack[t][i + 1].app, stack[t][i].app)
<1> DEFINE s == stack[t]
           n == Len(s)
<1>1. n \in Nat /\ Nested(s) BY DEF CallsInv, IInv, StackInv
<1>2. Calls(s[i], s[i + 1]) BY <1>1 DEF Nested
<1>3. s[i].at = "peers" /\ s[i + 1].op = "close" /\ Peer(s[i + 1].app, s[i].app) BY <1>2 DEF Calls
<1>4. i + 1 = n
  <2> SUFFICES ASSUME i + 1 # n PROVE FALSE OBVIOUS
  <2>1. i + 1 \in 1..n /\ i + 1 < n BY <1>1
  <2>2. Calls(s[i + 1], s[i + 1 + 1]) BY <1>1, <2>1 DEF Nested
  <2> QED BY <1>3, <2>2 DEF Calls
<1> QED BY <1>3, <1>4

\* close is left only when the launcher has taken the application off the screen.
LEMMA ClosedKept ==
    ASSUME GroupsKept
    PROVE  IInv /\ CallsInv /\ ClosedInv /\ [Next]_vars => ClosedInv'
<1> SUFFICES ASSUME IInv, CallsInv, ClosedInv, [Next]_vars PROVE ClosedInv' OBVIOUS
<1> DEFINE Shown == onScreen \ astray
           Closes(f) == f.op = "close" /\ f.at \in {"unmark", "return", "raise"} /\ Group[f.app] # NoGroup
<1>1. ASSUME NEW t \in Threads, Others(t), Shown' \subseteq Shown \cup {App(t)},
             Shown' \subseteq Shown \/ (stack[t] # <<>> /\ Top(t).at \in HeldSteps),
             stack'[t] # <<>> /\ Closes(Top(t)') => App(t)' \notin Shown'
      PROVE  ClosedInv'
  <2> SUFFICES ASSUME NEW u \in Threads, u # t, stack'[u] # <<>>, Closes(Top(u)')
               PROVE  App(u)' \notin Shown'
    BY <1>1 DEF ClosedInv, App
  <2>1. stack[u] # <<>> /\ Closes(Top(u)) /\ App(u)' = App(u) BY <1>1, OthersStay DEF Others
  <2>2. App(u) \notin Shown BY <2>1 DEF ClosedInv, App
  <2>3. Top(u).at \in HeldSteps BY <2>1 DEF HeldSteps, LockedSteps
  <2>4. (stack[t] # <<>> /\ Top(t).at \in HeldSteps) => App(t) # App(u) BY <2>1, <2>3, LockExcludes
  <2> QED BY <1>1, <2>1, <2>2, <2>4
<1>2. ASSUME NEW t \in Threads, Proceeds(t) PROVE ClosedInv'
  <2>1. PICK step \in Steps :
          /\ stack[t] # <<>> /\ Effect(t, step) /\ Becomes(t, [Top(t) EXCEPT !.at = step])
          /\ Follows(Top(t), step)
          /\ Top(t)'.at = step /\ App(t)' = App(t) /\ Top(t)'.op = Top(t).op
    BY <1>2, ProceedsEffect
  <2>2. Others(t) /\ Top(t).at \in {"peers", "mark", "unmark"} \cup LauncherSteps /\ Fit(Top(t))
    BY <2>1, TopFits DEF Becomes, Follows, LauncherSteps
  <2>3. Shown' \subseteq Shown \cup {App(t)} /\ (Shown' \subseteq Shown \/ Top(t).at \in LauncherSteps)
    <3>1. CASE Quiet(t, step) \/ Marks(t, step) \/ Unmarks(t, step)
      BY <3>1 DEF Quiet, Marks, Unmarks, launcherVars
    <3>2. CASE Shows(t, step) \/ Ends(t, step) \/ Hides(t, step)
      BY <3>2 DEF Shows, Ends, Hides, Opens, Quits, Covers, LauncherSteps
    <3>3. CASE HalfShows(t, step) BY <3>3 DEF HalfShows, LauncherSteps
    <3>4. CASE Missed(t, step) \/ Prepares(t, step) BY <3>4 DEF Missed, Prepares, LauncherSteps
    <3> QED BY <2>1, <3>1, <3>2, <3>3, <3>4 DEF Effect
  <2>4. LauncherSteps \subseteq HeldSteps BY DEF HeldSteps, LockedSteps
  <2>5. ASSUME Top(t).op = "close", step \in {"unmark", "return", "raise"}, Group[App(t)] # NoGroup
        PROVE  App(t) \notin Shown'
    <3>1. Startup[App(t)] # "persistent" BY <2>1, <2>5, Inside DEF GroupsKept
    <3>2. Top(t).at \in {"unmark", "stop", "hide", "closeBrowser"}
      <4>1. Top(t).at # "peers" BY <2>1, <2>5, Inside DEF FrameOK
      <4> QED BY <2>2, <2>5, <4>1 DEF Fit, LauncherSteps
    <3>3. ~Quiet(t, step) BY <2>5, <3>1, <3>2 DEF Quiet, AfterHideRefused, App
    <3>4. Ends(t, step) \/ Missed(t, step) \/ Hides(t, step) \/ Unmarks(t, step)
      BY <2>1, <3>2, <3>3 DEF Effect, Shows, HalfShows, Prepares, Marks
    <3>5. CASE Ends(t, step) \/ Missed(t, step) \/ Hides(t, step)
      BY <3>5 DEF Ends, Missed, Hides, Quits, Covers
    <3>6. CASE Unmarks(t, step)
      <4>1. Top(t).at = "unmark" /\ Shown' = Shown BY <3>6 DEF Unmarks, launcherVars
      <4> QED BY <2>1, <2>5, <4>1 DEF ClosedInv
    <3> QED BY <3>4, <3>5, <3>6
  <2>6. stack'[t] # <<>> /\ Closes(Top(t)') => App(t)' \notin Shown' BY <2>1, <2>5, Inside DEF App
  <2> QED BY <1>1, <2>1, <2>2, <2>3, <2>4, <2>6
<1>3. ASSUME NEW t \in Threads, Moves(t) PROVE ClosedInv'
  <2>1. stack[t] # <<>> /\ Others(t) /\ UNCHANGED launcherVars BY <1>3, MovesEffect
  <2>2. ~(stack'[t] # <<>> /\ Closes(Top(t)'))
    <3>1. registered \subseteq Apps BY DEF IInv, DataInv
    <3>2. CASE Enter(t)
      <4>1. /\ Top(t)' = Entered(t) /\ Entered(t).op = Top(t).op /\ Entered(t).at = FirstStep(Top(t))
            /\ Entered(t).app = App(t) /\ App(t) \in Apps
        BY <2>1, <3>2, EnterBecomes, Inside DEF Becomes
      <4>2. Group[App(t)] # NoGroup => Startup[App(t)] # "persistent" BY <4>1 DEF GroupsKept
      <4> QED BY <4>1, <4>2 DEF FirstStep, CloseStep, App
    <3>3. CASE ClosePeer(t)
      <4>1. PICK p \in Top(t).todo, f \in Frame :
              /\ f.op = "show" /\ p \in registered
              /\ MakesCall(t, f, Call("close", p)) \/ Becomes(t, f)
        BY <3>3, ClosePeerCalls
      <4>2. Call("close", p).at = "enter" BY <3>1, <4>1, CallFits DEF AppOps
      <4> QED BY <4>1, <4>2 DEF Becomes, MakesCall
    <3>4. CASE NextApp(t)
      <4>1. PICK a \in Top(t).todo, f \in Frame :
              /\ f.at \in {"enter", "next"} /\ a \in registered
              /\ \/ Becomes(t, f) \/ MakesCall(t, f, Call("prewarm", a))
                 \/ MakesCall(t, f, Call("show", a))
        BY <3>4, NextAppCalls
      <4>2. Call("prewarm", a).at = "enter" /\ Call("show", a).at = "peers"
        BY <3>1, <4>1, CallFits DEF AppOps
      <4> QED BY <4>1, <4>2 DEF Becomes, MakesCall
    <3>5. CASE Discard(t) BY <3>5, DiscardBecomes DEF Becomes
    <3>6. CASE RestartShows(t)
      <4>1. PICK f \in Frame : MakesCall(t, f, Call("show", App(t))) BY <3>6, RestartCalls
      <4>2. Call("show", App(t)).op = "show" BY DEF Call
      <4> QED BY <4>1, <4>2 DEF MakesCall
    <3>7. CASE Return(t) \/ PassDone(t) \/ Unwind(t)
      <4>1. stack'[t] # <<>> => Top(t)'.op # "close"
        <5>1. Leaves(t) BY <3>7, PopLeaves
        <5> QED BY <2>1, <5>1, CallerBelow DEF Calls
      <4> QED BY <4>1
    <3> QED BY <1>3, <3>2, <3>3, <3>4, <3>5, <3>6, <3>7 DEF Moves
  <2>3. Shown' = Shown BY <2>1 DEF launcherVars
  <2> QED BY <1>1, <2>1, <2>2, <2>3
<1>4. CASE Requests
  <2>0. Shown' = Shown BY <1>4, RequestsEffect DEF launcherVars
  <2>1. CASE stack' = stack BY <2>0, <2>1 DEF ClosedInv, App, Top
  <2>2. CASE stack' # stack
    <3>1. PICK t \in Threads, f \in Frame : /\ Others(t) /\ Top(t)' = f
                                            /\ f.at \in {"peers", "enter", "next"}
      BY <1>4, <2>2, RequestsEffect
    <3> QED BY <1>1, <2>0, <3>1
  <2> QED BY <2>1, <2>2
<1>5. CASE (\E a \in Apps : AppExits(a) \/ WindowCloses(a)) \/ UNCHANGED vars
  <2>1. stack' = stack BY <1>5 DEF AppExits, WindowCloses, vars
  <2>2. Shown' \subseteq Shown BY <1>5 DEF AppExits, WindowCloses, Quits, vars, launcherVars
  <2> QED BY <2>1, <2>2 DEF ClosedInv, App, Top
<1> QED BY <1>2, <1>3, <1>4, <1>5 DEF Next, Step, Proceeds, Moves

\* An application of a group settles on the screen, or becomes visible, only
\* through the show of a caller.
LEMMA SettledGrows ==
    ASSUME GroupsKept, IInv, CallsInv, NEW t \in Threads, Step(t), NEW p \in Apps, Group[p] # NoGroup,
           (Settled(p)' /\ ~Settled(p)) \/ p \in visible' \ visible
    PROVE  Proceeds(t) /\ t \in Callers /\ stack[t] # <<>> /\ Top(t).op = "show"
           /\ Top(t).at \in {"present", "launch", "mark"} /\ App(t) = p
<1>1. Startup[p] # "persistent" /\ (Startup[p] = "preload" => p \in Preloadable \cup Windowed)
  BY DEF GroupsKept
<1>2. ~Moves(t)
  <2> SUFFICES ASSUME Moves(t) PROVE FALSE OBVIOUS
  <2>1. /\ visible' \subseteq visible /\ onScreen' \ astray' = onScreen \ astray
        /\ Others(t) /\ Top(t).at \notin {"hide", "stop"}
    BY MovesEffect DEF launcherVars
  <2>2. Warming(p) /\ ~Warming(p)' BY <2>1 DEF Settled
  <2>3. t # Preloader BY <2>1, <2>2 DEF Warming, At
  <2>4. Warming(p)' BY <2>1, <2>2, <2>3, OthersStay DEF Warming, Threads
  <2> QED BY <2>2, <2>4
<1>3. Proceeds(t) BY <1>2 DEF Step, Proceeds, Moves
<1>4. PICK step \in Steps :
        /\ stack[t] # <<>> /\ Effect(t, step) /\ Becomes(t, [Top(t) EXCEPT !.at = step])
        /\ stack'[t] # <<>> /\ Top(t)'.at = step /\ App(t)' = App(t) /\ Top(t)'.op = Top(t).op
  BY <1>3, ProceedsEffect
<1>5. Others(t) /\ Fit(Top(t)) /\ App(t) = Top(t).app BY <1>4, TopFits, Inside DEF Becomes
<1>6. ASSUME Top(t).op = "show", Top(t).at \in {"present", "launch", "mark"}, App(t) = p
      PROVE  t \in Callers
  <2>1. t # Preloader BY <1>1, <1>4, <1>6, WhoStarts
  <2> QED BY <2>1 DEF Threads
<1>7. CASE p \in visible' \ visible
  <2>1. Marks(t, step)
    BY <1>4, <1>7 DEF Effect, Quiet, Shows, HalfShows, Ends, Missed, Hides, Prepares, Unmarks
  <2>2. Top(t).at = "mark" /\ App(t) = p BY <1>7, <2>1 DEF Marks
  <2>3. Top(t).op = "show" BY <1>5, <2>2 DEF Fit
  <2> QED BY <1>3, <1>4, <1>6, <2>2, <2>3
<1>8. CASE Settled(p)' /\ ~Settled(p)
  <2>1. p \in onScreen' \ astray' /\ ~Warming(p)' BY <1>8 DEF Settled
  <2>2. ~Warming(p)
    <3> SUFFICES ASSUME Warming(p) PROVE FALSE OBVIOUS
    <3>1. CASE t # Preloader
      <4>1. Warming(p)' BY <1>5, <3>1, OthersStay DEF Warming, Threads
      <4> QED BY <2>1, <4>1
    <3>2. CASE t = Preloader
      <4>1. Top(t).at \in {"hide", "stop"} /\ Top(t).op = "prewarm" /\ App(t) = p
        BY <3>2 DEF Warming, At
      <4>2. Quiet(t, step) \/ Ends(t, step) \/ Missed(t, step) \/ Hides(t, step)
        BY <1>4, <4>1 DEF Effect, Shows, HalfShows, Prepares, Marks, Unmarks
      <4>3. ~(Ends(t, step) \/ Missed(t, step) \/ Hides(t, step))
        BY <2>1, <4>1 DEF Ends, Missed, Hides, Quits, Covers
      <4>4. step = "stop" BY <4>1, <4>2, <4>3 DEF Quiet, AfterHideRefused
      <4>5. Warming(p)' BY <1>4, <3>2, <4>1, <4>4 DEF Warming, At
      <4> QED BY <2>1, <4>5
    <3> QED BY <3>1, <3>2
  <2>3. p \notin onScreen \ astray BY <1>8, <2>2 DEF Settled
  <2>4. Shows(t, step) \/ HalfShows(t, step)
    <3>1. ~Quiet(t, step) /\ ~Marks(t, step) /\ ~Unmarks(t, step)
      BY <2>1, <2>3 DEF Quiet, Marks, Unmarks, launcherVars
    <3>2. ~Ends(t, step) /\ ~Hides(t, step) BY <2>1, <2>3 DEF Ends, Hides, Quits, Covers
    <3>3. ~Missed(t, step) BY <2>1, <2>3 DEF Missed
    <3>4. ~Prepares(t, step) BY <2>1, <2>3 DEF Prepares
    <3> QED BY <1>4, <3>1, <3>2, <3>3, <3>4 DEF Effect
  <2>5. App(t) = p BY <2>1, <2>3, <2>4 DEF Shows, HalfShows, Opens
  <2>6. CASE HalfShows(t, step)
    <3>1. Top(t).at \in {"launch", "prepare"} /\ Top(t).op # "prewarm"
      BY <2>1, <2>5, <2>6 DEF HalfShows
    <3>2. Top(t).at = "launch" /\ Top(t).op = "show" BY <1>5, <3>1 DEF Fit
    <3> QED BY <1>3, <1>4, <1>6, <2>5, <3>2
  <2>7. CASE Shows(t, step)
    <3>1. Top(t).at \in {"present", "launch"} BY <2>7 DEF Shows
    <3>2. Top(t).op \in {"show", "prewarm"} BY <1>5, <3>1 DEF Fit
    <3>3. Top(t).op # "prewarm"
      <4> SUFFICES ASSUME Top(t).op = "prewarm" PROVE FALSE OBVIOUS
      <4>1. Top(t).at = "launch" /\ p \notin Preloadable BY <1>5, <2>5, <3>1 DEF Fit
      <4>2. t = Preloader /\ Startup[p] = "preload" BY <1>4, <2>5, <3>2, WhoStarts
      <4>3. step = "hide" BY <1>1, <1>5, <2>5, <2>7, <4>1, <4>2 DEF Shows, AfterLaunch
      <4>4. Warming(p)' BY <1>4, <2>5, <4>2, <4>3 DEF Warming, At
      <4> QED BY <2>1, <4>4
    <3> QED BY <1>3, <1>4, <1>6, <2>5, <3>1, <3>2, <3>3
  <2> QED BY <2>4, <2>6, <2>7
<1> QED BY <1>7, <1>8

Calmer ==
    \A q \in Apps : Group[q] # NoGroup => /\ Settled(q)' => Settled(q)
                                          /\ q \in visible' => q \in visible

\* The innermost method moves on, and nothing new settles.
LEMMA RivalsBecome ==
    ASSUME IInv, CallsInv, NEW t \in Threads, stack[t] # <<>>, NEW f, Becomes(t, f), Calmer,
           registered' = registered, registered \subseteq Apps, Rivals(stack[t]), f.op = Top(t).op,
           f.op = "show" => /\ f.app = App(t)
                            /\ \A q \in Top(t).todo \ f.todo : Peer(q, App(t)) => ~Settled(q),
           f.app = App(t) \/ Top(t).op # "close"
    PROVE  Rivals(stack[t])'
<1> DEFINE s == stack[t]
           r == stack'[t]
<1>1. /\ Len(s) \in Nat /\ Len(s) \in 1..Len(s) /\ Top(t) = s[Len(s)] /\ App(t) = Top(t).app
      /\ Len(r) = Len(s)
      /\ \A i \in 1..Len(s) : r[i] = IF i = Len(s) THEN f ELSE s[i]
  BY Inside DEF Becomes
<1> SUFFICES ASSUME NEW i \in 1..Len(r), NEW p \in registered, r[i].op = "show", Peer(p, r[i].app),
                    p \notin r[i].todo, i < Len(r) => r[i + 1].app # p
             PROVE  ~Settled(p)'
  BY DEF Rivals
<1>2. Settled(p)' => Settled(p) BY DEF Calmer, Peer
<1>3. CASE i = Len(s)
  <2>1. r[i] = f /\ Top(t).op = "show" /\ f.app = App(t) BY <1>1, <1>3
  <2>2. CASE p \in Top(t).todo BY <1>2, <2>1, <2>2
  <2>3. CASE p \notin Top(t).todo
    <3>1. ~Settled(p) BY <1>1, <2>1, <2>3 DEF Rivals
    <3> QED BY <1>2, <3>1
  <2> QED BY <2>2, <2>3
<1>4. CASE i # Len(s)
  <2>1. r[i] = s[i] /\ i < Len(s) /\ i \in 1..Len(s) BY <1>1, <1>4
  <2>2. i + 1 = Len(s) /\ s[i + 1].op = "close" BY <2>1, ShowAbove
  <2>3. r[i + 1].app = s[i + 1].app BY <1>1, <2>2
  <2>4. ~Settled(p) BY <1>1, <2>1, <2>3 DEF Rivals
  <2> QED BY <1>2, <2>4
<1> QED BY <1>3, <1>4

\* It calls another one: show a close of a peer, restart a show of its own.
LEMMA RivalsCall ==
    ASSUME IInv, CallsInv, NEW t \in Threads, stack[t] # <<>>, NEW f, NEW c, MakesCall(t, f, c),
           Calmer, registered' = registered, registered \subseteq Apps, Rivals(stack[t]), f.op = Top(t).op, Top(t).op # "close",
           f.op = "show" => f.app = App(t) /\ \A q \in Top(t).todo \ f.todo : q = c.app,
           c.op = "show" => \A q \in registered : (Peer(q, c.app) /\ q \notin c.todo) => ~Settled(q)
    PROVE  Rivals(stack[t])'
<1> DEFINE s == stack[t]
           r == stack'[t]
<1>1. /\ Len(s) \in Nat /\ Len(s) \in 1..Len(s) /\ Top(t) = s[Len(s)] /\ App(t) = Top(t).app
      /\ Len(r) = Len(s) + 1 /\ r[Len(s) + 1] = c
      /\ \A i \in 1..Len(s) : r[i] = IF i = Len(s) THEN f ELSE s[i]
  BY Inside DEF MakesCall
<1> SUFFICES ASSUME NEW i \in 1..Len(r), NEW p \in registered, r[i].op = "show", Peer(p, r[i].app),
                    p \notin r[i].todo, i < Len(r) => r[i + 1].app # p
             PROVE  ~Settled(p)'
  BY DEF Rivals
<1>2. Settled(p)' => Settled(p) BY DEF Calmer, Peer
<1>3. CASE i = Len(s) + 1 BY <1>1, <1>2, <1>3
<1>4. CASE i = Len(s)
  <2>1. r[i] = f /\ r[i + 1] = c /\ i < Len(r) /\ Top(t).op = "show" /\ f.app = App(t) BY <1>1, <1>4
  <2>2. p \notin Top(t).todo BY <2>1
  <2>3. ~Settled(p) BY <1>1, <2>1, <2>2 DEF Rivals
  <2> QED BY <1>2, <2>3
<1>5. CASE i # Len(s) /\ i # Len(s) + 1
  <2>1. r[i] = s[i] /\ i < Len(s) /\ i \in 1..Len(s) BY <1>1, <1>5
  <2>2. i + 1 = Len(s) /\ s[i + 1].op = "close" BY <2>1, ShowAbove
  <2> QED BY <1>1, <2>2
<1> QED BY <1>3, <1>4, <1>5

\* It is left: show goes on from the close of a peer that has left the screen.
LEMMA RivalsLeave ==
    ASSUME GroupsKept, IInv, CallsInv, ClosedInv, NEW t \in Threads,
           Return(t) \/ PassDone(t) \/ Unwind(t), Calmer, Rivals(stack[t]),
           registered' = registered, registered \subseteq Apps
    PROVE  Rivals(stack[t])'
<1> DEFINE s == stack[t]
           r == stack'[t]
<1>1. /\ Leaves(t) /\ s # <<>> /\ Len(s) \in Nat /\ Top(t) = s[Len(s)] /\ App(t) = Top(t).app
      /\ Len(r) = Len(s) - 1 /\ Fit(Top(t)) /\ FrameOK(Top(t), registered)
      /\ At(t, "return") \/ At(t, "next") \/ At(t, "raise")
  BY LeaveCalls, Inside, TopFits DEF Leaves, Return, PassDone, Unwind
<1> SUFFICES ASSUME NEW i \in 1..Len(r), NEW p \in registered, r[i].op = "show", Peer(p, r[i].app),
                    p \notin r[i].todo, i < Len(r) => r[i + 1].app # p
             PROVE  ~Settled(p)'
  BY DEF Rivals
<1>2. Settled(p)' => Settled(p) BY DEF Calmer, Peer
<1>3. i \in 1..Len(s) /\ i < Len(s) /\ i \in 1..(Len(s) - 1) /\ s[i] \in Frame
  BY <1>1, Inside
<1>4. r[i] = s[i]
  <2> SUFFICES ASSUME r[i] # s[i] PROVE FALSE OBVIOUS
  <2>1. s[i].op = "restart" /\ r[i] = [s[i] EXCEPT !.at = "raise"] BY <1>1, <1>3 DEF Leaves
  <2>2. r[i].op = "restart" BY <1>3, <2>1 DEF Frame
  <2> QED BY <2>2
<1>5. i + 1 = Len(s) /\ s[i + 1].op = "close" /\ Peer(s[i + 1].app, s[i].app)
  BY <1>3, <1>4, ShowAbove
<1>6. CASE p # App(t)
  <2>1. ~Settled(p) BY <1>1, <1>3, <1>4, <1>5, <1>6 DEF Rivals
  <2> QED BY <1>2, <2>1
<1>7. CASE p = App(t)
  <2>1. Top(t).op = "close" BY <1>1, <1>5
  <2>2. Group[p] # NoGroup BY DEF Peer
  <2>3. ~At(t, "next") BY <1>1, <2>1 DEF At, FrameOK, PassOps
  <2>4. p \notin onScreen \ astray BY <1>1, <1>7, <2>1, <2>2, <2>3 DEF ClosedInv, At
  <2> QED BY <1>2, <2>4 DEF Settled
<1> QED BY <1>6, <1>7

\* The peers that a new show leaves out are not registered.
LEMMA NewShowRivals ==
    ASSUME IInv, NEW a \in registered
    PROVE  \A q \in registered : (Peer(q, Call("show", a).app) /\ q \notin Call("show", a).todo) => ~Settled(q)
<1>1. registered \subseteq Apps BY DEF IInv, DataInv
<1>2. Call("show", a).app = a /\ Call("show", a).todo = Peers(a) BY <1>1, CallFits DEF AppOps
<1> QED BY <1>1, <1>2 DEF Peer, Peers

\* A step of a caller in which nothing settles.
LEMMA RivalsStep ==
    ASSUME GroupsKept, IInv, CallsInv, ClosedInv, ScreenInv, NEW t \in Threads, Step(t), Calmer,
           registered' = registered, Rivals(stack[t])
    PROVE  Rivals(stack[t])'
<1>1. registered \subseteq Apps BY DEF IInv, DataInv
<1> USE <1>1
<1>2. CASE Proceeds(t)
  <2>1. PICK step \in Steps :
          /\ stack[t] # <<>> /\ Becomes(t, [Top(t) EXCEPT !.at = step])
          /\ Top(t)'.op = Top(t).op /\ App(t)' = App(t) /\ Top(t)'.todo = Top(t).todo
    BY <1>2, ProceedsEffect
  <2> DEFINE f == [Top(t) EXCEPT !.at = step]
  <2>2. Top(t)' = f BY <2>1 DEF Becomes
  <2>3. f.op = Top(t).op /\ f.app = App(t) /\ f.todo = Top(t).todo BY <2>1, <2>2 DEF App
  <2>4. Becomes(t, f) BY <2>1
  <2> HIDE DEF f
  <2> QED BY <2>1, <2>3, <2>4, RivalsBecome
<1>3. CASE Enter(t)
  <2>1. /\ stack[t] # <<>> /\ Becomes(t, Entered(t)) /\ Entered(t).op = Top(t).op
        /\ Entered(t).app = App(t) /\ Entered(t).todo = Top(t).todo
    BY <1>3, EnterBecomes
  <2> QED BY <2>1, RivalsBecome
<1>4. CASE ClosePeer(t)
  <2>1. stack[t] # <<>> /\ Top(t).op = "show" BY <1>4, ClosePeerCalls
  <2>2. PICK p \in Top(t).todo, f \in Frame :
          /\ f.op = "show" /\ f.app = App(t) /\ f.todo = Top(t).todo \ {p}
          /\ Peer(p, App(t)) /\ p \in registered
          /\ \/ p \in running /\ MakesCall(t, f, Call("close", p))
             \/ p \notin running /\ Becomes(t, f)
    BY <1>4, ClosePeerCalls
  <2>3. Call("close", p).op = "close" /\ Call("close", p).app = p BY <1>1, <2>2, CallFits DEF AppOps
  <2>4. CASE MakesCall(t, f, Call("close", p)) BY <2>1, <2>2, <2>3, <2>4, RivalsCall
  <2>5. CASE p \notin running /\ Becomes(t, f)
    <3>1. ~Settled(p) BY <2>5 DEF Settled, ScreenInv
    <3> QED BY <2>1, <2>2, <2>5, <3>1, RivalsBecome
  <2> QED BY <2>2, <2>4, <2>5
<1>5. CASE NextApp(t)
  <2>1. stack[t] # <<>> /\ Top(t).op \in {"stopAll", "preload"} BY <1>5, NextAppCalls DEF PassOps
  <2>2. PICK a \in Top(t).todo, f \in Frame :
          /\ f.op = Top(t).op /\ a \in registered
          /\ \/ Becomes(t, f) \/ MakesCall(t, f, Call("prewarm", a)) \/ MakesCall(t, f, Call("show", a))
    BY <1>5, NextAppCalls
  <2>3. Call("prewarm", a).op = "prewarm" BY <1>1, <2>2, CallFits DEF AppOps
  <2>4. CASE Becomes(t, f) BY <2>1, <2>2, <2>4, RivalsBecome
  <2>5. CASE MakesCall(t, f, Call("prewarm", a)) BY <2>1, <2>2, <2>3, <2>5, RivalsCall
  <2>6. CASE MakesCall(t, f, Call("show", a)) BY <2>1, <2>2, <2>6, NewShowRivals, RivalsCall
  <2> QED BY <2>2, <2>4, <2>5, <2>6
<1>6. CASE Discard(t)
  <2>1. stack[t] # <<>> /\ Top(t).op = "stopAll" BY <1>6, DiscardBecomes
  <2>2. PICK f \in Frame : Becomes(t, f) /\ f.op = "stopAll" BY <1>6, DiscardBecomes
  <2> QED BY <2>1, <2>2, RivalsBecome
<1>7. CASE RestartShows(t)
  <2>1. stack[t] # <<>> /\ Top(t).op = "restart" /\ Top(t).at = "show" BY <1>7, RestartCalls
  <2>2. PICK f \in Frame : MakesCall(t, f, Call("show", App(t))) /\ f.op = "restart"
    BY <1>7, RestartCalls
  <2>3. App(t) \in registered BY <2>1, Inside DEF FrameOK
  <2> QED BY <2>1, <2>2, <2>3, NewShowRivals, RivalsCall
<1>8. CASE Return(t) \/ PassDone(t) \/ Unwind(t) BY <1>8, RivalsLeave
<1> QED BY <1>2, <1>3, <1>4, <1>5, <1>6, <1>7, <1>8 DEF Step, Proceeds

\* Where nothing settles, no two peers settle together.
LEMMA RivalsCalm ==
    ASSUME IInv, RivalInv, Calmer, registered' = registered, visible' \subseteq registered,
           \A t \in Callers : \/ stack'[t] = stack[t]
                              \/ Rivals(stack[t])'
    PROVE  RivalInv'
<1>0. registered \subseteq Apps BY DEF IInv, DataInv
<1>1. ASSUME NEW t \in Callers PROVE Rivals(stack[t])'
  <2>1. CASE stack'[t] = stack[t]
    <3>1. \A p \in registered : Group[p] # NoGroup /\ ~Settled(p) => ~Settled(p)' BY <1>0 DEF Calmer
    <3>2. Rivals(stack[t]) BY DEF RivalInv
    <3> QED BY <2>1, <3>1, <3>2 DEF Rivals, Peer
  <2> QED BY <2>1
<1>2. ASSUME NEW a \in visible', NEW b \in registered', Peer(a, b) PROVE ~(Settled(a)' /\ Settled(b)')
  <2>1. a \in Apps /\ b \in Apps /\ b \in registered /\ Group[a] # NoGroup /\ Group[b] # NoGroup
    BY <1>0, <1>2 DEF Peer
  <2>2. a \in visible BY <1>2, <2>1 DEF Calmer
  <2>3. ~(Settled(a) /\ Settled(b)) BY <1>2, <2>1, <2>2 DEF RivalInv
  <2> QED BY <2>1, <2>3 DEF Calmer
<1> QED BY <1>1, <1>2 DEF RivalInv

\* A show ends with its application settled and visible, its peers dealt with before.
LEMMA RivalsSettle ==
    ASSUME OneCaller, GroupsKept, IInv, CallsInv, RivalInv,
           NEW t \in Threads, Step(t), ~Calmer, registered' = registered, visible' \subseteq registered
    PROVE  RivalInv'
<1>0. registered \subseteq Apps BY DEF IInv, DataInv
<1>1. PICK p \in Apps : Group[p] # NoGroup /\ ((Settled(p)' /\ ~Settled(p)) \/ p \in visible' \ visible)
  BY DEF Calmer
<1>2. /\ Proceeds(t) /\ t \in Callers /\ stack[t] # <<>> /\ Top(t).op = "show"
      /\ Top(t).at \in {"present", "launch", "mark"} /\ App(t) = p
  BY <1>1, SettledGrows
<1>3. \A q \in Apps : (Group[q] # NoGroup /\ q # p)
         => (Settled(q)' => Settled(q)) /\ (q \in visible' => q \in visible)
  BY <1>2, SettledGrows
<1> DEFINE s == stack[t]
           r == stack'[t]
<1>4. PICK step \in Steps :
        /\ Becomes(t, [Top(t) EXCEPT !.at = step])
        /\ Top(t)'.op = Top(t).op /\ App(t)' = App(t) /\ Top(t)'.todo = Top(t).todo
  BY <1>2, ProceedsEffect
<1>5. /\ Len(s) \in Nat /\ Len(s) \in 1..Len(s) /\ Top(t) = s[Len(s)] /\ App(t) = Top(t).app
      /\ Len(r) = Len(s) /\ Fit(Top(t))
      /\ r[Len(s)] = Top(t)' /\ \A i \in 1..Len(s) : i # Len(s) => r[i] = s[i]
  BY <1>2, <1>4, Inside, TopFits DEF Becomes
<1>6. ASSUME NEW q \in registered, Peer(q, p) PROVE ~Settled(q)'
  <2>1. Top(t).todo = {} BY <1>2, <1>5 DEF Fit
  <2>2. Rivals(s) BY <1>2 DEF RivalInv
  <2>3. ~Settled(q) BY <1>2, <1>5, <1>6, <2>1, <2>2 DEF Rivals
  <2> QED BY <1>0, <1>3, <1>6, <2>3 DEF Peer
<1>7. ASSUME NEW a \in visible', NEW b \in registered', Peer(a, b) PROVE ~(Settled(a)' /\ Settled(b)')
  <2>0. a \in registered /\ b \in registered /\ Group[a] # NoGroup /\ Group[b] # NoGroup
    BY <1>7 DEF Peer
  <2>1. CASE a = p BY <1>6, <1>7, <2>0, <2>1 DEF Peer
  <2>2. CASE b = p BY <1>6, <1>7, <2>0, <2>2
  <2>3. CASE a # p /\ b # p
    <3>1. a \in visible BY <1>0, <1>3, <1>7, <2>0, <2>3
    <3>2. ~(Settled(a) /\ Settled(b)) BY <1>7, <2>0, <3>1 DEF RivalInv
    <3> QED BY <1>0, <1>3, <2>0, <2>3, <3>2
  <2> QED BY <2>1, <2>2, <2>3
<1>8. ASSUME NEW c \in Callers PROVE Rivals(stack[c])'
  <2>1. c = t BY <1>2 DEF OneCaller
  <2> SUFFICES ASSUME NEW i \in 1..Len(r), NEW q \in registered, r[i].op = "show", Peer(q, r[i].app)
               PROVE  ~Settled(q)'
    BY <2>1 DEF Rivals
  <2>2. i = Len(s)
    <3> SUFFICES ASSUME i # Len(s) PROVE FALSE OBVIOUS
    <3>1. i \in 1..Len(s) /\ i < Len(s) /\ r[i] = s[i] BY <1>5
    <3>2. i + 1 = Len(s) /\ s[i + 1].op = "close" BY <1>2, <3>1, ShowAbove
    <3> QED BY <1>2, <1>5, <3>2
  <2>3. r[i].app = p BY <1>2, <1>4, <1>5, <2>2 DEF App
  <2> QED BY <1>6, <2>3
<1> QED BY <1>7, <1>8 DEF RivalInv

\* No step brings two applications of a group together.
LEMMA RivalsKept ==
    ASSUME OneCaller, GroupsKept
    PROVE  IInv /\ CallsInv /\ ScreenInv /\ ClosedInv /\ RivalInv /\ [Next]_vars => RivalInv'
<1> SUFFICES ASSUME IInv, CallsInv, ScreenInv, ClosedInv, RivalInv, [Next]_vars PROVE RivalInv'
  OBVIOUS
<1>0. /\ visible' \subseteq registered' /\ registered \subseteq Apps
      /\ stack \in [Threads -> Seq(Frame)]
  BY NextIInv DEF IInv, DataInv, StackInv
<1>1. ASSUME NEW t \in Threads, Step(t) PROVE RivalInv'
  <2>0. registered' = registered
    BY <1>1 DEF Step, ClosePeer, PeersClosed, Enter, Present, Launch, Stop, Hide, CloseBrowser,
                Prepare, Mark, Unmark, RestartShows, Return, Unwind, NextApp, Discard, PassDone
  <2>1. CASE ~Calmer BY <1>0, <1>1, <2>0, <2>1, RivalsSettle
  <2>2. CASE Calmer
    <3>1. Others(t)
      <4>1. Proceeds(t) => Others(t) BY ProceedsEffect DEF Becomes
      <4> QED BY <1>1, <4>1, MovesEffect DEF Step, Proceeds, Moves
    <3>2. ASSUME NEW c \in Callers PROVE stack'[c] = stack[c] \/ Rivals(stack[c])'
      <4>1. CASE c = t
        <5>1. Rivals(stack[t]) BY <3>2, <4>1 DEF RivalInv
        <5> QED BY <1>1, <2>0, <2>2, <4>1, <5>1, RivalsStep
      <4>2. CASE c # t BY <3>1, <4>2 DEF Others, Threads
      <4> QED BY <4>1, <4>2
    <3> QED BY <1>0, <2>0, <2>2, <3>2, RivalsCalm
  <2> QED BY <2>1, <2>2
<1>2. ASSUME NEW a \in Apps, Register(a) PROVE RivalInv'
  <2>1. visible' = {} /\ \A c \in Callers : stack'[c] = <<>> BY <1>2 DEF Register, Threads
  <2>2. Len(<<>>) = 0 OBVIOUS
  <2> QED BY <2>1, <2>2 DEF RivalInv, Rivals
<1>3. ASSUME Requests, \A a \in Apps : ~Register(a) PROVE RivalInv'
  <2>0. registered' = registered BY <1>3 DEF Requests, Request, StopAll, StartBackgroundApps
  <2>1. visible' = visible /\ onScreen' = onScreen /\ astray' = astray
    BY <1>3, RequestsEffect DEF launcherVars
  <2>2. Calmer
    <3>1. \A q \in Apps : Warming(q) => Warming(q)'
      <4>1. CASE stack' = stack BY <4>1 DEF Warming, At, App, Top
      <4>2. CASE stack' # stack
        <5>1. PICK t \in Threads : stack[t] = <<>> /\ Others(t) BY <1>3, <4>2, RequestsEffect
        <5>2. CASE t = Preloader BY <5>1, <5>2 DEF Warming, At
        <5>3. CASE t # Preloader BY <5>1, <5>3, OthersStay DEF Warming, Threads
        <5> QED BY <5>2, <5>3
      <4> QED BY <4>1, <4>2
    <3> QED BY <2>1, <3>1 DEF Calmer, Settled
  <2>3. ASSUME NEW c \in Callers PROVE stack'[c] = stack[c] \/ Rivals(stack[c])'
    <3>1. c \in Threads /\ c # Preloader BY ThreadsAssumption DEF Threads
    <3>2. ASSUME NEW f, stack'[c] = <<f>>,
                 f.op = "show" => \A q \in registered : (Peer(q, f.app) /\ q \notin f.todo) => ~Settled(q)
          PROVE  Rivals(stack[c])'
      <4>1. Len(stack'[c]) = 1 /\ stack'[c][1] = f BY <3>2
      <4>2. \A q \in registered : Group[q] # NoGroup /\ ~Settled(q) => ~Settled(q)'
        BY <1>0, <2>2 DEF Calmer
      <4> QED BY <2>0, <3>2, <4>1, <4>2 DEF Rivals, Peer
    <3>3. ASSUME NEW t \in Callers, NEW a \in Apps, NEW op \in AppOps \ {"prewarm"}, Request(t, op, a)
          PROVE  stack'[c] = stack[c] \/ Rivals(stack[c])'
      <4>1. a \in registered /\ stack' = [stack EXCEPT ![t] = <<Call(op, a)>>]
        BY <3>3 DEF Request
      <4>2. op = "show" => \A q \in registered : (/\ Peer(q, Call(op, a).app)
                                                 /\ q \notin Call(op, a).todo) => ~Settled(q)
        BY <4>1, NewShowRivals
      <4>3. Call(op, a).op = op BY DEF Call
      <4>4. t # c => stack'[c] = stack[c] BY <1>0, <3>1, <4>1
      <4>5. t = c => stack'[c] = <<Call(op, a)>> BY <1>0, <3>1, <4>1
      <4> QED BY <3>2, <4>2, <4>3, <4>4, <4>5
    <3>4. ASSUME NEW t \in Threads, NEW op \in PassOps, stack' = [stack EXCEPT ![t] = <<Pass(op)>>]
          PROVE  stack'[c] = stack[c] \/ Rivals(stack[c])'
      <4>1. Pass(op).op # "show" BY DEF Pass, PassOps
      <4> QED BY <1>0, <3>1, <3>2, <3>4, <4>1
    <3> QED BY <1>3, <3>3, <3>4 DEF Requests, StopAll, StartBackgroundApps, PassOps, Threads
  <2> QED BY <1>0, <2>0, <2>2, <2>3, RivalsCalm
<1>4. CASE (\E a \in Apps : AppExits(a) \/ WindowCloses(a)) \/ UNCHANGED vars
  <2>1. stack' = stack /\ visible' = visible /\ registered' = registered
    BY <1>4 DEF AppExits, WindowCloses, vars
  <2>2. onScreen' \ astray' \subseteq onScreen \ astray
    BY <1>4 DEF AppExits, WindowCloses, Quits, vars, launcherVars
  <2>3. Calmer BY <2>1, <2>2 DEF Calmer, Settled, Warming, At, App, Top
  <2> QED BY <1>0, <2>1, <2>3, RivalsCalm
<1> QED BY <1>1, <1>2, <1>3, <1>4 DEF Next

\* Between lifecycle actions, while an application of an exclusive group is
\* shown no other of the group has its window on the screen, but for what a
\* failing launcher has left there: for any groups, policies and number of
\* applications, launchers that raise or refuse included, with the preload
\* worker beside one caller.
THEOREM GroupsExclusive ==
    ASSUME OneCaller, GroupsKept
    PROVE  Spec => []ExclusiveShown
<1>1. Init => ClosedInv /\ RivalInv
  <2> SUFFICES ASSUME Init PROVE ClosedInv /\ RivalInv OBVIOUS
  <2>1. visible = {} /\ \A t \in Threads : stack[t] = <<>> BY DEF Init
  <2>2. Len(<<>>) = 0 OBVIOUS
  <2> QED BY <2>1, <2>2 DEF ClosedInv, RivalInv, Rivals, Threads
<1>2. IInv /\ CallsInv /\ ClosedInv /\ [Next]_vars => ClosedInv' BY ClosedKept
<1>3. IInv /\ CallsInv /\ ScreenInv /\ ClosedInv /\ RivalInv /\ [Next]_vars => RivalInv'
  BY RivalsKept
<1>4. IInv /\ RivalInv => ExclusiveShown
  <2> SUFFICES ASSUME IInv, RivalInv, NEW a \in (visible \cap onScreen) \ astray,
                      NEW b \in (registered \cap onScreen) \ astray,
                      a # b, Group[a] # NoGroup, Group[a] = Group[b]
               PROVE  owner[a] # NoThread \/ owner[b] # NoThread
    BY DEF ExclusiveShown
  <2>1. Peer(a, b) BY DEF Peer
  <2>2. Warming(a) \/ Warming(b) BY <2>1 DEF RivalInv, Settled
  <2>3. Preloader \in Threads /\ stack[Preloader] # <<>> /\ Top(Preloader).at \in HeldSteps
    BY <2>2 DEF Warming, At, Threads, HeldSteps, LockedSteps, LauncherSteps
  <2>4. owner[App(Preloader)] = Preloader BY <2>3, Inside
  <2> QED BY <2>2, <2>3, <2>4, ThreadsAssumption DEF Warming
<1> QED BY <1>1, <1>2, <1>3, <1>4, Inductive, CallsNested, VisibleAccounted, PTL DEF Spec

-----------------------------------------------------------------------------
(* What is left when the runtime has closed, with one caller.              *)

\* After the end of the runtime the caller is in stop_all, and every lazy
\* application that runs, but one whose stop has failed, it still has to stop.
ShutInv ==
    closed =>
        /\ \A c \in Callers : stack[c] # <<>> => Top(c).op = "stopAll"
        /\ \A a \in (running \cap registered) \ astray : Startup[a] = "lazy" =>
              \E c \in Callers : /\ stack[c] # <<>>
                                 /\ a \in Top(c).todo \/ (App(c) = a /\ Top(c).at \in {"enter", "stop"})

\* The preload worker calls show and prewarm, and the closes of show.
LEMMA WorkerCalls ==
    ASSUME IInv, CallsInv, stack[Preloader] # <<>>
    PROVE  Top(Preloader).op \in {"preload", "show", "prewarm", "close"}
<1> DEFINE s == stack[Preloader]
           n == Len(s)
<1>1. /\ n \in Nat /\ n > 0 /\ n \in 1..n /\ Top(Preloader) = s[n] /\ Nested(s)
      /\ Begun(s, Preloader)
  BY Inside DEF CallsInv, Threads
<1>2. CASE n = 1 BY <1>1, <1>2 DEF Begun
<1>3. CASE n # 1
  <2> HIDE DEF n
  <2>1. n - 1 \in 1..n /\ n - 1 < n /\ n - 1 + 1 = n BY <1>1, <1>3
  <2>2. Calls(s[n - 1], s[n]) BY <1>1, <2>1 DEF Nested, n
  <2> QED BY <1>1, <2>2 DEF Calls
<1> QED BY <1>2, <1>3

\* The preload worker starts no lazy application and hides none, before or after.
LEMMA ShutPreloader ==
    ASSUME IInv, CallsInv, ShutInv, closed, Step(Preloader)
    PROVE  ShutInv'
<1>1. Preloader \in Threads BY DEF Threads
<1>2. /\ Others(Preloader) /\ closed' = closed /\ registered' = registered
      /\ \A a \in (running' \ astray') \ (running \ astray) : Startup[a] # "lazy"
  <2>1. CASE Moves(Preloader) BY <1>1, <2>1, MovesEffect DEF launcherVars
  <2>2. CASE Proceeds(Preloader)
    <3>1. PICK step \in Steps :
            /\ stack[Preloader] # <<>> /\ Effect(Preloader, step)
            /\ Becomes(Preloader, [Top(Preloader) EXCEPT !.at = step])
      BY <1>1, <2>2, ProceedsEffect
    <3>2. closed' = closed /\ registered' = registered
      BY <2>2 DEF Proceeds, PeersClosed, Present, Launch, Stop, Hide, CloseBrowser, Prepare, Mark, Unmark
    <3>3. ASSUME NEW a \in (running' \ astray') \ (running \ astray) PROVE Startup[a] # "lazy"
      <4>1. \/ Shows(Preloader, step) \/ HalfShows(Preloader, step)
            \/ Hides(Preloader, step) \/ Prepares(Preloader, step)
        <5>1. ~(Quiet(Preloader, step) \/ Marks(Preloader, step) \/ Unmarks(Preloader, step))
          BY <3>3 DEF Quiet, Marks, Unmarks, launcherVars
        <5>2. ~(Ends(Preloader, step) \/ Missed(Preloader, step)) BY <3>3 DEF Ends, Missed, Quits
        <5> QED BY <3>1, <5>1, <5>2 DEF Effect
      <4>2. App(Preloader) = a
        BY <3>3, <4>1 DEF Shows, HalfShows, Hides, Prepares, Opens, Covers
      <4>3. Fit(Top(Preloader)) /\ App(Preloader) = Top(Preloader).app
        BY <1>1, <3>1, TopFits, Inside
      <4>4. CASE ~Hides(Preloader, step)
        <5>1. Top(Preloader).at \in {"present", "launch", "prepare"}
          BY <4>1, <4>4 DEF Shows, HalfShows, Prepares
        <5>2. Top(Preloader).op \in {"show", "prewarm"} BY <4>3, <5>1 DEF Fit
        <5> QED BY <1>1, <3>1, <4>2, <5>2, WhoStarts
      <4>5. CASE Hides(Preloader, step)
        <5>1. Top(Preloader).at \in {"hide", "closeBrowser"} BY <4>5 DEF Hides
        <5>2. Top(Preloader).op \in {"prewarm", "close"} BY <3>1, <4>3, <5>1, WorkerCalls DEF Fit
        <5>3. CASE Top(Preloader).op = "prewarm" BY <1>1, <3>1, <4>2, <5>3, WhoStarts
        <5>4. CASE Top(Preloader).op = "close" BY <4>2, <4>3, <5>1, <5>4 DEF Fit
        <5> QED BY <5>2, <5>3, <5>4
      <4> QED BY <4>4, <4>5
    <3> QED BY <3>1, <3>2, <3>3 DEF Becomes
  <2> QED BY <2>1, <2>2 DEF Step, Proceeds, Moves
<1>3. \A c \in Callers : c \in Threads /\ c # Preloader BY ThreadsAssumption DEF Threads
<1>4. \A c \in Callers : stack'[c] = stack[c] /\ Top(c)' = Top(c) /\ App(c)' = App(c)
  BY <1>1, <1>2, <1>3, OthersStay DEF Others
<1>5. ASSUME NEW a \in (running' \cap registered') \ astray', Startup[a] = "lazy"
      PROVE  \E c \in Callers : /\ stack[c] # <<>>
                                /\ a \in Top(c).todo \/ (App(c) = a /\ Top(c).at \in {"enter", "stop"})
  BY <1>2, <1>5 DEF ShutInv
<1> QED BY <1>2, <1>4, <1>5 DEF ShutInv

\* stop_all stops every application of its snapshot before it ends.
LEMMA ShutCaller ==
    ASSUME OneCaller, IInv, CallsInv, ShutInv, closed, NEW t \in Callers, Step(t)
    PROVE  ShutInv'
<1>1. t \in Threads BY DEF Threads
<1>2. stack[t] # <<>> /\ closed' = closed /\ registered' = registered
  <2>1. Proceeds(t) => stack[t] # <<>> /\ closed' = closed /\ registered' = registered
    BY <1>1, ProceedsFollows
       DEF Proceeds, PeersClosed, Present, Launch, Stop, Hide, CloseBrowser, Prepare, Mark, Unmark
  <2> QED BY <1>1, <2>1, MovesEffect DEF Step, Proceeds, Moves
<1>3. /\ Top(t).op = "stopAll" /\ FrameOK(Top(t), registered)
      /\ Top(t).at \in {"next", "enter", "stop", "discard"} /\ App(t) = Top(t).app
  BY <1>1, <1>2, Inside DEF ShutInv, FrameOK
<1>4. \A c \in Callers : c = t BY DEF OneCaller
<1>5. \A a \in (running \cap registered) \ astray : Startup[a] = "lazy" =>
         a \in Top(t).todo \/ (App(t) = a /\ Top(t).at \in {"enter", "stop"})
  BY <1>2, <1>4 DEF ShutInv
<1> SUFFICES
       /\ stack'[t] # <<>> => Top(t)'.op = "stopAll"
       /\ \A a \in (running' \cap registered) \ astray' : Startup[a] = "lazy" =>
             /\ stack'[t] # <<>>
             /\ a \in Top(t)'.todo \/ (App(t)' = a /\ Top(t)'.at \in {"enter", "stop"})
  BY <1>2, <1>4 DEF ShutInv
<1>6. CASE Enter(t)
  <2>1. /\ Becomes(t, Entered(t)) /\ Entered(t).op = Top(t).op /\ Entered(t).app = App(t)
        /\ Entered(t).todo = Top(t).todo /\ Entered(t).at = FirstStep(Top(t))
    BY <1>1, <1>6, EnterBecomes
  <2>2. FirstStep(Top(t)) = "stop" BY <1>3 DEF FirstStep
  <2>3. running' = running /\ astray' = astray /\ Top(t).at = "enter"
    BY <1>6 DEF Enter, At, launcherVars
  <2> QED BY <1>3, <1>5, <2>1, <2>2, <2>3 DEF Becomes, App
<1>7. CASE Proceeds(t)
  <2>1. PICK step \in Steps :
          /\ Follows(Top(t), step) /\ Effect(t, step) /\ stack'[t] # <<>> /\ Top(t)'.at = step
          /\ Top(t)'.op = Top(t).op /\ App(t)' = App(t) /\ Top(t)'.todo = Top(t).todo
    BY <1>1, <1>7, ProceedsEffect
  <2>2. Top(t).at = "stop" BY <1>3, <2>1 DEF Follows, LauncherSteps
  <2>3. Ends(t, step) \/ Missed(t, step)
    BY <2>1, <2>2 DEF Effect, Quiet, Shows, HalfShows, Hides, Prepares, Marks, Unmarks
  <2>4. \A a \in running' \ astray' : a \in running \ astray /\ a # App(t)
    BY <2>3 DEF Ends, Missed, Quits
  <2> QED BY <1>3, <1>5, <2>1, <2>4
<1>8. CASE NextApp(t)
  <2>1. PICK a \in Top(t).todo, f \in Frame :
          /\ f.op = "stopAll" /\ f.app = a /\ f.todo = Top(t).todo \ {a} /\ f.at = "enter"
          /\ Becomes(t, f)
    BY <1>1, <1>3, <1>8, NextAppCalls
  <2>2. running' = running /\ astray' = astray /\ Top(t).at = "next"
    BY <1>8 DEF NextApp, At, launcherVars
  <2> QED BY <1>5, <2>1, <2>2 DEF Becomes, App
<1>9. CASE Discard(t)
  <2>1. PICK f \in Frame : Becomes(t, f) /\ f.op = "stopAll" /\ f.todo = Top(t).todo
    BY <1>1, <1>9, DiscardBecomes
  <2>2. running' = running /\ astray' = astray /\ Top(t).at = "discard"
    BY <1>9 DEF Discard, At, launcherVars
  <2> QED BY <1>5, <2>1, <2>2 DEF Becomes
<1>10. CASE PassDone(t)
  <2>1. Top(t).at = "next" /\ Top(t).todo = {} /\ running' = running /\ astray' = astray
    BY <1>10 DEF PassDone, At, launcherVars
  <2>2. stack'[t] = <<>>
    <3>1. Len(stack[t]) = 1 BY <1>1, <1>2, <1>3, PassAtBottom DEF PassOps
    <3>2. Leaves(t) BY <1>1, <1>10, PopLeaves
    <3>3. stack'[t] \in Seq(Frame) /\ Len(stack'[t]) = 0 BY <3>1, <3>2 DEF Leaves
    <3> QED BY <3>3, EmptySeq
  <2> QED BY <1>5, <2>1, <2>2
<1> QED
  BY <1>3, <1>6, <1>7, <1>8, <1>9, <1>10
     DEF Step, Proceeds, ClosePeer, RestartShows, Return, Unwind, At

\* The end of the runtime, step by step.
LEMMA ShutKept ==
    ASSUME OneCaller
    PROVE  IInv /\ CallsInv /\ ShutInv /\ [Next]_vars => ShutInv'
<1> SUFFICES ASSUME IInv, CallsInv, ShutInv, [Next]_vars PROVE ShutInv' OBVIOUS
<1>1. ASSUME NEW t \in Threads, Step(t) PROVE ShutInv'
  <2>1. CASE closed BY <1>1, <2>1, ShutPreloader, ShutCaller DEF Threads
  <2>2. CASE ~closed
    <3>1. ~closed'
      BY <1>1, <2>2 DEF Step, ClosePeer, PeersClosed, Enter, Present, Launch, Stop, Hide, CloseBrowser,
                        Prepare, Mark, Unmark, RestartShows, Return, Unwind, NextApp, Discard, PassDone
    <3> QED BY <3>1 DEF ShutInv
  <2> QED BY <2>1, <2>2
<1>2. CASE Requests
  <2>1. CASE ~closed' BY <2>1 DEF ShutInv
  <2>2. CASE closed'
    <3>1. PICK t \in Callers : StopAll(t)
      BY <1>2, <2>2 DEF Requests, Register, Request, StartBackgroundApps
    <3>2. /\ stack \in [Threads -> Seq(Frame)] /\ t \in Threads
          /\ stack' = [stack EXCEPT ![t] = <<Pass("stopAll")>>]
          /\ registered' = registered
      BY <3>1 DEF StopAll, IInv, StackInv, Threads
    <3>3. stack'[t] = <<Pass("stopAll")>> /\ Len(stack'[t]) = 1 BY <3>2
    <3>4. stack'[t] # <<>> /\ Top(t)' = Pass("stopAll") BY <3>3 DEF Top
    <3>5. Pass("stopAll").op = "stopAll" /\ Pass("stopAll").todo = registered BY DEF Pass
    <3>6. \A c \in Callers : c = t BY DEF OneCaller
    <3> QED BY <3>2, <3>4, <3>5, <3>6 DEF ShutInv
  <2> QED BY <2>1, <2>2
<1>3. CASE (\E a \in Apps : AppExits(a) \/ WindowCloses(a)) \/ UNCHANGED vars
  <2>1. /\ stack' = stack /\ running' \ astray' \subseteq running \ astray /\ closed' = closed
        /\ registered' = registered
    BY <1>3 DEF AppExits, WindowCloses, Quits, vars, launcherVars
  <2> QED BY <2>1 DEF ShutInv, App, Top
<1> QED BY <1>1, <1>2, <1>3 DEF Next

\* When the closed runtime has come to rest no application that is started on
\* demand runs, survivors of an earlier run and half started ones included,
\* but for those whose stop has failed: for any applications, policies and
\* launchers, with the preload worker beside one caller.
THEOREM NothingLeftRunning ==
    ASSUME OneCaller
    PROVE  Spec => []ShutdownStopsApps
<1>1. Init => ShutInv BY DEF Init, ShutInv
<1>2. IInv /\ CallsInv /\ ShutInv /\ [Next]_vars => ShutInv' BY ShutKept
<1>3. ShutInv => ShutdownStopsApps
  BY DEF ShutInv, ShutdownStopsApps, Threads
<1> QED BY <1>1, <1>2, <1>3, Inductive, CallsNested, PTL DEF Spec
=============================================================================
