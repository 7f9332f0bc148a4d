--------------------------- MODULE ContextProofs ----------------------------
(***************************************************************************)
(* The inductive invariant of Context, that it holds at the start and that *)
(* every step keeps it, and what follows from it, for any number of        *)
(* processes, stacks and nested interrupts.                                *)
(***************************************************************************)
EXTENDS Context, SequenceTheorems, TLAPS

\* What a register of the model can hold.
Words ==
    {Zero, Junk} \cup Results
    \cup {file[r] : file \in UNION {Files[p] : p \in Users}, r \in Regs}
    \cup {<<"local", p, d>> : p \in Procs, d \in Nat}

TrapFrame == [kind : {"irq", "tail", "call"}, ring : {0, 3}, regs : [Regs -> Words]]
StartFrame == [kind : {"iret"}, ring : {3},
               regs : [{"rsp"} -> Words] \cup [{"rax", "rsp"} -> Words]]
FrameSet == TrapFrame \cup StartFrame
CpuSet == [regs : [CpuRegs -> Words], on : Stacks \cup {BootStack},
           resume : {"none", "entry", "ring0", "ring3"}]

TypeOK ==
    /\ current \in Procs /\ ring \in {0, 3} /\ iflag \in BOOLEAN /\ isr0 \in BOOLEAN
    /\ live \in [Regs -> Words] /\ on \in Stacks /\ tss0 \in Stacks \cup {BootStack}
    /\ life \in [Procs -> {"none", "ready", "dead", "gone"}]
    /\ stack \in [Procs -> Stacks \cup {BootStack}]
    /\ frames \in [Stacks -> Seq(FrameSet)]
    /\ cpu \in [Procs -> CpuSet]
    /\ user_esp \in [Procs -> Words]

Local(p, d, regs) == \A r \in CalleeSaved : regs[r] = <<"local", p, d>>

\* The i-th frame of p: of an interrupt in the kernel, or the way back to ring 3.
Shaped(p, i, fs) ==
    \/ /\ fs[i].kind \in {"irq", "tail"} /\ fs[i].ring = 0 /\ (i > 1 \/ p \in Threads)
       /\ Local(p, i - 1, fs[i].regs) \/ (i = 2 /\ fs[1].kind = "iret")
    \/ i = 1 /\ p \in Users /\ fs[1].ring = 3
ShapedStack(p, fs) == \A i \in 1 .. Len(fs) : Shaped(p, i, fs)

\* How a process that does not run will go on.
Waits(p, s, fs, c) ==
    /\ c.on = s
    /\ p \in Users => fs # <<>>
    /\ IF Len(fs) = 1 /\ fs[1].kind = "iret"
       THEN c.resume = IF "rax" \in DOMAIN fs[1].regs THEN "ring0" ELSE "ring3"
       ELSE \/ c.resume = "entry" /\ Len(fs) = 0
            \/ c.resume = "ring0" /\ Local(p, Len(fs), c.regs)

\* In a system call user_esp is the caller's stack, and who is dead is in a call.
Called(fs) == fs # <<>> /\ fs[1].kind = "call"
Noted(l, fs, esp) ==
    /\ Called(fs) => esp = fs[1].regs["rsp"]
    /\ l = "dead" => Called(fs)

CurrentInv ==
    /\ current \in Existing
    /\ on = stack[current]
    /\ current \in Users => tss0 = stack[current]
    /\ ring = 3 => current \in Users /\ life[current] = "ready" /\ frames[on] = <<>>
    /\ ring = 0 /\ current \in Users => frames[on] # <<>>
StackInv ==
    /\ \A p \in Existing : stack[p] \in Stacks
    /\ \A p, q \in Existing : p # q => stack[p] # stack[q]
FramesInv == \A p \in Existing : ShapedStack(p, frames[stack[p]])
AwayInv == \A p \in Procs \ {current} : life[p] = "ready" => Waits(p, stack[p], frames[stack[p]], cpu[p])
CallInv == \A p \in Existing : Noted(life[p], frames[stack[p]], user_esp[p])

IInv ==
    TypeOK /\ CurrentInv /\ StackInv /\ FramesInv /\ AwayInv /\ CallInv /\ LocalsAreKept
-----------------------------------------------------------------------------
\* What registers hold.
LEMMA WordsFacts ==
    /\ Zero \in Words /\ Junk \in Words /\ Results \subseteq Words
    /\ \A p \in Users : \A file \in Files[p] : file \in [Regs -> Words]
    /\ \A p \in Procs, d \in Nat : Kernel(p, d) \in [Regs -> Words] /\ Local(p, d, Kernel(p, d))
<1>1. \A p \in Users : \A file \in Files[p] : file \in [Regs -> Words]
  <2> TAKE p \in Users
  <2> TAKE file \in Files[p]
  <2>1. file = [r \in Regs |-> file[r]]
    BY ContextConstants
  <2>2. \A r \in Regs : file[r] \in Words
    BY DEF Words
  <2> QED BY <2>1, <2>2
<1>2. ASSUME NEW p \in Procs, NEW d \in Nat
      PROVE  Kernel(p, d) \in [Regs -> Words] /\ Local(p, d, Kernel(p, d))
  <2>1. <<"local", p, d>> \in Words
    BY DEF Words
  <2>2. Junk \in Words
    BY DEF Words
  <2> QED BY <2>1, <2>2 DEF Kernel, Local, CalleeSaved, Regs
<1>3. Zero \in Words /\ Junk \in Words /\ Results \subseteq Words
  BY DEF Words
<1> QED BY <1>1, <1>2, <1>3, Zenon

\* A function of which two values are replaced keeps its type.
LEMMA TwoPuts ==
    ASSUME NEW D, NEW R, NEW f \in [D -> R], NEW a, NEW b, NEW x \in R, NEW y \in R
    PROVE  [f EXCEPT ![a] = x, ![b] = y] \in [D -> R]
<1> QED BY Zenon

\* Registers that are all pushed are all popped.
LEMMA OverFull ==
    ASSUME NEW f \in [Regs -> Words], NEW base PROVE Over(f, base) = f
BY DEF Over

\* What a pop of some registers yields.
LEMMA OverType ==
    ASSUME NEW D \in SUBSET Regs, NEW f \in [D -> Words], NEW base \in [Regs -> Words]
    PROVE  /\ Over(f, base) \in [Regs -> Words]
           /\ \A r \in D : Over(f, base)[r] = f[r]
BY DEF Over

\* What pushing, popping and marking do to a stack.
LEMMA PushFacts ==
    ASSUME NEW fs \in Seq(FrameSet), NEW f \in FrameSet
    PROVE  /\ Append(fs, f) \in Seq(FrameSet) /\ Len(Append(fs, f)) = Len(fs) + 1
           /\ \A i \in 1 .. Len(fs) : Append(fs, f)[i] = fs[i]
           /\ Append(fs, f)[Len(fs) + 1] = f
OBVIOUS

\* A stack without its newest frame.
LEMMA PopFacts ==
    ASSUME NEW fs \in Seq(FrameSet), Len(fs) > 0
    PROVE  /\ SubSeq(fs, 1, Len(fs) - 1) \in Seq(FrameSet)
           /\ Len(SubSeq(fs, 1, Len(fs) - 1)) = Len(fs) - 1
           /\ \A i \in 1 .. Len(fs) - 1 : SubSeq(fs, 1, Len(fs) - 1)[i] = fs[i]
<1>1. SubSeq(fs, 1, Len(fs) - 1) \in Seq(FrameSet)
  OBVIOUS
<1>2. \A i \in 1 .. Len(fs) - 1 : SubSeq(fs, 1, Len(fs) - 1)[i] = fs[i]
  OBVIOUS
<1>3. Len(SubSeq(fs, 1, Len(fs) - 1)) = Len(fs) - 1
  <2> DEFINE n == Len(fs) - 1
  <2>1. n \in Nat /\ 1 \in Int /\ \A i \in 1 .. n : fs[i] \in FrameSet
    OBVIOUS
  <2> HIDE DEF n
  <2>2. Len(SubSeq(fs, 1, n)) = IF 1 <= n THEN n - 1 + 1 ELSE 0
    BY <2>1, SubSeqProperties
  <2>3. Len(SubSeq(fs, 1, n)) = n
    BY <2>1, <2>2
  <2> QED BY <2>3, Zenon DEF n
<1> QED BY <1>1, <1>2, <1>3

\* A stack with one frame.
LEMMA OneFacts ==
    ASSUME NEW f \in FrameSet
    PROVE  <<f>> \in Seq(FrameSet) /\ Len(<<f>>) = 1 /\ <<f>>[1] = f /\ <<f>> # <<>>
OBVIOUS

\* The empty stack.
LEMMA EmptyFacts ==
    /\ <<>> \in Seq(FrameSet) /\ Len(<<>>) = 0
    /\ \A fs \in Seq(FrameSet) : (fs = <<>> <=> Len(fs) = 0) /\ Len(fs) \in Nat
OBVIOUS

\* A stack whose newest frame comes to its end.
LEMMA MarkFacts ==
    ASSUME NEW fs \in Seq(FrameSet), NEW d \in 1 .. Len(fs), fs[d].kind = "irq"
    PROVE  LET gs == [fs EXCEPT ![d].kind = "tail"]
           IN  /\ gs \in Seq(FrameSet) /\ Len(gs) = Len(fs)
               /\ \A i \in 1 .. Len(fs) : i # d => gs[i] = fs[i]
               /\ gs[d].kind = "tail" /\ gs[d].ring = fs[d].ring /\ gs[d].regs = fs[d].regs
<1>1. fs[d] \in TrapFrame
  BY DEF FrameSet, StartFrame
<1>2. [fs[d] EXCEPT !.kind = "tail"] \in FrameSet
  BY <1>1, Zenon DEF FrameSet, TrapFrame
<1> QED BY <1>1, <1>2 DEF TrapFrame
-----------------------------------------------------------------------------
\* The state kmain leaves satisfies the invariant.
LEMMA InitInv == Init => IInv
<1> SUFFICES ASSUME Init PROVE IInv
  OBVIOUS
<1> DEFINE Boot == Threads \cup {hello}
<1>1. PICK file \in Files[hello] :
          /\ frames = [s \in Stacks |->
                         IF s = First[hello] THEN <<IretFrame(Restrict(file, {"rsp"}))>>
                                             ELSE <<>>]
          /\ cpu = [p \in Procs |->
                      CASE p = hello -> Loaded(First[p], file)
                        [] p \in Threads \ {idle} ->
                               [NoCpu EXCEPT !.on = First[p], !.resume = "entry"]
                        [] OTHER -> NoCpu]
  BY Zenon DEF Init
<1> DEFINE f == IretFrame(Restrict(file, {"rsp"}))
<1>2. /\ hello \in Users /\ hello \notin Threads /\ idle \in Threads /\ idle \notin Users
      /\ hello \in Procs /\ idle \in Procs /\ Boot \subseteq Procs /\ DOMAIN First = Boot
      /\ \A p \in Boot : First[p] \in Stacks
  BY ContextConstants DEF Procs
<1>3. \A p, q \in Boot : p # q => First[p] # First[q]
  BY <1>2, ContextConstants, Zenon DEF IsInjective
<1>4. /\ current = idle /\ ring = 0 /\ iflag = TRUE /\ isr0 = FALSE
      /\ live = Kernel(idle, 0) /\ on = First[idle] /\ tss0 = BootStack
  BY Zenon DEF Init
<1>5. /\ life = [p \in Procs |-> IF p \in Boot THEN "ready" ELSE "none"]
      /\ stack = [p \in Procs |-> IF p \in Boot THEN First[p] ELSE BootStack]
      /\ user_esp = [p \in Procs |-> Zero]
  BY <1>2, Zenon DEF Init
<1>6. file \in [Regs -> Words] /\ Zero \in Words /\ Kernel(idle, 0) \in [Regs -> Words]
  BY WordsFacts, <1>2, Zenon
<1>7. f \in FrameSet /\ f.kind = "iret" /\ f.ring = 3 /\ DOMAIN f.regs = {"rsp"}
  BY <1>6 DEF IretFrame, FrameSet, StartFrame, Restrict, Regs
<1> HIDE DEF f
<1>8. frames \in [Stacks -> Seq(FrameSet)]
  BY <1>1, <1>7, OneFacts, EmptyFacts, Zenon DEF f
<1>9. cpu \in [Procs -> CpuSet]
  <2>1. NoCpu \in CpuSet
    BY <1>6, Zenon DEF NoCpu, CpuSet
  <2>2. Loaded(First[hello], file) \in CpuSet
    BY <1>2, <1>6 DEF Loaded, CpuSet, CpuRegs, Regs
  <2>3. \A p \in Threads : [NoCpu EXCEPT !.on = First[p], !.resume = "entry"] \in CpuSet
    BY <1>2, <2>1, Zenon DEF CpuSet
  <2> QED BY <1>1, <1>2, <2>1, <2>2, <2>3, Zenon
<1>10. TypeOK
  <2>1. life \in [Procs -> {"none", "ready", "dead", "gone"}]
    BY <1>5, Zenon
  <2>2. stack \in [Procs -> Stacks \cup {BootStack}] /\ user_esp \in [Procs -> Words]
    BY <1>2, <1>5, <1>6
  <2>3. current \in Procs /\ ring \in {0, 3} /\ on \in Stacks
    BY <1>2, <1>4, Zenon
  <2> QED BY <1>4, <1>6, <1>8, <1>9, <2>1, <2>2, <2>3, Zenon DEF TypeOK
<1>11. Existing = Boot /\ \A p \in Boot : stack[p] = First[p]
  BY <1>2, <1>5 DEF Existing
<1>12. \A p \in Procs : life[p] = "ready" => p \in Boot
  BY <1>2, <1>5
<1>13. frames[stack[hello]] = <<f>> /\ \A p \in Threads : frames[stack[p]] = <<>>
  BY <1>1, <1>2, <1>3, <1>11, Zenon DEF f
<1>14. StackInv
  BY <1>2, <1>3, <1>11, ZenonT(60) DEF StackInv
<1>15. CurrentInv
  <2>1. ring # 3
    BY <1>4
  <2> QED BY <1>2, <1>4, <1>11, <2>1, Zenon DEF CurrentInv
<1>16. FramesInv
  <2>1. ShapedStack(hello, <<f>>)
    BY <1>2, <1>7, OneFacts DEF ShapedStack, Shaped
  <2>2. \A p : ShapedStack(p, <<>>)
    BY DEF ShapedStack
  <2> QED BY <1>11, <1>13, <2>1, <2>2, Zenon DEF FramesInv
<1>17. AwayInv
  <2>1. Waits(hello, stack[hello], frames[stack[hello]], cpu[hello])
    <3>1. cpu[hello] = Loaded(First[hello], file)
      BY <1>1, <1>2, Zenon
    <3>2. cpu[hello].on = First[hello] /\ cpu[hello].resume = "ring3"
      BY <3>1 DEF Loaded
    <3> QED BY <3>2, <1>7, <1>11, <1>13, OneFacts DEF Waits
  <2>2. ASSUME NEW p \in Threads, p # idle
        PROVE  Waits(p, stack[p], frames[stack[p]], cpu[p])
    <3>1. cpu[p] = [NoCpu EXCEPT !.on = First[p], !.resume = "entry"]
      BY <2>2, <1>1, <1>2, Zenon
    <3>2. cpu[p].on = First[p] /\ cpu[p].resume = "entry"
      BY <3>1 DEF NoCpu
    <3>3. p \notin Users
      BY ContextConstants
    <3> QED BY <3>2, <3>3, <1>11, <1>13, EmptyFacts DEF Waits
  <2> QED BY <2>1, <2>2, <1>4, <1>12, Zenon DEF AwayInv
<1>18. CallInv
  <2>1. \A esp : Noted("ready", <<f>>, esp) /\ Noted("ready", <<>>, esp)
    BY <1>7, OneFacts, Zenon DEF Noted, Called
  <2>2. \A p \in Boot : life[p] = "ready"
    BY <1>2, <1>5
  <2> QED BY <1>11, <1>13, <2>1, <2>2, Zenon DEF CallInv
<1>19. LocalsAreKept
  <2>1. Depth = 0
    BY <1>2, <1>4, <1>11, <1>13, EmptyFacts DEF Depth
  <2> QED BY <1>4, <2>1 DEF LocalsAreKept
<1> QED BY <1>10, <1>14, <1>15, <1>16, <1>17, <1>18, <1>19 DEF IInv
-----------------------------------------------------------------------------
\* A step of the current process in its own affairs.
OwnStep ==
    /\ UNCHANGED <<current, tss0, life, stack, cpu>>
    /\ on' = stack[current]
    /\ \A s \in Stacks \ {stack[current]} : frames'[s] = frames[s]
    /\ \A p \in Procs \ {current} : user_esp'[p] = user_esp[p]

\* An own step keeps the invariant if it keeps it for the current process.
LEMMA OwnStepInv ==
    ASSUME IInv, OwnStep, TypeOK', LocalsAreKept',
           ring' = 3 => /\ current \in Users /\ life[current] = "ready"
                        /\ frames'[stack[current]] = <<>>,
           ring' = 0 /\ current \in Users => frames'[stack[current]] # <<>>,
           ShapedStack(current, frames'[stack[current]]),
           Noted(life[current], frames'[stack[current]], user_esp'[current])
    PROVE  IInv'
<1>1. Existing' = Existing
  BY Zenon DEF OwnStep, Existing
<1>2. \A p \in Existing \ {current} : /\ stack[p] \in Stacks \ {stack[current]}
                                     /\ frames'[stack[p]] = frames[stack[p]]
  BY DEF OwnStep, IInv, CurrentInv, StackInv
<1>3. CurrentInv'
  BY <1>1, Zenon DEF IInv, CurrentInv, OwnStep
<1>4. StackInv'
  BY <1>1, Zenon DEF IInv, StackInv, OwnStep
<1>5. FramesInv'
  BY <1>1, <1>2, Zenon DEF IInv, FramesInv, OwnStep
<1>6. AwayInv'
  <2> SUFFICES ASSUME NEW p \in Procs \ {current}, life[p] = "ready"
               PROVE  Waits(p, stack[p], frames'[stack[p]], cpu[p])
    BY Zenon DEF AwayInv, OwnStep
  <2>1. p \in Existing
    BY DEF Existing
  <2> QED BY <2>1, <1>2, Zenon DEF IInv, AwayInv
<1>7. CallInv'
  <2> SUFFICES ASSUME NEW p \in Existing
               PROVE  Noted(life[p], frames'[stack[p]], user_esp'[p])
    BY <1>1, Zenon DEF CallInv, OwnStep
  <2>1. p \in Procs
    BY Zenon DEF Existing
  <2> QED BY <2>1, <1>2, Zenon DEF IInv, CallInv, OwnStep
<1> QED BY <1>3, <1>4, <1>5, <1>6, <1>7, Zenon DEF IInv

\* A frame that is kept, with those below it, keeps its shape.
LEMMA ShapedSame ==
    ASSUME NEW p, NEW n \in Nat, NEW fs, NEW gs, \A j \in 1 .. n : gs[j] = fs[j],
           NEW i \in 1 .. n, Shaped(p, i, fs)
    PROVE  Shaped(p, i, gs)
<1>1. 1 \in 1 .. n
  OBVIOUS
<1>2. gs[1] = fs[1] /\ gs[i] = fs[i]
  BY <1>1, Zenon
<1> QED BY <1>2, Zenon DEF Shaped

\* What the top of the stack in use says.
LEMMA HereFacts ==
    ASSUME IInv
    PROVE  /\ current \in Procs /\ current \in Existing /\ on = stack[current] /\ on \in Stacks
           /\ frames[on] \in Seq(FrameSet) /\ Depth = Len(frames[on]) /\ Depth \in Nat
           /\ Depth = 0 <=> frames[on] = <<>>
           /\ ShapedStack(current, frames[on])
           /\ Depth = 0 => Top = "thread"
           /\ Depth > 0 => frames[on][Depth] \in FrameSet /\ Top = frames[on][Depth].kind
<1>1. current \in Procs /\ current \in Existing /\ on = stack[current] /\ on \in Stacks
      /\ frames[on] \in Seq(FrameSet) /\ ShapedStack(current, frames[on])
  BY Zenon DEF IInv, TypeOK, CurrentInv, FramesInv
<1>2. Depth = Len(frames[on]) /\ Depth \in Nat /\ (Depth = 0 <=> frames[on] = <<>>)
  BY <1>1, EmptyFacts DEF Depth
<1>3. Depth > 0 => frames[on][Depth] \in FrameSet
  BY <1>1, <1>2
<1> QED BY <1>1, <1>2, <1>3 DEF Top

\* The current process is in a system call.
LEMMA CallFacts ==
    ASSUME IInv, Top = "call"
    PROVE  /\ Depth = 1 /\ current \in Users /\ frames[on][1].kind = "call"
           /\ frames[on][1].ring = 3 /\ frames[on][1].regs \in [Regs -> Words]
<1>1. Depth > 0 /\ frames[on][Depth].kind = "call" /\ Shaped(current, Depth, frames[on])
  BY HereFacts DEF ShapedStack
<1>2. Depth = 1 /\ current \in Users /\ frames[on][1].ring = 3
  BY <1>1, HereFacts DEF Shaped
<1>3. frames[on][1] \in TrapFrame
  BY <1>1, <1>2, HereFacts, Zenon DEF FrameSet, StartFrame
<1> QED BY <1>1, <1>2, <1>3, Zenon DEF TrapFrame

\* The current process is about to start its program.
LEMMA StartFacts ==
    ASSUME IInv, Top = "iret"
    PROVE  /\ Depth = 1 /\ current \in Users /\ frames[on][1].kind = "iret"
           /\ frames[on][1].ring = 3
           /\ frames[on][1].regs \in [{"rsp"} -> Words] \cup [{"rax", "rsp"} -> Words]
<1>1. Depth > 0 /\ frames[on][Depth].kind = "iret" /\ Shaped(current, Depth, frames[on])
  BY HereFacts DEF ShapedStack
<1>2. Depth = 1 /\ current \in Users /\ frames[on][1].ring = 3
  BY <1>1, HereFacts, Zenon DEF Shaped
<1>3. frames[on][1] \in StartFrame
  BY <1>1, <1>2, HereFacts, Zenon DEF FrameSet, TrapFrame
<1> QED BY <1>1, <1>2, <1>3, Zenon DEF StartFrame

\* The current process is in an interrupt handler.
LEMMA IrqFacts ==
    ASSUME IInv, Top \in {"irq", "tail"}
    PROVE  /\ Depth > 0 /\ frames[on][Depth].kind = Top
           /\ frames[on][Depth].ring \in {0, 3} /\ frames[on][Depth].regs \in [Regs -> Words]
           /\ Shaped(current, Depth, frames[on])
<1>1. Depth > 0 /\ frames[on][Depth].kind = Top /\ Shaped(current, Depth, frames[on])
  BY HereFacts DEF ShapedStack
<1>2. frames[on][Depth] \in TrapFrame
  BY <1>1, HereFacts, Zenon DEF FrameSet, StartFrame
<1> QED BY <1>1, <1>2, Zenon DEF TrapFrame

\* Kernel code has its locals in the callee-saved registers.
LEMMA LocalHere ==
    ASSUME IInv, ring = 0, Top # "iret" PROVE Local(current, Depth, live)
<1>1. Local(current, Depth, Kernel(current, Depth))
  BY HereFacts, WordsFacts, Zenon
<1>2. \A r \in CalleeSaved : live[r] = Kernel(current, Depth)[r]
  BY DEF IInv, LocalsAreKept
<1> QED BY <1>1, <1>2, Zenon DEF Local

\* A program that computes keeps the invariant.
LEMMA ComputeInv == IInv /\ Compute => IInv'
<1> SUFFICES ASSUME IInv, Compute PROVE IInv'
  OBVIOUS
<1>1. OwnStep
  BY HereFacts DEF Compute, OwnStep
<1>2. current \in Users /\ life[current] = "ready" /\ frames[stack[current]] = <<>>
  BY Zenon DEF Compute, IInv, CurrentInv
<1>3. live' \in [Regs -> Words]
  BY <1>2, WordsFacts DEF Compute
<1>4. TypeOK'
  BY <1>3, Zenon DEF Compute, IInv, TypeOK
<1>5. LocalsAreKept'
  BY DEF Compute, LocalsAreKept
<1>6. ShapedStack(current, <<>>) /\ \A esp : Noted("ready", <<>>, esp)
  BY DEF ShapedStack, Noted, Called
<1> QED BY <1>1, <1>2, <1>4, <1>5, <1>6, OwnStepInv DEF Compute

\* An interrupt in ring 3 finds the TSS naming the program's own, empty stack.
LEMMA irq_userInv == IInv /\ irq_user => IInv'
<1> SUFFICES ASSUME IInv, irq_user PROVE IInv'
  OBVIOUS
<1> DEFINE f == Frame("irq", live)
<1>1. /\ current \in Users /\ life[current] = "ready" /\ frames[stack[current]] = <<>>
      /\ tss0 = stack[current] /\ stack[current] \in Stacks /\ ring = 3 /\ current \in Procs
  BY HereFacts, Zenon DEF irq_user, IInv, CurrentInv
<1>2. f \in FrameSet /\ f.kind = "irq" /\ f.ring = 3
  BY <1>1, Zenon DEF Frame, FrameSet, TrapFrame, IInv, TypeOK
<1> HIDE DEF f
<1>3. frames' = [frames EXCEPT ![stack[current]] = <<f>>]
  BY <1>1 DEF irq_user, f
<1>4. OwnStep
  BY <1>1, <1>3 DEF irq_user, OwnStep, IInv, TypeOK
<1>5. frames'[stack[current]] = <<f>> /\ frames' \in [Stacks -> Seq(FrameSet)]
  BY <1>1, <1>2, <1>3, OneFacts DEF IInv, TypeOK
<1>6. live' \in [Regs -> Words] /\ Local(current, 1, live')
  BY <1>1, WordsFacts, Zenon DEF irq_user
<1>7. TypeOK'
  BY <1>1, <1>5, <1>6, Zenon DEF irq_user, IInv, TypeOK
<1>8. LocalsAreKept'
  BY <1>1, <1>5, OneFacts, Zenon DEF irq_user, LocalsAreKept, Depth
<1>9. ShapedStack(current, <<f>>) /\ \A esp : Noted("ready", <<f>>, esp)
  BY <1>1, <1>2, OneFacts DEF ShapedStack, Shaped, Noted, Called
<1>10. ring' = 0 /\ <<f>> # <<>>
  BY OneFacts, <1>2, Zenon DEF irq_user
<1> QED BY <1>1, <1>4, <1>5, <1>7, <1>8, <1>9, <1>10, OwnStepInv

\* An interrupt in ring 0 adds a frame with the locals of the code below.
LEMMA irq_kernelInv == IInv /\ irq_kernel => IInv'
<1> SUFFICES ASSUME IInv, irq_kernel PROVE IInv'
  OBVIOUS
<1> DEFINE f == Frame("irq", live)
           fs == frames[on]
           gs == Append(fs, f)
<1>1. ring = 0 /\ Depth \in Nat /\ Depth = Len(fs) /\ on = stack[current] /\ on \in Stacks
      /\ fs \in Seq(FrameSet) /\ current \in Procs /\ ShapedStack(current, fs)
  BY HereFacts, Zenon DEF irq_kernel
<1>2. f \in FrameSet /\ f.kind = "irq" /\ f.ring = 0 /\ f.regs = live
  BY <1>1, Zenon DEF Frame, FrameSet, TrapFrame, IInv, TypeOK
<1>3. frames' = [frames EXCEPT ![stack[current]] = gs]
  BY <1>1, Zenon DEF irq_kernel
<1> HIDE DEF f
<1>4. gs \in Seq(FrameSet) /\ Len(gs) = Depth + 1 /\ gs[Depth + 1] = f
      /\ \A i \in 1 .. Depth : gs[i] = fs[i]
  BY <1>1, <1>2, PushFacts, Zenon
<1> HIDE DEF gs
<1>5. OwnStep
  BY <1>1, <1>3, Zenon DEF irq_kernel, OwnStep, IInv, TypeOK
<1>6. frames'[stack[current]] = gs /\ frames' \in [Stacks -> Seq(FrameSet)]
  BY <1>1, <1>3, <1>4, Zenon DEF IInv, TypeOK
<1>7. live' \in [Regs -> Words] /\ live' = Kernel(current, Depth + 1)
  BY <1>1, WordsFacts DEF irq_kernel
<1>8. TypeOK'
  BY <1>6, <1>7, Zenon DEF irq_kernel, IInv, TypeOK
<1>9. Depth' = Depth + 1 /\ Top' = "irq" /\ current' = current
  BY <1>1, <1>2, <1>4, <1>6 DEF irq_kernel, Depth, Top
<1>10. LocalsAreKept'
  BY <1>7, <1>9 DEF LocalsAreKept
<1>11. gs # <<>>
  BY <1>1, <1>4, EmptyFacts
<1>12. ShapedStack(current, gs)
  <2>1. \A i \in 1 .. Depth : Shaped(current, i, gs)
    <3> SUFFICES ASSUME NEW i \in 1 .. Depth PROVE Shaped(current, i, gs)
      OBVIOUS
    <3>1. Shaped(current, i, fs)
      BY <1>1, Zenon DEF ShapedStack
    <3> QED BY <1>1, <1>4, <3>1, ShapedSame, Zenon
  <2>2. Depth = 0 => current \in Threads
    BY <1>1, EmptyFacts, Zenon DEF IInv, CurrentInv, Procs
  <2>3. Depth + 1 # 2 \/ fs[1].kind # "iret" => Local(current, Depth, live)
    <3>1. Top = "iret" => Depth = 1 /\ fs[1].kind = "iret"
      BY StartFacts, Zenon
    <3>2. Depth + 1 # 2 \/ fs[1].kind # "iret" => Top # "iret"
      BY <3>1
    <3> QED BY <1>1, <3>2, LocalHere, Zenon
  <2>4. Shaped(current, Depth + 1, gs)
    <3>1. (Depth + 1) - 1 = Depth /\ (Depth = 0 \/ Depth + 1 > 1)
      BY <1>1
    <3>2. Depth + 1 = 2 => gs[1] = fs[1]
      BY <1>1, <1>4
    <3> QED BY <1>1, <1>2, <1>4, <2>2, <2>3, <3>1, <3>2, Zenon DEF Shaped
  <2> QED BY <1>1, <1>4, <2>1, <2>4 DEF ShapedStack
<1>13. Noted(life[current], gs, user_esp[current])
  <2>1. Noted(life[current], fs, user_esp[current])
    BY <1>1, HereFacts, Zenon DEF IInv, CallInv
  <2>2. CASE Depth = 0
    <3>1. gs[1].kind = "irq" /\ fs = <<>>
      BY <2>2, <1>1, <1>2, <1>4, EmptyFacts
    <3> QED BY <3>1, <2>1, Zenon DEF Noted, Called
  <2>3. CASE Depth # 0
    <3>1. gs[1] = fs[1] /\ fs # <<>>
      BY <2>3, <1>1, <1>4, EmptyFacts
    <3> QED BY <3>1, <2>1, <1>11, Zenon DEF Noted, Called
  <2> QED BY <2>2, <2>3, Zenon
<1>14. ring' = 0 /\ user_esp' = user_esp
  BY <1>1, Zenon DEF irq_kernel
<1> QED BY <1>5, <1>6, <1>8, <1>10, <1>11, <1>12, <1>13, <1>14, OwnStepInv

\* The end of an interrupt leaves its registers in the frame.
LEMMA pic_send_eoiInv == IInv /\ pic_send_eoi => IInv'
<1> SUFFICES ASSUME IInv, pic_send_eoi PROVE IInv'
  OBVIOUS
<1> DEFINE fs == frames[on]
           gs == [fs EXCEPT ![Depth].kind = "tail"]
<1>1. ring = 0 /\ Depth \in Nat /\ Depth = Len(fs) /\ on = stack[current] /\ on \in Stacks
      /\ fs \in Seq(FrameSet) /\ current \in Procs /\ ShapedStack(current, fs)
      /\ Top = "irq"
  BY HereFacts DEF pic_send_eoi
<1>2. Depth > 0 /\ fs[Depth].kind = "irq"
  BY <1>1, IrqFacts, Zenon
<1>3. frames' = [frames EXCEPT ![stack[current]] = gs]
  BY <1>1, Zenon DEF pic_send_eoi
<1>4. /\ gs \in Seq(FrameSet) /\ Len(gs) = Depth
      /\ \A i \in 1 .. Depth : i # Depth => gs[i] = fs[i]
      /\ gs[Depth].kind = "tail" /\ gs[Depth].ring = fs[Depth].ring
      /\ gs[Depth].regs = fs[Depth].regs
  BY <1>1, <1>2, MarkFacts
<1> HIDE DEF gs
<1>5. OwnStep
  BY <1>1, <1>3, Zenon DEF pic_send_eoi, OwnStep, IInv, TypeOK
<1>6. frames'[stack[current]] = gs /\ frames' \in [Stacks -> Seq(FrameSet)]
  BY <1>1, <1>3, <1>4, Zenon DEF IInv, TypeOK
<1>8. TypeOK'
  BY <1>6, Zenon DEF pic_send_eoi, IInv, TypeOK
<1>9. Depth' = Depth /\ live' = live /\ current' = current /\ ring' = 0
  BY <1>1, <1>4, <1>6, Zenon DEF pic_send_eoi, Depth
<1>10. LocalsAreKept'
  <2>1. \A r \in CalleeSaved : live[r] = Kernel(current, Depth)[r]
    BY <1>1, Zenon DEF IInv, LocalsAreKept
  <2> QED BY <1>9, <2>1 DEF LocalsAreKept
<1>11. gs # <<>>
  BY <1>1, <1>2, <1>4, EmptyFacts, Zenon
<1>12. ShapedStack(current, gs)
  <2> SUFFICES ASSUME NEW i \in 1 .. Depth PROVE Shaped(current, i, gs)
    BY <1>4, Zenon DEF ShapedStack
  <2>1. Shaped(current, i, fs)
    BY <1>1, Zenon DEF ShapedStack
  <2>2. gs[i].ring = fs[i].ring /\ gs[i].regs = fs[i].regs
        /\ (gs[i].kind = fs[i].kind \/ (gs[i].kind = "tail" /\ fs[i].kind = "irq"))
    <3>1. CASE i = Depth
      BY <3>1, <1>2, <1>4, Zenon
    <3>2. CASE i # Depth
      BY <3>2, <1>4, Zenon
    <3> QED BY <3>1, <3>2, Zenon
  <2>3. i = 2 => (fs[1].kind = "iret" => gs[1].kind = "iret")
    BY <1>2, <1>4
  <2> QED BY <2>1, <2>2, <2>3, Zenon DEF Shaped
<1>13. Noted(life[current], gs, user_esp[current])
  <2>1. Noted(life[current], fs, user_esp[current])
    BY <1>1, HereFacts, Zenon DEF IInv, CallInv
  <2>2. fs # <<>>
    BY <1>1, <1>2, EmptyFacts
  <2>3. Called(gs) <=> Called(fs)
    BY <1>1, <1>2, <1>4, <1>11, <2>2 DEF Called
  <2>4. Called(fs) => gs[1] = fs[1]
    BY <1>1, <1>2, <1>4 DEF Called
  <2> QED BY <2>1, <2>3, <2>4, Zenon DEF Noted
<1>14. user_esp' = user_esp
  BY DEF pic_send_eoi
<1> QED BY <1>5, <1>6, <1>8, <1>9, <1>10, <1>11, <1>12, <1>13, <1>14, OwnStepInv

\* A return from an interrupt gives back the locals of the code below.
LEMMA iretqInv == IInv /\ iretq => IInv'
<1> SUFFICES ASSUME IInv, iretq PROVE IInv'
  OBVIOUS
<1> DEFINE fs == frames[on]
           gs == SubSeq(fs, 1, Depth - 1)
<1>1. ring = 0 /\ Depth \in Nat /\ Depth = Len(fs) /\ on = stack[current] /\ on \in Stacks
      /\ fs \in Seq(FrameSet) /\ current \in Procs /\ ShapedStack(current, fs)
      /\ Top \in {"tail", "iret"}
  BY HereFacts, Zenon DEF iretq
<1>2. Depth > 0 /\ fs[Depth] \in FrameSet
  BY <1>1, HereFacts
<1>3. frames' = [frames EXCEPT ![stack[current]] = gs]
  BY <1>1, Zenon DEF iretq
<1>4. gs \in Seq(FrameSet) /\ Len(gs) = Depth - 1
      /\ \A i \in 1 .. Depth - 1 : gs[i] = fs[i]
  BY <1>1, <1>2, PopFacts, Zenon
<1> HIDE DEF gs
<1>5. OwnStep
  BY <1>1, <1>3, Zenon DEF iretq, OwnStep, IInv, TypeOK
<1>6. frames'[stack[current]] = gs /\ frames' \in [Stacks -> Seq(FrameSet)]
  BY <1>1, <1>3, <1>4, Zenon DEF IInv, TypeOK
<1>7. live' \in [Regs -> Words] /\ ring' \in {0, 3}
  <2>1. CASE fs[Depth] \in TrapFrame
    <3>1. fs[Depth].regs \in [Regs -> Words] /\ fs[Depth].ring \in {0, 3}
      BY <2>1, Zenon DEF TrapFrame
    <3> QED BY <3>1, OverFull, Zenon DEF iretq
  <2>2. CASE fs[Depth] \in StartFrame
    <3>1. /\ fs[Depth].regs \in [{"rsp"} -> Words] \/ fs[Depth].regs \in [{"rax", "rsp"} -> Words]
          /\ fs[Depth].ring \in {0, 3}
      BY <2>2, Zenon DEF StartFrame
    <3>2. {"rsp"} \in SUBSET Regs /\ {"rax", "rsp"} \in SUBSET Regs
      BY DEF Regs
    <3> QED BY <3>1, <3>2, OverType, Zenon DEF iretq, IInv, TypeOK
  <2> QED BY <2>1, <2>2, <1>2, Zenon DEF FrameSet
<1>8. TypeOK'
  BY <1>6, <1>7, Zenon DEF iretq, IInv, TypeOK
<1>9. /\ Depth' = Depth - 1 /\ current' = current /\ ring' = fs[Depth].ring
      /\ user_esp' = user_esp /\ frames'[on'] = gs
  BY <1>1, <1>4, <1>6, Zenon DEF iretq, Depth
<1>10. LocalsAreKept'
  <2> SUFFICES ASSUME ring' = 0, Top' # "iret" PROVE Local(current, Depth - 1, live')
    <3>1. Depth - 1 \in Nat
      BY <1>1, <1>2
    <3>2. Local(current, Depth - 1, Kernel(current, Depth - 1))
      BY <3>1, <1>1, WordsFacts, Zenon
    <3> QED BY <3>2, <1>9, Zenon DEF LocalsAreKept, Local
  <2>1. Top = "tail"
    BY <1>1, <1>9, StartFacts
  <2>2. Shaped(current, Depth, fs) /\ fs[Depth].regs \in [Regs -> Words]
    BY <2>1, IrqFacts, Zenon
  <2>3. live' = fs[Depth].regs
    BY <2>2, OverFull, Zenon DEF iretq
  <2>4. ~(Depth = 2 /\ fs[1].kind = "iret")
    <3> SUFFICES ASSUME Depth = 2 PROVE fs[1].kind # "iret"
      OBVIOUS
    <3>1. Depth' = 1 /\ frames'[on'][1] = fs[1]
      BY <1>4, <1>9
    <3> QED BY <3>1 DEF Top
  <2>5. fs[Depth].ring = 0
    BY <1>9, Zenon
  <2> QED BY <2>2, <2>3, <2>4, <2>5, <1>1 DEF Shaped
<1>11. /\ fs[Depth].ring = 3 => Depth = 1 /\ current \in Users
       /\ fs[Depth].ring = 0 /\ current \in Users => Depth > 1
  <2>1. Shaped(current, Depth, fs)
    BY <1>1, <1>2 DEF ShapedStack
  <2>2. current \in Users => current \notin Threads
    BY ContextConstants
  <2> QED BY <2>1, <2>2, <1>1 DEF Shaped
<1>12. Noted(life[current], fs, user_esp[current])
  BY <1>1, HereFacts, Zenon DEF IInv, CallInv
<1>13. ring' = 3 => current \in Users /\ life[current] = "ready" /\ gs = <<>>
  <2> SUFFICES ASSUME ring' = 3
               PROVE  current \in Users /\ life[current] = "ready" /\ gs = <<>>
    OBVIOUS
  <2>1. Depth = 1 /\ current \in Users
    BY <1>9, <1>11
  <2>2. fs[1].kind = Top
    BY <2>1, HereFacts
  <2>3. life[current] # "dead"
    BY <2>2, <1>1, <1>12, Zenon DEF Noted, Called
  <2>4. life[current] = "ready"
    BY <2>3, HereFacts, Zenon DEF Existing
  <2> QED BY <2>1, <2>4, <1>4, EmptyFacts
<1>14. ring' = 0 /\ current \in Users => gs # <<>>
  BY <1>1, <1>4, <1>9, <1>11, EmptyFacts
<1>15. ShapedStack(current, gs)
  <2> SUFFICES ASSUME NEW i \in 1 .. Len(gs) PROVE Shaped(current, i, gs)
    BY Zenon DEF ShapedStack
  <2>1. i \in 1 .. Len(fs) /\ Len(gs) \in Nat
    BY <1>1, <1>4
  <2>2. Shaped(current, i, fs)
    BY <1>1, <2>1, Zenon DEF ShapedStack
  <2>3. \A j \in 1 .. Len(gs) : gs[j] = fs[j]
    BY <1>1, <1>4, Zenon
  <2> QED BY <2>1, <2>2, <2>3, ShapedSame, Zenon
<1>16. Noted(life[current], gs, user_esp[current])
  <2>1. CASE Depth = 1
    <3>1. gs = <<>> /\ fs[1].kind = Top
      BY <2>1, <1>4, HereFacts, EmptyFacts
    <3> QED BY <3>1, <1>1, <1>12, Zenon DEF Noted, Called
  <2>2. CASE Depth # 1
    <3>1. Depth \in Nat /\ Depth > 0
      BY <1>1, <1>2, Zenon
    <3>2. Depth > 1
      BY <2>2, <3>1
    <3>3. gs # <<>> /\ fs # <<>> /\ gs[1] = fs[1]
      BY <3>2, <1>1, <1>4, EmptyFacts
    <3> QED BY <3>3, <1>12, Zenon DEF Noted, Called
  <2> QED BY <2>1, <2>2, Zenon
<1> QED BY <1>5, <1>6, <1>8, <1>9, <1>10, <1>13, <1>14, <1>15, <1>16, OwnStepInv, Zenon

\* A system call puts a frame on the caller's own stack and notes its rsp.
LEMMA syscall_entryInv == IInv /\ syscall_entry => IInv'
<1> SUFFICES ASSUME IInv, syscall_entry PROVE IInv'
  OBVIOUS
<1> DEFINE regs == [live EXCEPT !["rcx"] = live["rsp"]]
           f == Frame("call", regs)
<1>1. /\ current \in Users /\ life[current] = "ready" /\ frames[stack[current]] = <<>>
      /\ stack[current] \in Stacks /\ ring = 3 /\ current \in Procs
  BY HereFacts, Zenon DEF syscall_entry, IInv, CurrentInv
<1>2. regs \in [Regs -> Words] /\ live["rsp"] \in Words /\ regs["rsp"] = live["rsp"]
  BY Zenon DEF IInv, TypeOK, Regs
<1>3. f \in FrameSet /\ f.kind = "call" /\ f.ring = 3 /\ f.regs["rsp"] = live["rsp"]
  BY <1>1, <1>2 DEF Frame, FrameSet, TrapFrame
<1>4. frames' = [frames EXCEPT ![stack[current]] = <<f>>]
  BY <1>1, Zenon DEF syscall_entry
<1> HIDE DEF f
<1>5. OwnStep
  BY <1>1, <1>4, Zenon DEF syscall_entry, OwnStep, IInv, TypeOK
<1>6. frames'[stack[current]] = <<f>> /\ frames' \in [Stacks -> Seq(FrameSet)]
  BY <1>1, <1>3, <1>4, OneFacts, Zenon DEF IInv, TypeOK
<1>7. live' \in [Regs -> Words] /\ live' = Kernel(current, 1)
  BY <1>1, WordsFacts, Zenon DEF syscall_entry
<1>8. user_esp' \in [Procs -> Words] /\ user_esp'[current] = live["rsp"]
  BY <1>1, <1>2, Zenon DEF syscall_entry, IInv, TypeOK
<1>9. TypeOK'
  BY <1>1, <1>6, <1>7, <1>8, Zenon DEF syscall_entry, IInv, TypeOK
<1>10. LocalsAreKept'
  BY <1>1, <1>6, <1>7, OneFacts, Zenon DEF syscall_entry, LocalsAreKept, Depth
<1>11. ShapedStack(current, <<f>>) /\ Noted("ready", <<f>>, live["rsp"])
  BY <1>1, <1>3, OneFacts DEF ShapedStack, Shaped, Noted, Called
<1>12. ring' = 0 /\ <<f>> # <<>>
  BY OneFacts, <1>3, Zenon DEF syscall_entry
<1> QED BY <1>1, <1>5, <1>6, <1>8, <1>9, <1>10, <1>11, <1>12, OwnStepInv

\* A return from a system call empties the stack.
LEMMA sysretInv == IInv /\ sysret => IInv'
<1> SUFFICES ASSUME IInv, sysret PROVE IInv'
  OBVIOUS
<1> DEFINE regs == frames[on][Depth].regs
<1>1. /\ ring = 0 /\ Top = "call" /\ life[current] = "ready" /\ on = stack[current]
      /\ on \in Stacks /\ current \in Procs /\ frames[on] \in Seq(FrameSet)
  BY HereFacts, Zenon DEF sysret, InCall
<1>2. Depth = 1 /\ current \in Users /\ regs \in [Regs -> Words]
  BY <1>1, CallFacts, Zenon
<1>3. SubSeq(frames[on], 1, Depth - 1) = <<>>
  BY <1>1, <1>2, PopFacts, HereFacts, EmptyFacts
<1>4. frames' = [frames EXCEPT ![stack[current]] = <<>>]
  BY <1>1, <1>3, Zenon DEF sysret
<1>5. OwnStep
  BY <1>1, <1>4, Zenon DEF sysret, OwnStep, IInv, TypeOK
<1>6. frames'[stack[current]] = <<>> /\ frames' \in [Stacks -> Seq(FrameSet)]
  BY <1>1, <1>4, EmptyFacts, Zenon DEF IInv, TypeOK
<1>7. live' \in [Regs -> Words]
  <2>1. PICK v \in Results \cup {regs["rax"]} : live' = [regs EXCEPT !["rax"] = v]
    BY Zenon DEF sysret
  <2>2. v \in Words
    BY <1>2, WordsFacts, Zenon DEF Regs
  <2> QED BY <2>1, <2>2, <1>2, Zenon
<1>8. user_esp' \in [Procs -> Words]
  BY <1>1, WordsFacts, Zenon DEF sysret, IInv, TypeOK
<1>9. TypeOK'
  BY <1>1, <1>6, <1>7, <1>8, Zenon DEF sysret, IInv, TypeOK
<1>10. ring' = 3
  BY Zenon DEF sysret
<1>11. LocalsAreKept'
  BY <1>10 DEF LocalsAreKept
<1>12. ShapedStack(current, <<>>) /\ \A esp : Noted("ready", <<>>, esp)
  BY DEF ShapedStack, Noted, Called
<1> QED BY <1>1, <1>2, <1>5, <1>6, <1>9, <1>10, <1>11, <1>12, OwnStepInv

\* The interrupt flag and the PIC do not matter for the invariant.
LEMMA FlagsInv == IInv /\ (sti \/ keyboard_wait) => IInv'
<1> SUFFICES ASSUME IInv, sti \/ keyboard_wait PROVE IInv'
  OBVIOUS
<1>1. /\ UNCHANGED <<current, ring, live, on, tss0, life, stack, frames, cpu, user_esp>>
      /\ iflag' \in BOOLEAN /\ isr0' \in BOOLEAN
  BY Zenon DEF sti, keyboard_wait, IInv, TypeOK
<1>2. OwnStep
  BY <1>1, HereFacts, Zenon DEF OwnStep
<1>3. TypeOK'
  BY <1>1, Zenon DEF IInv, TypeOK
<1>4. LocalsAreKept'
  BY <1>1, Zenon DEF IInv, LocalsAreKept, Depth, Top
<1>5. Noted(life[current], frames[stack[current]], user_esp[current])
  BY HereFacts, Zenon DEF IInv, CallInv
<1> QED BY <1>1, <1>2, <1>3, <1>4, <1>5, HereFacts, OwnStepInv, Zenon DEF IInv, CurrentInv
-----------------------------------------------------------------------------
\* A step that makes a process c, which will start from the frame f.
LEMMA ChildInv ==
    ASSUME IInv, NEW c \in Users, NEW s \in Stacks, s \notin Held, life[c] = "none",
           NEW f \in StartFrame, NEW pcb \in CpuSet, pcb.on = s,
           pcb.resume = IF "rax" \in DOMAIN f.regs THEN "ring0" ELSE "ring3",
           life' = [life EXCEPT ![c] = "ready"], stack' = [stack EXCEPT ![c] = s],
           frames' = [frames EXCEPT ![s] = <<f>>], cpu' = [cpu EXCEPT ![c] = pcb],
           UNCHANGED <<current, ring, iflag, isr0, live, on, tss0, user_esp>>
    PROVE  IInv'
<1>1. /\ c \in Procs /\ c \notin Existing /\ c # current
      /\ f \in FrameSet /\ f.kind = "iret" /\ f.ring = 3
  BY HereFacts, Zenon DEF Existing, Procs, FrameSet, StartFrame
<1>2. \A p \in Existing : /\ stack'[p] = stack[p] /\ life'[p] = life[p] /\ stack[p] # s
                          /\ frames'[stack[p]] = frames[stack[p]] /\ stack[p] \in Stacks
                          /\ p \in Procs /\ p # c
  BY <1>1, Zenon DEF Existing, Held, IInv, TypeOK, StackInv
<1>3. stack'[c] = s /\ life'[c] = "ready" /\ frames'[s] = <<f>> /\ cpu'[c] = pcb
  BY <1>1, Zenon DEF IInv, TypeOK
<1>4. Existing' = Existing \cup {c}
  BY <1>1, <1>2, <1>3, Zenon DEF Existing, IInv, TypeOK
<1>5. TypeOK'
  <2>1. frames' \in [Stacks -> Seq(FrameSet)]
    BY <1>1, OneFacts, Zenon DEF IInv, TypeOK
  <2>2. stack' \in [Procs -> Stacks \cup {BootStack}] /\ cpu' \in [Procs -> CpuSet]
    BY Zenon DEF IInv, TypeOK
  <2>3. life' \in [Procs -> {"none", "ready", "dead", "gone"}]
    BY Zenon DEF IInv, TypeOK
  <2> QED BY <2>1, <2>2, <2>3, Zenon DEF IInv, TypeOK
<1>6. CurrentInv'
  BY <1>2, <1>4, HereFacts DEF IInv, CurrentInv
<1>7. StackInv'
  <2>1. \A p, q \in Existing : p # q => stack[p] # stack[q]
    BY Zenon DEF IInv, StackInv
  <2>2. \A p \in Existing' : stack'[p] \in Stacks
    BY <1>2, <1>3, <1>4, Zenon
  <2>3. \A p, q \in Existing' : p # q => stack'[p] # stack'[q]
    BY <1>2, <1>3, <1>4, <2>1
  <2> QED BY <2>2, <2>3, Zenon DEF StackInv
<1>8. FramesInv'
  <2>1. ShapedStack(c, <<f>>)
    BY <1>1, OneFacts DEF ShapedStack, Shaped
  <2>2. \A p \in Existing : ShapedStack(p, frames[stack[p]])
    BY Zenon DEF IInv, FramesInv
  <2>3. \A p \in Existing' : ShapedStack(p, frames'[stack'[p]])
    BY <1>2, <1>3, <1>4, <2>1, <2>2
  <2> QED BY <2>3, Zenon DEF FramesInv
<1>9. AwayInv'
  <2>1. Waits(c, s, <<f>>, pcb)
    BY <1>1, OneFacts, Zenon DEF Waits
  <2>2. ASSUME NEW p \in Procs \ {current}, p # c, life'[p] = "ready"
        PROVE  Waits(p, stack'[p], frames'[stack'[p]], cpu'[p])
    <3>1. life[p] = "ready" /\ p \in Existing /\ cpu'[p] = cpu[p]
      BY <2>2, Zenon DEF IInv, TypeOK, Existing
    <3> QED BY <3>1, <1>2, Zenon DEF IInv, AwayInv
  <2>3. \A p \in Procs \ {current} :
           life'[p] = "ready" => Waits(p, stack'[p], frames'[stack'[p]], cpu'[p])
    BY <1>3, <2>1, <2>2, Zenon
  <2> QED BY <2>3, Zenon DEF AwayInv
<1>10. CallInv'
  <2>1. \A esp : Noted("ready", <<f>>, esp)
    BY <1>1, OneFacts, Zenon DEF Noted, Called
  <2>2. \A p \in Existing : Noted(life[p], frames[stack[p]], user_esp[p])
    BY Zenon DEF IInv, CallInv
  <2>3. \A p \in Existing' : Noted(life'[p], frames'[stack'[p]], user_esp'[p])
    BY <1>2, <1>3, <1>4, <2>1, <2>2
  <2> QED BY <2>3, Zenon DEF CallInv
<1>11. LocalsAreKept'
  <2>1. frames'[on'] = frames[on]
    BY <1>2, HereFacts, Zenon
  <2> QED BY <2>1, Zenon DEF IInv, LocalsAreKept, Depth, Top
<1> QED BY <1>5, <1>6, <1>7, <1>8, <1>9, <1>10, <1>11, Zenon DEF IInv

\* What elf_load makes of a file's registers.
LEMMA FileFrame ==
    ASSUME NEW p \in Users, NEW file \in Files[p], NEW s \in Stacks
    PROVE  /\ IretFrame(Restrict(file, {"rsp"})) \in StartFrame
           /\ DOMAIN IretFrame(Restrict(file, {"rsp"})).regs = {"rsp"}
           /\ IretFrame(Restrict(file, {"rsp"})).regs["rsp"] = file["rsp"]
           /\ Loaded(s, file) \in CpuSet /\ Loaded(s, file).on = s
           /\ Loaded(s, file).resume = "ring3"
<1>1. file \in [Regs -> Words] /\ Zero \in Words
  BY WordsFacts, Zenon
<1> QED BY <1>1, Zenon DEF IretFrame, StartFrame, Restrict, Regs, CpuRegs, Loaded, CpuSet

\* fork gives the child a stack nobody has and a frame to start from.
LEMMA sys_forkInv == IInv /\ sys_fork => IInv'
<1> SUFFICES ASSUME IInv, sys_fork PROVE IInv'
  OBVIOUS
<1> DEFINE regs == frames[on][Depth].regs
           f == IretFrame([r \in {"rax", "rsp"} |->
                              IF r = "rax" THEN Zero ELSE user_esp[current]])
           Pcb(s) == [regs |-> ForkCpu(regs), on |-> s, resume |-> "ring0"]
<1>1. PICK c \in Users, s \in Stacks :
         /\ life[c] = "none" /\ pmm_alloc(s)
         /\ life' = [life EXCEPT ![c] = "ready"]
         /\ stack' = [stack EXCEPT ![c] = s]
         /\ frames' = [frames EXCEPT ![s] = <<f>>]
         /\ cpu' = [cpu EXCEPT ![c] = Pcb(s)]
  BY Zenon DEF sys_fork
<1>2. UNCHANGED <<current, ring, iflag, isr0, live, on, tss0, user_esp>>
  BY Zenon DEF sys_fork
<1>3. f \in StartFrame /\ "rax" \in DOMAIN f.regs
  BY WordsFacts, HereFacts, Zenon DEF IretFrame, StartFrame, IInv, TypeOK
<1>4. Pcb(s) \in CpuSet /\ Pcb(s).on = s /\ Pcb(s).resume = "ring0"
  <2>1. regs \in [Regs -> Words]
    BY CallFacts, Zenon DEF sys_fork, InCall
  <2>2. ForkCpu(regs) \in [CpuRegs -> Words]
    BY <2>1, WordsFacts DEF ForkCpu, CpuRegs
  <2> QED BY <2>2, Zenon DEF CpuSet
<1>5. s \notin Held
  BY <1>1, Zenon DEF pmm_alloc
<1> HIDE DEF f, Pcb
<1> QED BY <1>1, <1>2, <1>3, <1>4, <1>5, ChildInv, Zenon

\* spawn gives the child a stack nobody has and a frame to start from.
LEMMA process_spawnInv == IInv /\ process_spawn => IInv'
<1> SUFFICES ASSUME IInv, process_spawn PROVE IInv'
  OBVIOUS
<1> DEFINE F(file) == IretFrame(Restrict(file, {"rsp"}))
<1>1. PICK c \in Users, s \in Stacks : \E file \in Files[c] :
         /\ life[c] = "none" /\ pmm_alloc(s)
         /\ life' = [life EXCEPT ![c] = "ready"]
         /\ stack' = [stack EXCEPT ![c] = s]
         /\ frames' = [frames EXCEPT ![s] = <<F(file)>>]
         /\ cpu' = [cpu EXCEPT ![c] = Loaded(s, file)]
  BY Zenon DEF process_spawn
<1>2. PICK file \in Files[c] :
         /\ life[c] = "none" /\ pmm_alloc(s)
         /\ life' = [life EXCEPT ![c] = "ready"]
         /\ stack' = [stack EXCEPT ![c] = s]
         /\ frames' = [frames EXCEPT ![s] = <<F(file)>>]
         /\ cpu' = [cpu EXCEPT ![c] = Loaded(s, file)]
  BY <1>1, Zenon
<1>3. UNCHANGED <<current, ring, iflag, isr0, live, on, tss0, user_esp>>
  BY Zenon DEF process_spawn
<1>4. F(file) \in StartFrame /\ "rax" \notin DOMAIN F(file).regs
  BY FileFrame
<1>5. Loaded(s, file) \in CpuSet /\ Loaded(s, file).on = s /\ Loaded(s, file).resume = "ring3"
  BY FileFrame, Zenon
<1>6. s \notin Held
  BY <1>2, Zenon DEF pmm_alloc
<1> HIDE DEF F
<1> QED BY <1>2, <1>3, <1>4, <1>5, <1>6, ChildInv, Zenon

\* exec gives the process another stack, with a frame to start from.
LEMMA process_execInv == IInv /\ process_exec => IInv'
<1> SUFFICES ASSUME IInv, process_exec PROVE IInv'
  OBVIOUS
<1> DEFINE F(file) == IretFrame(Restrict(file, {"rsp"}))
<1>1. PICK s \in Stacks, file \in Files[current] :
          /\ pmm_alloc(s)
          /\ stack' = [stack EXCEPT ![current] = s]
          /\ frames' = [frames EXCEPT ![stack[current]] = <<>>, ![s] = <<F(file)>>]
          /\ live' = [r \in Regs |-> IF r \in {"rdi", "rsi"} THEN file[r] ELSE Junk]
          /\ on' = s /\ tss0' = s
  BY Zenon DEF process_exec, tss_set_kernel_stack
<1>2. UNCHANGED <<current, ring, iflag, isr0, life, cpu, user_esp>>
  BY Zenon DEF process_exec
<1>3. /\ ring = 0 /\ life[current] = "ready" /\ current \in Users /\ current \in Procs
      /\ current \in Existing /\ stack[current] \in Stacks
  BY CallFacts, HereFacts, Zenon DEF process_exec, InCall
<1>4. F(file) \in FrameSet /\ F(file).kind = "iret" /\ F(file).ring = 3
  BY <1>3, FileFrame DEF FrameSet, StartFrame
<1> HIDE DEF F
<1>5. s \notin Held
  BY <1>1, Zenon DEF pmm_alloc
<1>6. Existing' = Existing
  BY <1>2, Zenon DEF Existing
<1>7. \A p \in Existing \ {current} :
          /\ stack'[p] = stack[p] /\ stack[p] # s /\ stack[p] # stack[current]
          /\ frames'[stack[p]] = frames[stack[p]] /\ stack[p] \in Stacks /\ p \in Procs
  BY <1>1, <1>3, <1>5, Zenon DEF Existing, Held, IInv, TypeOK, StackInv
<1>8. stack'[current] = s /\ frames'[s] = <<F(file)>> /\ s # stack[current]
  BY <1>1, <1>3, <1>5, Zenon DEF IInv, TypeOK, Held
<1>9. TypeOK'
  <2>1. frames' \in [Stacks -> Seq(FrameSet)]
    BY <1>1, <1>3, <1>4, OneFacts, EmptyFacts, Zenon DEF IInv, TypeOK
  <2>2. stack' \in [Procs -> Stacks \cup {BootStack}]
    BY <1>1, Zenon DEF IInv, TypeOK
  <2>3. live' \in [Regs -> Words]
    BY <1>1, <1>3, WordsFacts, Zenon
  <2>4. on' \in Stacks /\ tss0' \in Stacks \cup {BootStack}
    BY <1>1, Zenon
  <2>5. /\ current' \in Procs /\ ring' \in {0, 3} /\ iflag' \in BOOLEAN /\ isr0' \in BOOLEAN
        /\ life' \in [Procs -> {"none", "ready", "dead", "gone"}]
        /\ cpu' \in [Procs -> CpuSet] /\ user_esp' \in [Procs -> Words]
    BY <1>2, Zenon DEF IInv, TypeOK
  <2> QED BY <2>1, <2>2, <2>3, <2>4, <2>5, Zenon DEF TypeOK
<1>10. CurrentInv'
  <2>1. frames'[on'] # <<>> /\ ring' # 3
    <3>1. frames'[on'] = <<F(file)>>
      BY <1>1, <1>8, Zenon
    <3>2. ring' = 0
      BY <1>2, <1>3, Zenon
    <3>3. <<F(file)>> # <<>>
      BY <1>4, OneFacts, Zenon
    <3> QED BY <3>1, <3>2, <3>3
  <2>2. /\ current' \in Existing' /\ current' = current
        /\ on' = stack'[current'] /\ tss0' = stack'[current']
    BY <1>1, <1>2, <1>3, <1>6, <1>8, Zenon
  <2> QED BY <2>1, <2>2, Zenon DEF CurrentInv
<1>11. StackInv'
  <2>1. \A p, q \in Existing : p # q => stack[p] # stack[q]
    BY Zenon DEF IInv, StackInv
  <2>2. \A p \in Existing : stack'[p] \in Stacks
    BY <1>7, <1>8, Zenon
  <2>3. \A p, q \in Existing : p # q => stack'[p] # stack'[q]
    BY <1>7, <1>8, <2>1
  <2> QED BY <1>6, <2>2, <2>3, Zenon DEF StackInv
<1>12. FramesInv'
  <2>1. ShapedStack(current, <<F(file)>>)
    BY <1>3, <1>4, OneFacts DEF ShapedStack, Shaped
  <2>2. \A p \in Existing : ShapedStack(p, frames[stack[p]])
    BY Zenon DEF IInv, FramesInv
  <2>3. \A p \in Existing : ShapedStack(p, frames'[stack'[p]])
    BY <1>7, <1>8, <2>1, <2>2, Zenon
  <2> QED BY <1>6, <2>3, Zenon DEF FramesInv
<1>13. AwayInv'
  <2> SUFFICES ASSUME NEW p \in Procs \ {current}, life[p] = "ready"
               PROVE  Waits(p, stack'[p], frames'[stack'[p]], cpu[p])
    BY <1>2, Zenon DEF AwayInv
  <2>1. p \in Existing
    BY Zenon DEF Existing
  <2> QED BY <2>1, <1>7, Zenon DEF IInv, AwayInv
<1>14. CallInv'
  <2>1. \A esp : Noted("ready", <<F(file)>>, esp)
    BY <1>4, OneFacts, Zenon DEF Noted, Called
  <2>2. \A p \in Existing : Noted(life[p], frames[stack[p]], user_esp[p])
    BY Zenon DEF IInv, CallInv
  <2>3. \A p \in Existing : Noted(life[p], frames'[stack'[p]], user_esp[p])
    BY <1>3, <1>7, <1>8, <2>1, <2>2
  <2> QED BY <1>2, <1>6, <2>3, Zenon DEF CallInv
<1>15. LocalsAreKept'
  <2>1. frames'[on'] = <<F(file)>> /\ Len(<<F(file)>>) = 1 /\ <<F(file)>>[1].kind = "iret"
    BY <1>1, <1>4, <1>8, OneFacts, Zenon
  <2>2. Depth' = 1
    BY <2>1, Zenon DEF Depth
  <2>3. Top' = "iret"
    BY <2>1, <2>2 DEF Top
  <2> QED BY <2>3, Zenon DEF LocalsAreKept
<1> QED BY <1>9, <1>10, <1>11, <1>12, <1>13, <1>14, <1>15, Zenon DEF IInv

\* Who exits is in a call, and keeps its stack.
LEMMA sys_exitInv == IInv /\ sys_exit => IInv'
<1> SUFFICES ASSUME IInv, sys_exit PROVE IInv'
  OBVIOUS
<1>1. /\ life' = [life EXCEPT ![current] = "dead"] /\ iflag' = TRUE
      /\ UNCHANGED <<current, ring, isr0, live, on, tss0, stack, frames, cpu, user_esp>>
  BY Zenon DEF sys_exit
<1>2. /\ ring = 0 /\ current \in Procs /\ current \in Existing /\ Depth = 1
      /\ frames[on][1].kind = "call" /\ on = stack[current]
  BY CallFacts, HereFacts, Zenon DEF sys_exit, InCall
<1>3. /\ life'[current] = "dead" /\ life' \in [Procs -> {"none", "ready", "dead", "gone"}]
      /\ \A p \in Procs \ {current} : life'[p] = life[p]
  BY <1>1, <1>2, Zenon DEF IInv, TypeOK
<1>4. Existing' = Existing
  BY <1>2, <1>3, Zenon DEF Existing
<1>5. TypeOK'
  BY <1>1, <1>3, Zenon DEF IInv, TypeOK
<1>6. CurrentInv'
  BY <1>1, <1>2, <1>4, Zenon DEF IInv, CurrentInv
<1>7. StackInv' /\ FramesInv' /\ AwayInv'
  BY <1>1, <1>3, <1>4, Zenon DEF IInv, StackInv, FramesInv, AwayInv
<1>8. CallInv'
  <2>1. frames[on] # <<>>
    BY <1>2, HereFacts
  <2>2. Called(frames[stack[current]])
    BY <1>2, <2>1, Zenon DEF Called
  <2>3. \A p \in Existing : Noted(life[p], frames[stack[p]], user_esp[p]) /\ p \in Procs
    BY Zenon DEF IInv, CallInv, Existing
  <2>4. \A p \in Existing : Noted(life'[p], frames[stack[p]], user_esp[p])
    BY <1>2, <1>3, <2>2, <2>3, Zenon DEF Noted
  <2> QED BY <1>1, <1>4, <2>4, Zenon DEF CallInv
<1>9. LocalsAreKept'
  BY <1>1, Zenon DEF IInv, LocalsAreKept, Depth, Top
<1> QED BY <1>5, <1>6, <1>7, <1>8, <1>9, Zenon DEF IInv

\* Reaping frees the stack of a process that does not run.
LEMMA wait_reapInv == IInv /\ wait_reap => IInv'
<1> SUFFICES ASSUME IInv, wait_reap PROVE IInv'
  OBVIOUS
<1>1. PICK c \in Users :
          /\ life[c] = "dead" /\ c # current
          /\ life' = [life EXCEPT ![c] = "gone"]
          /\ stack' = [stack EXCEPT ![c] = BootStack]
          /\ frames' = [frames EXCEPT ![stack[c]] = <<>>]
          /\ cpu' = [cpu EXCEPT ![c] = NoCpu]
          /\ user_esp' = [user_esp EXCEPT ![c] = Zero]
  BY Zenon DEF wait_reap
<1>2. iflag' = TRUE /\ UNCHANGED <<current, ring, isr0, live, on, tss0>>
  BY Zenon DEF wait_reap
<1>3. c \in Procs /\ c \in Existing /\ stack[c] \in Stacks
  BY <1>1, Zenon DEF Existing, Procs, IInv, StackInv
<1>4. life'[c] = "gone"
  BY <1>1, <1>3, Zenon DEF IInv, TypeOK
<1>5. \A p \in Procs \ {c} : /\ life'[p] = life[p] /\ stack'[p] = stack[p]
                             /\ cpu'[p] = cpu[p] /\ user_esp'[p] = user_esp[p]
  BY <1>1, Zenon DEF IInv, TypeOK
<1>6. Existing' = Existing \ {c}
  BY <1>4, <1>5, Zenon DEF Existing
<1>7. \A p \in Existing \ {c} : frames'[stack[p]] = frames[stack[p]] /\ p \in Procs
  BY <1>1, <1>3, Zenon DEF Existing, IInv, TypeOK, StackInv
<1>8. TypeOK'
  <2>1. frames' \in [Stacks -> Seq(FrameSet)]
    BY <1>1, EmptyFacts, Zenon DEF IInv, TypeOK
  <2>2. stack' \in [Procs -> Stacks \cup {BootStack}] /\ user_esp' \in [Procs -> Words]
    BY <1>1, WordsFacts, Zenon DEF IInv, TypeOK
  <2>3. NoCpu \in CpuSet
    BY WordsFacts, Zenon DEF NoCpu, CpuSet
  <2>4. cpu' \in [Procs -> CpuSet]
    BY <1>1, <2>3, Zenon DEF IInv, TypeOK
  <2>5. life' \in [Procs -> {"none", "ready", "dead", "gone"}]
    BY <1>1, Zenon DEF IInv, TypeOK
  <2> QED BY <1>2, <2>1, <2>2, <2>4, <2>5, Zenon DEF IInv, TypeOK
<1>9. frames'[on] = frames[on] /\ current \in Existing \ {c} /\ current \in Procs
  BY <1>1, <1>7, HereFacts, Zenon
<1>10. CurrentInv'
  BY <1>2, <1>5, <1>6, <1>9, <1>1, Zenon DEF IInv, CurrentInv
<1>11. StackInv'
  <2>1. \A p \in Existing : stack[p] \in Stacks /\ \A q \in Existing : p # q => stack[p] # stack[q]
    BY Zenon DEF IInv, StackInv
  <2> QED BY <1>5, <1>6, <1>7, <2>1 DEF StackInv
<1>12. FramesInv'
  <2>1. \A p \in Existing : ShapedStack(p, frames[stack[p]])
    BY Zenon DEF IInv, FramesInv
  <2> QED BY <1>5, <1>6, <1>7, <2>1, Zenon DEF FramesInv
<1>13. AwayInv'
  <2> SUFFICES ASSUME NEW p \in Procs \ {current}, life'[p] = "ready"
               PROVE  Waits(p, stack'[p], frames'[stack'[p]], cpu'[p])
    BY <1>2, Zenon DEF AwayInv
  <2>1. p # c
    BY <1>4, Zenon
  <2>2. life[p] = "ready" /\ p \in Existing \ {c}
    BY <2>1, <1>5, Zenon DEF Existing
  <2> QED BY <2>1, <2>2, <1>5, <1>7, Zenon DEF IInv, AwayInv
<1>14. CallInv'
  <2>1. \A p \in Existing : Noted(life[p], frames[stack[p]], user_esp[p])
    BY Zenon DEF IInv, CallInv
  <2> QED BY <1>5, <1>6, <1>7, <2>1, ZenonT(60) DEF CallInv
<1>15. LocalsAreKept'
  BY <1>2, <1>9, Zenon DEF IInv, LocalsAreKept, Depth, Top
<1> QED BY <1>8, <1>10, <1>11, <1>12, <1>13, <1>14, <1>15, Zenon DEF IInv
-----------------------------------------------------------------------------
\* What a switch loads for a process that waits.
LEMMA ResumedFacts ==
    ASSUME IInv, NEW new \in Procs, new # current, life[new] = "ready"
    PROVE  /\ Resumed(new) \in [Regs -> Words] /\ cpu[new].on = stack[new]
           /\ stack[new] \in Stacks /\ frames[stack[new]] \in Seq(FrameSet)
           /\ new \in Users => frames[stack[new]] # <<>>
           /\ \/ Len(frames[stack[new]]) = 1 /\ frames[stack[new]][1].kind = "iret"
              \/ Local(new, Len(frames[stack[new]]), Resumed(new))
<1> DEFINE fs == frames[stack[new]]
<1>1. new \in Existing /\ stack[new] \in Stacks /\ fs \in Seq(FrameSet)
  BY Zenon DEF Existing, IInv, StackInv, TypeOK
<1>2. Waits(new, stack[new], fs, cpu[new])
  BY Zenon DEF IInv, AwayInv
<1>3. /\ cpu[new].on = stack[new] /\ (new \in Users => fs # <<>>)
      /\ cpu[new].resume \in {"entry", "ring0", "ring3"}
  BY <1>2, Zenon DEF Waits
<1>4. cpu[new].regs \in [CpuRegs -> Words] /\ live \in [Regs -> Words]
  BY Zenon DEF IInv, TypeOK, CpuSet
<1>5. CASE cpu[new].resume = "entry"
  <2>1. Resumed(new) = Kernel(new, 0)
    BY <1>5, Zenon DEF Resumed
  <2>2. Len(fs) = 0
    BY <1>2, <1>5, Zenon DEF Waits
  <2> QED BY <2>1, <2>2, <1>1, <1>3, WordsFacts
<1>6. CASE cpu[new].resume = "ring0"
  <2> DEFINE kept == Restrict(cpu[new].regs, CpuRegs \ {"rdi"})
  <2>1. Resumed(new) = Over(kept, live)
    BY <1>6, Zenon DEF Resumed, Restored
  <2>2. kept \in [CpuRegs \ {"rdi"} -> Words]
    BY <1>4, Zenon DEF Restrict
  <2>3. CpuRegs \ {"rdi"} \in SUBSET Regs
    BY Zenon DEF CpuRegs
  <2> HIDE DEF kept
  <2>4. /\ Resumed(new) \in [Regs -> Words]
        /\ \A r \in CpuRegs \ {"rdi"} : Resumed(new)[r] = kept[r]
    <3> DEFINE D == CpuRegs \ {"rdi"}
    <3>1. kept \in [D -> Words] /\ D \in SUBSET Regs
      BY <2>2, <2>3, Zenon
    <3> HIDE DEF D
    <3>2. Over(kept, live) \in [Regs -> Words] /\ \A r \in D : Over(kept, live)[r] = kept[r]
      BY <3>1, <1>4, OverType, Zenon
    <3> QED BY <3>2, <2>1, Zenon DEF D
  <2>5. \A r \in CalleeSaved : Resumed(new)[r] = cpu[new].regs[r]
    BY <2>4, <1>4, Zenon DEF kept, Restrict, CalleeSaved, CpuRegs, Regs
  <2>6. \/ Len(fs) = 1 /\ fs[1].kind = "iret"
        \/ Local(new, Len(fs), cpu[new].regs)
    BY <1>2, <1>6, Zenon DEF Waits
  <2> QED BY <2>4, <2>5, <2>6, <1>1, <1>3, Zenon DEF Local
<1>7. CASE cpu[new].resume = "ring3"
  <2>1. Resumed(new) = Over(cpu[new].regs, live)
    BY <1>7, Zenon DEF Resumed
  <2>2. CpuRegs \in SUBSET Regs
    BY DEF CpuRegs
  <2>3. Resumed(new) \in [Regs -> Words]
    BY <2>1, <2>2, <1>4, OverType
  <2>4. Len(fs) = 1 /\ fs[1].kind = "iret"
    BY <1>2, <1>7, Zenon DEF Waits
  <2> QED BY <2>3, <2>4, <1>1, <1>3, Zenon
<1> QED BY <1>3, <1>5, <1>6, <1>7, Zenon

\* A switch stores the locals of one process and loads those of the other.
LEMMA switch_contextInv ==
    ASSUME IInv, NEW new \in Procs, switch_context(new) PROVE IInv'
<1> DEFINE saved == [regs |-> Saved(live), on |-> on, resume |-> "ring0"]
           fs == frames[stack[new]]
<1>1. /\ new # current /\ life[new] = "ready" /\ current' = new /\ tss0' = stack[new]
      /\ cpu' = [cpu EXCEPT ![current] = saved, ![new] = NoCpu]
      /\ live' = Resumed(new) /\ on' = cpu[new].on
      /\ UNCHANGED <<ring, iflag, isr0, life, stack, frames, user_esp>>
  BY Zenon DEF switch_context, tss_set_kernel_stack
<1>2. ring = 0 /\ Top # "iret"
  BY Zenon DEF switch_context, InThread
<1>3. /\ live' \in [Regs -> Words] /\ on' = stack[new] /\ stack[new] \in Stacks
      /\ fs \in Seq(FrameSet) /\ (new \in Users => fs # <<>>)
      /\ (Len(fs) = 1 /\ fs[1].kind = "iret") \/ Local(new, Len(fs), live')
  BY <1>1, ResumedFacts, Zenon
<1>4. saved \in CpuSet /\ NoCpu \in CpuSet
  <2>1. Saved(live) \in [CpuRegs -> Words]
    BY WordsFacts, Zenon DEF Saved, CpuRegs, IInv, TypeOK
  <2>2. on \in Stacks
    BY HereFacts, Zenon
  <2> QED BY <2>1, <2>2, WordsFacts, Zenon DEF CpuSet, NoCpu
<1> HIDE DEF saved
<1>5. cpu' \in [Procs -> CpuSet]
  <2>1. cpu \in [Procs -> CpuSet]
    BY Zenon DEF IInv, TypeOK
  <2> QED BY <1>1, <1>4, <2>1, TwoPuts, Zenon
<1>6. TypeOK'
  BY <1>1, <1>3, <1>5, Zenon DEF IInv, TypeOK
<1>7. Existing' = Existing /\ new \in Existing
  BY <1>1, Zenon DEF Existing
<1>8. CurrentInv'
  <2>1. ring' # 3
    BY <1>1, <1>2
  <2> QED BY <2>1, <1>1, <1>3, <1>7, Zenon DEF CurrentInv
<1>9. StackInv' /\ FramesInv' /\ CallInv'
  BY <1>1, <1>7, Zenon DEF IInv, StackInv, FramesInv, CallInv
<1>10. AwayInv'
  <2>1. Waits(current, stack[current], frames[stack[current]], saved)
    <3>1. ~(Len(frames[on]) = 1 /\ frames[on][1].kind = "iret")
      BY <1>2, HereFacts
    <3>2. Local(current, Len(frames[on]), Saved(live))
      BY <1>2, LocalHere, HereFacts, Zenon DEF Local, Saved, CalleeSaved, CpuRegs, Regs
    <3>3. current \in Users => frames[on] # <<>>
      BY <1>2, Zenon DEF IInv, CurrentInv
    <3>4. saved.on = on /\ saved.resume = "ring0" /\ saved.regs = Saved(live)
      BY Zenon DEF saved
    <3> QED BY <3>1, <3>2, <3>3, <3>4, HereFacts, Zenon DEF Waits
  <2>2. cpu'[current] = saved
    BY <1>1, HereFacts, Zenon DEF IInv, TypeOK
  <2>3. ASSUME NEW p \in Procs \ {new}, p # current, life[p] = "ready"
        PROVE  Waits(p, stack[p], frames[stack[p]], cpu'[p])
    <3>1. cpu'[p] = cpu[p]
      BY <2>3, <1>1, Zenon DEF IInv, TypeOK
    <3> QED BY <3>1, <2>3, Zenon DEF IInv, AwayInv
  <2>4. \A p \in Procs \ {new} : life[p] = "ready" => Waits(p, stack[p], frames[stack[p]], cpu'[p])
    BY <2>1, <2>2, <2>3, Zenon
  <2> QED BY <1>1, <2>4, Zenon DEF AwayInv
<1>11. LocalsAreKept'
  <2> SUFFICES ASSUME Top' # "iret" PROVE LocalsAreKept'
    BY Zenon DEF LocalsAreKept
  <2>1. Depth' = Len(fs) /\ frames'[on'] = fs /\ Len(fs) \in Nat
    BY <1>1, <1>3 DEF Depth
  <2>2. ~(Len(fs) = 1 /\ fs[1].kind = "iret")
    BY <2>1 DEF Top
  <2>3. Local(new, Len(fs), live') /\ Local(new, Len(fs), Kernel(new, Len(fs)))
    BY <2>1, <2>2, <1>3, WordsFacts, Zenon
  <2> QED BY <2>1, <2>3, <1>1, Zenon DEF LocalsAreKept, Local
<1> QED BY <1>6, <1>8, <1>9, <1>10, <1>11, Zenon DEF IInv

\* Every step keeps the inductive invariant.
LEMMA NextInv == IInv /\ [Next]_vars => IInv'
<1> SUFFICES ASSUME IInv, [Next]_vars PROVE IInv'
  OBVIOUS
<1>1. CASE UNCHANGED vars
  BY <1>1, Zenon DEF vars, IInv, TypeOK, CurrentInv, StackInv, FramesInv, AwayInv, CallInv,
     LocalsAreKept, Existing, Depth, Top
<1>2. ASSUME NEW new \in Procs, switch_context(new) PROVE IInv'
  BY <1>2, switch_contextInv, Zenon
<1> QED
  BY <1>1, <1>2, ComputeInv, irq_userInv, irq_kernelInv, pic_send_eoiInv, iretqInv,
     syscall_entryInv, sysretInv, FlagsInv, sys_forkInv, process_execInv, process_spawnInv,
     sys_exitInv, wait_reapInv, Zenon DEF Next

\* The inductive invariant holds in every state.
THEOREM Invariance == Spec => []IInv
BY InitInv, NextInv, PTL DEF Spec

\* Code that runs in the kernel finds its own locals in the callee-saved
\* registers, whatever interrupts and switches came in between (switch.asm).
THEOREM LocalsSurvive == Spec => []LocalsAreKept
<1>1. IInv => LocalsAreKept
  BY DEF IInv
<1> QED BY <1>1, Invariance, PTL

\* The kernel stack in use and the one the TSS names are the current process's
\* own and nobody else's (tss.c, scheduler.c, process.c).
THEOREM StacksAreOwn == Spec => []StackIsOwn
<1>1. IInv => StackIsOwn
  <2> SUFFICES ASSUME IInv PROVE StackIsOwn
    OBVIOUS
  <2>1. on = stack[current] /\ (current \in Users => tss0 = stack[current])
        /\ (ring = 3 => current \in Users /\ frames[on] = <<>>)
    BY Zenon DEF IInv, CurrentInv
  <2>2. \A p, q \in Existing : p # q => stack[p] # stack[q]
    BY Zenon DEF IInv, StackInv
  <2> QED BY <2>1, <2>2, Zenon DEF StackIsOwn
<1> QED BY <1>1, Invariance, PTL
-----------------------------------------------------------------------------
(***************************************************************************)
(* Context implements Machines: traps, switches and the comings and goings *)
(* of others do not show in a program's registers.                         *)
(***************************************************************************)

\* RegsOf and ModeOf, as functions of what they look at.
StartRegs(f, below) ==
    [r \in Regs |-> IF r \in Undetermined(f) THEN Unknown
                    ELSE IF r \in DOMAIN f THEN f[r] ELSE below[r]]
RegsView(l, fs, below, regs) ==
    IF l # "ready" THEN [r \in Regs |-> Unknown]
    ELSE IF fs = <<>> THEN regs
    ELSE IF fs[1].kind = "iret" THEN StartRegs(fs[1].regs, below)
    ELSE fs[1].regs
ModeView(l, fs) ==
    IF l # "ready" THEN l
    ELSE IF fs # <<>> /\ fs[1].kind = "iret" THEN "new"
    ELSE IF fs # <<>> /\ fs[1].kind = "call" THEN "call"
    ELSE "user"

\* RegsOf and ModeOf look at nothing else.
LEMMA Views ==
    ASSUME NEW p
    PROVE  /\ RegsOf(p) = RegsView(life[p], frames[stack[p]], Below(p), live)
           /\ ModeOf(p) = ModeView(life[p], frames[stack[p]])
           /\ RegsOf(p)' = RegsView(life'[p], frames'[stack'[p]], Below(p)', live')
           /\ ModeOf(p)' = ModeView(life'[p], frames'[stack'[p]])
BY Zenon DEF RegsOf, ModeOf, RegsView, ModeView, NotStarted, StartRegs

\* How a ready process looks, before and after a step.
LEMMA Seen ==
    ASSUME NEW p, life[p] = "ready"
    PROVE  /\ frames[stack[p]] = <<>> => RegsOf(p) = live /\ ModeOf(p) = "user"
           /\ frames[stack[p]] # <<>> =>
                LET f == frames[stack[p]][1]
                IN  /\ f.kind = "iret" => /\ RegsOf(p) = StartRegs(f.regs, Below(p))
                                          /\ ModeOf(p) = "new"
                    /\ f.kind = "call" => RegsOf(p) = f.regs /\ ModeOf(p) = "call"
                    /\ f.kind \notin {"iret", "call"} =>
                          RegsOf(p) = f.regs /\ ModeOf(p) = "user"
BY Views DEF RegsView, ModeView

LEMMA SeenAfter ==
    ASSUME NEW p, life'[p] = "ready"
    PROVE  /\ frames'[stack'[p]] = <<>> => RegsOf(p)' = live' /\ ModeOf(p)' = "user"
           /\ frames'[stack'[p]] # <<>> =>
                LET f == frames'[stack'[p]][1]
                IN  /\ f.kind = "iret" => /\ RegsOf(p)' = StartRegs(f.regs, Below(p)')
                                          /\ ModeOf(p)' = "new"
                    /\ f.kind = "call" => RegsOf(p)' = f.regs /\ ModeOf(p)' = "call"
                    /\ f.kind \notin {"iret", "call"} =>
                          RegsOf(p)' = f.regs /\ ModeOf(p)' = "user"
BY Views DEF RegsView, ModeView

\* A process that neither runs nor will run, and to which nothing happens,
\* looks the same.
Kept(p) == RegsOf(p)' = RegsOf(p) /\ ModeOf(p)' = ModeOf(p)

\* This covers every process that only waits.
LEMMA OtherKept ==
    ASSUME IInv, NEW p \in Users, p # current, p # current',
           life'[p] = life[p],
           life[p] = "ready" => /\ stack'[p] = stack[p] /\ cpu'[p] = cpu[p]
                                /\ frames'[stack[p]] = frames[stack[p]]
    PROVE  Kept(p)
<1>1. CASE life[p] # "ready"
  BY <1>1, Views, Zenon DEF RegsView, ModeView, Kept
<1>2. CASE life[p] = "ready"
  <2>1. frames[stack[p]] # <<>>
    BY <1>2, Zenon DEF IInv, AwayInv, Waits, Procs
  <2>2. Below(p)' = Below(p)
    BY <1>2 DEF Below
  <2> QED BY <1>2, <2>1, <2>2, Views DEF RegsView, ModeView, Kept
<1> QED BY <1>1, <1>2

\* This covers the process that runs before or after the step.
LEMMA HereKept ==
    ASSUME NEW p, life'[p] = life[p], stack'[p] = stack[p],
           frames'[stack[p]] = frames[stack[p]],
           frames[stack[p]] # <<>>,
           frames[stack[p]][1].kind = "iret" =>
              LET f == frames[stack[p]][1].regs
              IN  StartRegs(f, Below(p)') = StartRegs(f, Below(p))
    PROVE  Kept(p)
BY Views DEF RegsView, ModeView, Kept

\* This covers a process to which nothing happens, running or not.
LEMMA UntouchedKept ==
    ASSUME NEW p, life'[p] = life[p], live' = live,
           life[p] = "ready" => /\ stack'[p] = stack[p] /\ Below(p)' = Below(p)
                                /\ frames'[stack[p]] = frames[stack[p]]
    PROVE  Kept(p)
BY Views DEF RegsView, ModeView, Kept

\* A stack that is not empty has one frame or more.
LEMMA OneOrMore == \A d \in Nat : d > 0 => d = 1 \/ d > 1
OBVIOUS

\* Steps of Machines, from what they do to one process.
LEMMA Stutter ==
    ASSUME \A p \in Users : Kept(p) PROVE UNCHANGED M!vars
BY DEF Kept, M!vars

\* A step that keeps all programs but one changes the one.
LEMMA OneChanges ==
    ASSUME NEW p \in Users, \A q \in Users \ {p} : Kept(q)
    PROVE  /\ [q \in Users |-> RegsOf(q)]' =
                 [[q \in Users |-> RegsOf(q)] EXCEPT ![p] = RegsOf(p)']
           /\ [q \in Users |-> ModeOf(q)]' =
                 [[q \in Users |-> ModeOf(q)] EXCEPT ![p] = ModeOf(p)']
BY Zenon DEF Kept

\* An own step keeps the others.
LEMMA OwnStepKeeps ==
    ASSUME IInv, OwnStep, NEW u, u = current PROVE \A p \in Users \ {u} : Kept(p)
<1> TAKE p \in Users \ {u}
<1>1. life[p] = "ready" => p \in Existing /\ stack[p] \in Stacks \ {stack[current]}
  BY HereFacts DEF Existing, Procs, IInv, StackInv
<1> QED BY <1>1, OtherKept DEF OwnStep

\* What a frame of a stack is.
LEMMA FrameIs ==
    ASSUME NEW fs \in Seq(FrameSet), fs # <<>>
    PROVE  /\ fs[1].kind \in {"irq", "tail", "call", "iret"}
           /\ fs[1].kind # "iret" => fs[1].regs \in [Regs -> Words]
           /\ fs[1].kind = "iret" => \/ fs[1].regs \in [{"rsp"} -> Words]
                                     \/ fs[1].regs \in [{"rax", "rsp"} -> Words]
<1>1. fs[1] \in FrameSet
  BY EmptyFacts
<1> QED BY <1>1 DEF FrameSet, TrapFrame, StartFrame
-----------------------------------------------------------------------------
\* A program that computes.
LEMMA ComputeStep == ASSUME IInv, Compute, NEW u, u = current PROVE M!Next
<1>1. /\ u \in Users /\ life[u] = "ready" /\ frames[stack[u]] = <<>>
      /\ live' \in Files[u] /\ OwnStep
  BY HereFacts, Zenon DEF Compute, IInv, CurrentInv, OwnStep
<1>2. life'[u] = "ready" /\ frames'[stack'[u]] = <<>>
  BY <1>1 DEF Compute
<1>3. ModeOf(u) = "user" /\ ModeOf(u)' = "user" /\ RegsOf(u)' = live'
  BY <1>1, <1>2, Views, Zenon DEF RegsView, ModeView
<1>4. /\ [q \in Users |-> RegsOf(q)]' = [[q \in Users |-> RegsOf(q)] EXCEPT ![u] = live']
      /\ [q \in Users |-> ModeOf(q)]' = [[q \in Users |-> ModeOf(q)] EXCEPT ![u] = "user"]
  BY <1>1, <1>3, OwnStepKeeps, OneChanges, Zenon
<1>5. UNCHANGED [q \in Users |-> ModeOf(q)]
  BY <1>1, <1>3, <1>4, Zenon
<1>6. M!Compute(u)
  BY <1>1, <1>3, <1>4, <1>5, Zenon DEF M!Compute
<1> QED BY <1>1, <1>6, Zenon DEF M!Next

\* An interrupt stores a program's registers where they are looked for.
LEMMA irq_userStep == ASSUME IInv, irq_user, NEW u, u = current PROVE UNCHANGED M!vars
<1> DEFINE f == Frame("irq", live)
<1>1. /\ u \in Users /\ life[u] = "ready" /\ frames[stack[u]] = <<>>
      /\ tss0 = stack[u] /\ stack[u] \in Stacks
      /\ frames' = [frames EXCEPT ![stack[u]] = <<f>>]
      /\ UNCHANGED <<current, tss0, life, stack, cpu, user_esp>> /\ on' = stack[u]
  BY HereFacts, Zenon DEF irq_user, IInv, CurrentInv
<1>2. f.kind = "irq" /\ f.regs = live
  BY DEF Frame
<1> HIDE DEF f
<1>3. OwnStep /\ life'[u] = "ready" /\ frames'[stack'[u]] = <<f>>
  BY <1>1 DEF OwnStep, IInv, TypeOK
<1>4. <<f>> # <<>> /\ <<f>>[1] = f
  BY OneFacts, Zenon
<1>5. RegsOf(u) = live /\ ModeOf(u) = "user"
  BY <1>1, Seen, Zenon
<1>6. RegsOf(u)' = live /\ ModeOf(u)' = "user"
  BY <1>2, <1>3, <1>4, SeenAfter
<1>7. Kept(u)
  BY <1>5, <1>6, Zenon DEF Kept
<1> QED BY <1>3, <1>7, OwnStepKeeps, Stutter, Zenon

\* An own step that leaves the oldest frame's kind and registers, and what is
\* below a starting program's frame, is a stutter.
LEMMA DeepStep ==
    ASSUME IInv, OwnStep, NEW u, u = current,
           u \in Users =>
              /\ frames[stack[u]] # <<>> /\ frames'[stack[u]] # <<>>
              /\ LET f == frames[stack[u]][1]
                     g == frames'[stack[u]][1]
                 IN  /\ g.regs = f.regs
                     /\ (g.kind = "iret" <=> f.kind = "iret")
                     /\ (g.kind = "call" <=> f.kind = "call")
                     /\ f.kind = "iret" => Below(u)' = Below(u)
    PROVE  UNCHANGED M!vars
<1>1. life'[u] = life[u] /\ stack'[u] = stack[u]
  BY Zenon DEF OwnStep
<1>2. u \in Users => Kept(u)
  <2> SUFFICES ASSUME u \in Users PROVE Kept(u)
    BY Zenon
  <2>1. CASE life[u] # "ready"
    BY <1>1, <2>1, Views DEF RegsView, ModeView, Kept
  <2>2. CASE life[u] = "ready"
    BY <1>1, <2>2, Seen, SeenAfter DEF Kept
  <2> QED BY <2>1, <2>2, Zenon
<1> QED BY <1>2, OwnStepKeeps, Stutter, Zenon

\* An interrupt in the kernel does not show.
LEMMA irq_kernelStep == ASSUME IInv, irq_kernel, NEW u, u = current PROVE UNCHANGED M!vars
<1> DEFINE f == Frame("irq", live)
           fs == frames[on]
           gs == Append(fs, f)
<1>1. ring = 0 /\ Depth \in Nat /\ Depth = Len(fs) /\ on = stack[u] /\ on \in Stacks
      /\ fs \in Seq(FrameSet)
  BY HereFacts, Zenon DEF irq_kernel
<1>2. f \in FrameSet /\ f.regs = live
  BY <1>1 DEF Frame, FrameSet, TrapFrame, IInv, TypeOK
<1>3. frames' = [frames EXCEPT ![stack[u]] = gs] /\ UNCHANGED <<current, on, stack>>
  BY <1>1, Zenon DEF irq_kernel
<1> HIDE DEF f
<1>4. Len(gs) = Depth + 1 /\ gs[Depth + 1] = f /\ \A i \in 1 .. Depth : gs[i] = fs[i]
      /\ gs \in Seq(FrameSet)
  BY <1>1, <1>2, PushFacts
<1> HIDE DEF gs
<1>5. OwnStep
  BY <1>1, <1>3, Zenon DEF irq_kernel, OwnStep, IInv, TypeOK
<1>6. frames'[stack[u]] = gs
  BY <1>1, <1>3 DEF IInv, TypeOK
<1>7. u \in Users => Depth > 0
  BY <1>1, EmptyFacts DEF IInv, CurrentInv
<1>8. u \in Users => fs # <<>> /\ gs # <<>> /\ gs[1] = fs[1]
  BY <1>1, <1>4, <1>7, EmptyFacts
<1>9. u \in Users /\ fs[1].kind = "iret" => Below(u)' = Below(u)
  <2> SUFFICES ASSUME u \in Users PROVE Below(u)' = Below(u)
    OBVIOUS
  <2>1. CASE Depth = 1
    <3>1. Below(u) = live
      BY <2>1, <1>1 DEF Below
    <3>2. Len(gs) = 2 /\ gs[2] = f
      BY <2>1, <1>4
    <3>3. Below(u)' = gs[2].regs
      BY <3>2, <1>3, <1>6 DEF Below
    <3> QED BY <3>1, <3>2, <3>3, <1>2
  <2>2. CASE Depth > 1
    <3>1. Below(u) = fs[2].regs
      BY <2>2, <1>1, Zenon DEF Below
    <3>2. Below(u)' = gs[2].regs
      BY <2>2, <1>1, <1>3, <1>4, <1>6 DEF Below
    <3> QED BY <2>2, <3>1, <3>2, <1>1, <1>4
  <2> QED BY <2>1, <2>2, <1>1, <1>7, OneOrMore, Zenon
<1> QED BY <1>1, <1>5, <1>6, <1>8, <1>9, DeepStep, Zenon

\* The end of an interrupt does not show.
LEMMA pic_send_eoiStep == ASSUME IInv, pic_send_eoi, NEW u, u = current PROVE UNCHANGED M!vars
<1> DEFINE fs == frames[on]
           gs == [fs EXCEPT ![Depth].kind = "tail"]
<1>1. Depth \in Nat /\ Depth = Len(fs) /\ on = stack[u] /\ on \in Stacks
      /\ fs \in Seq(FrameSet) /\ Depth > 0 /\ fs[Depth].kind = "irq"
  BY HereFacts, IrqFacts, Zenon DEF pic_send_eoi
<1>2. frames' = [frames EXCEPT ![stack[u]] = gs] /\ UNCHANGED <<current, live, on, stack>>
  BY <1>1, Zenon DEF pic_send_eoi
<1>3. gs \in Seq(FrameSet) /\ Len(gs) = Len(fs)
      /\ \A i \in 1 .. Len(fs) :
            /\ gs[i].regs = fs[i].regs /\ (gs[i].kind = "iret" <=> fs[i].kind = "iret")
            /\ (gs[i].kind = "call" <=> fs[i].kind = "call")
  BY <1>1, MarkFacts
<1> HIDE DEF gs
<1>4. OwnStep
  BY <1>1, <1>2, Zenon DEF pic_send_eoi, OwnStep, IInv, TypeOK
<1>5. frames'[stack[u]] = gs
  BY <1>1, <1>2, Zenon DEF IInv, TypeOK
<1>6. fs # <<>> /\ gs # <<>> /\ 1 \in 1 .. Len(fs)
  BY <1>1, <1>3, EmptyFacts
<1>7. Below(u)' = Below(u)
  <2>1. CASE Depth = 1
    BY <2>1, <1>1, <1>2, <1>3, <1>5 DEF Below
  <2>2. CASE Depth > 1
    <3>1. Below(u) = fs[2].regs
      BY <2>2, <1>1, Zenon DEF Below
    <3>2. Below(u)' = gs[2].regs
      BY <2>2, <1>1, <1>2, <1>3, <1>5 DEF Below
    <3> QED BY <2>2, <3>1, <3>2, <1>1, <1>3
  <2> QED BY <2>1, <2>2, <1>1, OneOrMore, Zenon
<1> QED BY <1>1, <1>3, <1>4, <1>5, <1>6, <1>7, DeepStep

\* A return from an interrupt starts a program or does not show.
LEMMA iretqStep ==
    ASSUME IInv, iretq, NEW u, u = current PROVE M!Next \/ UNCHANGED M!vars
<1> DEFINE fs == frames[on]
           gs == SubSeq(fs, 1, Depth - 1)
<1>1. Depth \in Nat /\ Depth = Len(fs) /\ on = stack[u] /\ on \in Stacks
      /\ fs \in Seq(FrameSet) /\ Top \in {"tail", "iret"} /\ u \in Procs
  BY HereFacts, Zenon DEF iretq
<1>2. Depth > 0 /\ fs[Depth].kind = Top
  BY <1>1, HereFacts
<1>3. /\ frames' = [frames EXCEPT ![stack[u]] = gs] /\ live' = Over(fs[Depth].regs, live)
      /\ UNCHANGED <<current, on, tss0, life, stack, cpu, user_esp>>
  BY <1>1, Zenon DEF iretq
<1>4. gs \in Seq(FrameSet) /\ Len(gs) = Depth - 1
      /\ \A i \in 1 .. Depth - 1 : gs[i] = fs[i]
  BY <1>1, <1>2, PopFacts, Zenon
<1> HIDE DEF gs
<1>5. OwnStep
  BY <1>1, <1>3, Zenon DEF OwnStep, IInv, TypeOK
<1>6. frames'[stack[u]] = gs /\ frames'[stack'[u]] = gs
  BY <1>1, <1>3, Zenon DEF IInv, TypeOK
<1>7. fs # <<>>
  BY <1>1, <1>2, EmptyFacts
<1>8. CASE Depth > 1
  <2>1. Top = "tail" /\ fs[Depth].regs \in [Regs -> Words]
    <3>1. Top # "iret"
      BY <1>8, StartFacts
    <3> QED BY <3>1, <1>1, IrqFacts, Zenon
  <2>2. live' = fs[Depth].regs
    BY <2>1, <1>3, OverFull, Zenon
  <2>3. gs # <<>> /\ gs[1] = fs[1]
    BY <1>1, <1>4, <1>8, EmptyFacts
  <2>4. Below(u) = fs[2].regs
    BY <1>1, <1>8, Zenon DEF Below
  <2>5. Below(u)' = fs[2].regs
    <3>1. CASE Depth = 2
      <4>1. Len(gs) = 1
        BY <3>1, <1>4
      <4>2. Below(u)' = live'
        BY <4>1, <1>3, <1>6 DEF Below
      <4> QED BY <4>2, <2>2, <3>1
    <3>2. CASE Depth > 2
      <4>1. Len(gs) > 1 /\ gs[2] = fs[2]
        BY <3>2, <1>1, <1>4
      <4> QED BY <4>1, <1>6, Zenon DEF Below
    <3>3. Depth = 2 \/ Depth > 2
      <4>1. \A d \in Nat : d > 1 => d = 2 \/ d > 2
        OBVIOUS
      <4> QED BY <4>1, <1>1, <1>8, Zenon
    <3> QED BY <3>1, <3>2, <3>3
  <2> QED BY <2>3, <2>4, <2>5, <1>1, <1>5, <1>6, <1>7, DeepStep, Zenon
<1>9. CASE Depth = 1
  <2>1. gs = <<>> /\ fs[1].kind = Top /\ live' = Over(fs[1].regs, live)
    BY <1>2, <1>3, <1>4, <1>9, EmptyFacts
  <2>2. CASE u \notin Users
    BY <2>2, <1>5, DeepStep, Zenon
  <2>3. CASE u \in Users
    <3>1. Noted(life[u], fs, user_esp[u]) /\ u \in Existing
      BY <1>1, HereFacts, Zenon DEF IInv, CallInv
    <3>2. life[u] # "dead"
      BY <3>1, <2>1, <1>1, Zenon DEF Noted, Called
    <3>3. life[u] = "ready" /\ life'[u] = "ready"
      BY <3>1, <3>2, <1>3, Zenon DEF Existing
    <3>4. ModeOf(u)' = "user" /\ RegsOf(u)' = live'
      BY <3>3, <2>1, <1>6, Views, Zenon DEF RegsView, ModeView
    <3>5. CASE Top = "tail"
      <4>1. live' = fs[1].regs
        BY <3>5, <2>1, <1>9, IrqFacts, OverFull, Zenon
      <4>2. ModeOf(u) = "user" /\ RegsOf(u) = fs[1].regs
        BY <3>3, <3>5, <2>1, <1>1, <1>7, Views, Zenon DEF RegsView, ModeView
      <4> QED BY <4>1, <4>2, <3>4, <1>5, OwnStepKeeps, Stutter, Zenon DEF Kept
    <3>6. CASE Top = "iret"
      <4>1. ModeOf(u) = "new" /\ RegsOf(u) = StartRegs(fs[1].regs, Below(u))
        BY <3>3, <3>6, <2>1, <1>1, <1>7, Views, Zenon DEF RegsView, ModeView
      <4>2. Below(u) = live
        BY <1>1, <1>9 DEF Below
      <4>3. \A r \in Regs : RegsOf(u)[r] # Unknown => live'[r] = RegsOf(u)[r]
        BY <4>1, <4>2, <2>1, Zenon DEF StartRegs, Over
      <4>4. /\ [q \in Users |-> RegsOf(q)]' = [[q \in Users |-> RegsOf(q)] EXCEPT ![u] = live']
            /\ [q \in Users |-> ModeOf(q)]' = [[q \in Users |-> ModeOf(q)] EXCEPT ![u] = "user"]
        BY <2>3, <3>4, <1>5, OwnStepKeeps, OneChanges, Zenon
      <4>5. [q \in Users |-> RegsOf(q)]'[u] = live'
        BY <4>4, <2>3, Zenon
      <4>6. M!Start(u)
        BY <4>1, <4>3, <4>4, <4>5, <2>3, Zenon DEF M!Start
      <4> QED BY <4>6, <2>3, Zenon DEF M!Next
    <3> QED BY <3>5, <3>6, <1>1, Zenon
  <2> QED BY <2>2, <2>3
<1> QED BY <1>8, <1>9, <1>1, <1>2, OneOrMore, Zenon

\* A system call leaves the return address in RCX.
LEMMA syscall_entryStep == ASSUME IInv, syscall_entry, NEW u, u = current PROVE M!Next
<1> DEFINE regs == [live EXCEPT !["rcx"] = live["rsp"]]
           f == Frame("call", regs)
<1>1. /\ u \in Users /\ life[u] = "ready" /\ frames[stack[u]] = <<>>
      /\ stack[u] \in Stacks /\ on' = stack[u]
      /\ frames' = [frames EXCEPT ![stack[u]] = <<f>>]
      /\ user_esp' = [user_esp EXCEPT ![u] = live["rsp"]]
      /\ UNCHANGED <<current, tss0, life, stack, cpu>>
  BY HereFacts, Zenon DEF syscall_entry, IInv, CurrentInv
<1>2. f.kind = "call" /\ f.regs = regs
  BY Zenon DEF Frame
<1> HIDE DEF f, regs
<1>3. OwnStep /\ life'[u] = "ready" /\ frames'[stack'[u]] = <<f>>
  BY <1>1, Zenon DEF OwnStep, IInv, TypeOK
<1>4. RegsOf(u) = live /\ ModeOf(u) = "user" /\ RegsOf(u)' = regs /\ ModeOf(u)' = "call"
  <2>1. <<f>> # <<>> /\ <<f>>[1] = f
    BY OneFacts, Zenon
  <2>2. RegsOf(u) = live /\ ModeOf(u) = "user"
    BY <1>1, Seen, Zenon
  <2>3. RegsOf(u)' = regs /\ ModeOf(u)' = "call"
    BY <1>2, <1>3, <2>1, SeenAfter, Zenon
  <2> QED BY <2>2, <2>3, Zenon
<1>5. /\ [q \in Users |-> RegsOf(q)]' = [[q \in Users |-> RegsOf(q)] EXCEPT ![u] = regs]
      /\ [q \in Users |-> ModeOf(q)]' = [[q \in Users |-> ModeOf(q)] EXCEPT ![u] = "call"]
  BY <1>1, <1>3, <1>4, OwnStepKeeps, OneChanges, Zenon
<1>6. regs = [RegsOf(u) EXCEPT !["rcx"] = RegsOf(u)["rsp"]]
  BY <1>4, Zenon DEF regs
<1>7. M!Call(u)
  BY <1>1, <1>4, <1>5, <1>6, Zenon DEF M!Call
<1> QED BY <1>1, <1>7, Zenon DEF M!Next

\* A system call returns with its result in RAX.
LEMMA sysretStep == ASSUME IInv, sysret, NEW u, u = current PROVE M!Next
<1> DEFINE regs == frames[on][1].regs
<1>1. /\ life[u] = "ready" /\ on = stack[u] /\ on \in Stacks /\ u \in Users /\ u \in Procs
      /\ frames[on] \in Seq(FrameSet) /\ Depth = 1 /\ Depth = Len(frames[on])
      /\ frames[on][1].kind = "call" /\ frames[on] # <<>>
  BY HereFacts, CallFacts, Zenon DEF sysret, InCall
<1>2. PICK v \in Results \cup {regs["rax"]} : live' = [regs EXCEPT !["rax"] = v]
  BY <1>1, ZenonT(60), Zenon DEF sysret
<1>3. SubSeq(frames[on], 1, Depth - 1) = <<>>
  BY <1>1, PopFacts, EmptyFacts
<1>4. /\ frames' = [frames EXCEPT ![stack[u]] = <<>>] /\ on' = stack[u]
      /\ user_esp' = [user_esp EXCEPT ![u] = Zero]
      /\ UNCHANGED <<current, tss0, life, stack, cpu>>
  BY <1>1, <1>3, Zenon DEF sysret
<1>5. OwnStep /\ life'[u] = "ready" /\ frames'[stack'[u]] = <<>>
  BY <1>1, <1>4, Zenon DEF OwnStep, IInv, TypeOK
<1> HIDE DEF regs
<1>6. RegsOf(u) = regs /\ ModeOf(u) = "call" /\ RegsOf(u)' = live' /\ ModeOf(u)' = "user"
  BY <1>1, <1>5, Views, Zenon DEF RegsView, ModeView, regs
<1>7. /\ [q \in Users |-> RegsOf(q)]' = [[q \in Users |-> RegsOf(q)] EXCEPT ![u] = live']
      /\ [q \in Users |-> ModeOf(q)]' = [[q \in Users |-> ModeOf(q)] EXCEPT ![u] = "user"]
  BY <1>1, <1>5, <1>6, OwnStepKeeps, OneChanges, Zenon
<1>8. [q \in Users |-> RegsOf(q)][u] = regs /\ [q \in Users |-> ModeOf(q)][u] = "call"
  BY <1>1, <1>6, Zenon
<1>9. [[q \in Users |-> RegsOf(q)] EXCEPT ![u]["rax"] = v] =
         [[q \in Users |-> RegsOf(q)] EXCEPT ![u] = live']
  BY <1>2, <1>8, Zenon
<1>10. M!Return(u)
  BY <1>2, <1>7, <1>8, <1>9, Zenon DEF M!Return
<1> QED BY <1>1, <1>10, Zenon DEF M!Next

\* The interrupt flag and the PIC do not show.
LEMMA FlagsStep ==
    ASSUME UNCHANGED <<current, live, life, stack, frames, cpu>> PROVE UNCHANGED M!vars
<1>1. \A p \in Users : Kept(p)
  <2> TAKE p \in Users
  <2>1. Below(p)' = Below(p)
    BY DEF Below
  <2> QED BY <2>1, Views, Zenon DEF Kept
<1> QED BY <1>1, Stutter, Zenon
-----------------------------------------------------------------------------
\* What is not determined does not matter.
LEMMA StartSame ==
    ASSUME NEW f, NEW a, NEW b,
           \A r \in Regs : r \notin Undetermined(f) /\ r \notin DOMAIN f => a[r] = b[r]
    PROVE  StartRegs(f, a) = StartRegs(f, b)
<1>1. \A r \in Regs :
         (IF r \in Undetermined(f) THEN Unknown ELSE IF r \in DOMAIN f THEN f[r] ELSE a[r]) =
         (IF r \in Undetermined(f) THEN Unknown ELSE IF r \in DOMAIN f THEN f[r] ELSE b[r])
  OBVIOUS
<1> QED BY <1>1, Zenon DEF StartRegs

\* What the switch loads for a program that has not started is what its first
\* instruction may rely on.
LEMMA LoadedAtSwitch ==
    ASSUME IInv, NEW new \in Users, new # current, life[new] = "ready",
           Len(frames[stack[new]]) = 1, frames[stack[new]][1].kind = "iret"
    PROVE  StartRegs(frames[stack[new]][1].regs, Resumed(new)) =
               StartRegs(frames[stack[new]][1].regs, cpu[new].regs)
<1> DEFINE f == frames[stack[new]][1].regs
           c == cpu[new].regs
<1>1. new \in Procs /\ stack[new] \in Stacks /\ frames[stack[new]] \in Seq(FrameSet)
      /\ frames[stack[new]] # <<>>
  BY ResumedFacts, Zenon DEF Procs
<1>2. f \in [{"rsp"} -> Words] \/ f \in [{"rax", "rsp"} -> Words]
  BY <1>1, FrameIs, Zenon
<1>3. cpu[new].resume = IF "rax" \in DOMAIN f THEN "ring0" ELSE "ring3"
  BY <1>1, Zenon DEF IInv, AwayInv, Waits
<1>4. c \in [CpuRegs -> Words]
  BY <1>1, Zenon DEF IInv, TypeOK, CpuSet
<1>5. CASE f \in [{"rsp"} -> Words]
  <2>1. "rax" \notin DOMAIN f /\ DOMAIN f = {"rsp"}
    BY <1>5
  <2>2. Resumed(new) = Over(c, live)
    BY <2>1, <1>3 DEF Resumed
  <2>3. Resumed(new)["rdi"] = c["rdi"] /\ Resumed(new)["rsi"] = c["rsi"]
    BY <2>2, <1>4, Zenon DEF Over, CpuRegs, Regs
  <2>4. \A r \in Regs : r \notin Undetermined(f) => r \in {"rdi", "rsi", "rsp"}
    BY <2>1, Zenon DEF Undetermined, Given
  <2>5. \A r \in Regs : r \notin Undetermined(f) /\ r \notin DOMAIN f => Resumed(new)[r] = c[r]
    BY <2>1, <2>3, <2>4, Zenon
  <2> QED BY <2>5, StartSame, Zenon
<1>6. CASE f \in [{"rax", "rsp"} -> Words]
  <2>1. "rax" \in DOMAIN f /\ DOMAIN f = {"rax", "rsp"}
    BY <1>6, Zenon
  <2>2. Resumed(new) = Over(Restrict(c, CpuRegs \ {"rdi"}), live)
    BY <2>1, <1>3 DEF Resumed, Restored
  <2>3. \A r \in {"rbx", "rcx", "rsi"} : Resumed(new)[r] = c[r]
    BY <2>2, <1>4, Zenon DEF Over, CpuRegs, Regs, Restrict
  <2>4. \A r \in Regs : r \notin Undetermined(f) => r \in {"rbx", "rcx", "rsi", "rax", "rsp"}
    BY <2>1, Zenon DEF Undetermined, Lost, Regs
  <2>5. \A r \in Regs : r \notin Undetermined(f) /\ r \notin DOMAIN f => Resumed(new)[r] = c[r]
    BY <2>1, <2>3, <2>4, Zenon
  <2> QED BY <2>5, StartSame
<1> QED BY <1>2, <1>5, <1>6, Zenon

\* A switch does not show, not even in a process that has not started.
LEMMA switch_contextStep ==
    ASSUME IInv, NEW new \in Procs, switch_context(new), NEW u, u = current
    PROVE  UNCHANGED M!vars
<1>1. /\ new # u /\ life[new] = "ready" /\ current' = new
      /\ live' = Resumed(new)
      /\ UNCHANGED <<life, stack, frames>> /\ ring = 0 /\ Top # "iret"
  BY Zenon DEF switch_context, InThread
<1>2. ASSUME NEW p \in Users, p # u, p # new PROVE Kept(p)
  <2>1. cpu'[p] = cpu[p]
    BY <1>2, Zenon DEF switch_context, IInv, TypeOK, Procs
  <2> QED BY <1>1, <1>2, <2>1, OtherKept, Zenon
<1>3. u \in Users => Kept(u)
  <2> SUFFICES ASSUME u \in Users PROVE Kept(u)
    OBVIOUS
  <2> DEFINE fs == frames[stack[u]]
  <2>1. fs # <<>> /\ fs \in Seq(FrameSet) /\ Len(fs) > 0 /\ Len(fs) \in Nat
    BY <1>1, HereFacts, EmptyFacts DEF IInv, CurrentInv
  <2>2. fs[1].kind = "iret" => Len(fs) # 1
    BY <1>1, HereFacts
  <2> HIDE DEF fs
  <2>3. fs[1].kind = "iret" => Len(fs) > 1
    BY <2>1, <2>2, OneOrMore, Zenon
  <2>4. fs[1].kind = "iret" => Below(u)' = Below(u)
    BY <1>1, <2>3, Zenon DEF Below, fs
  <2> QED BY <1>1, <2>1, <2>4, HereKept, Zenon DEF fs
<1>4. new \in Users => Kept(new)
  <2> SUFFICES ASSUME new \in Users PROVE Kept(new)
    OBVIOUS
  <2> DEFINE fs == frames[stack[new]]
  <2>1. fs # <<>> /\ fs \in Seq(FrameSet) /\ Len(fs) > 0 /\ Len(fs) \in Nat
    BY <1>1, ResumedFacts, EmptyFacts
  <2>2. CASE fs[1].kind # "iret"
    BY <1>1, <2>1, <2>2, Views, Zenon DEF RegsView, ModeView, Kept
  <2>3. CASE fs[1].kind = "iret" /\ Len(fs) > 1
    <3>1. Below(new)' = Below(new)
      BY <1>1, <2>3, Zenon DEF Below
    <3> QED BY <1>1, <2>1, <2>3, <3>1, Views, Zenon DEF RegsView, ModeView, Kept
  <2>4. CASE fs[1].kind = "iret" /\ Len(fs) = 1
    <3>1. Below(new) = cpu[new].regs /\ Below(new)' = Resumed(new)
      BY <1>1, <2>4 DEF Below
    <3>2. StartRegs(fs[1].regs, Resumed(new)) = StartRegs(fs[1].regs, cpu[new].regs)
      BY <1>1, <2>4, LoadedAtSwitch, Zenon
    <3> QED BY <1>1, <2>1, <2>4, <3>1, <3>2, HereKept, Zenon
  <2> HIDE DEF fs
  <2> QED BY <2>1, <2>2, <2>3, <2>4, OneOrMore, Zenon
<1>5. \A p \in Users : Kept(p)
  BY <1>2, <1>3, <1>4, Zenon
<1> QED BY <1>5, Stutter, Zenon
-----------------------------------------------------------------------------
\* A step that makes a process c keeps the others.
LEMMA ChildKeeps ==
    ASSUME IInv, NEW c \in Users, NEW s \in Stacks, s \notin Held, life[c] = "none",
           NEW f \in FrameSet, f.kind = "iret", NEW pcb,
           life' = [life EXCEPT ![c] = "ready"], stack' = [stack EXCEPT ![c] = s],
           frames' = [frames EXCEPT ![s] = <<f>>], cpu' = [cpu EXCEPT ![c] = pcb],
           UNCHANGED <<current, live>>
    PROVE  /\ \A p \in Users \ {c} : Kept(p)
           /\ ModeOf(c) = "none" /\ ModeOf(c)' = "new"
           /\ RegsOf(c)' = StartRegs(f.regs, pcb.regs)
<1>1. c \in Procs /\ c # current /\ c # current'
  BY HereFacts, Zenon DEF Existing, Procs
<1>2. ASSUME NEW p \in Users \ {c} PROVE Kept(p)
  <2>1. p \in Procs /\ life'[p] = life[p] /\ stack'[p] = stack[p] /\ cpu'[p] = cpu[p]
    BY Zenon DEF Procs, IInv, TypeOK
  <2>2. life[p] = "ready" => frames'[stack[p]] = frames[stack[p]]
    BY <2>1, Zenon DEF Existing, Held, IInv, TypeOK, StackInv
  <2>3. life[p] = "ready" => Below(p)' = Below(p)
    BY <2>1, <2>2 DEF Below
  <2> QED BY <2>1, <2>2, <2>3, UntouchedKept, Zenon
<1>3. life'[c] = "ready" /\ stack'[c] = s /\ frames'[s] = <<f>> /\ cpu'[c] = pcb
  BY <1>1, Zenon DEF IInv, TypeOK
<1>4. Len(<<f>>) = 1 /\ <<f>>[1] = f /\ <<f>> # <<>>
  BY OneFacts, Zenon
<1>5. Below(c)' = pcb.regs
  BY <1>1, <1>3, <1>4 DEF Below
<1>6. ModeOf(c)' = "new" /\ RegsOf(c)' = StartRegs(f.regs, pcb.regs)
  <2>1. frames'[stack'[c]] = <<f>>
    BY <1>3, Zenon
  <2> QED BY <1>3, <1>4, <1>5, <2>1, SeenAfter
<1>7. ModeOf(c) = "none"
  BY Views, Zenon DEF ModeView
<1> QED BY <1>2, <1>6, <1>7, Zenon

\* fork copies the parent's registers, all but the lost ones.
LEMMA sys_forkStep == ASSUME IInv, sys_fork, NEW u, u = current PROVE M!Next
<1> DEFINE regs == frames[on][Depth].regs
           f == IretFrame([r \in {"rax", "rsp"} |-> IF r = "rax" THEN Zero ELSE user_esp[current]])
           Pcb(s) == [regs |-> ForkCpu(regs), on |-> s, resume |-> "ring0"]
<1>1. /\ life[u] = "ready" /\ on = stack[u] /\ u \in Users /\ u \in Existing /\ Depth = 1
      /\ frames[on][1].kind = "call" /\ frames[on] # <<>> /\ regs \in [Regs -> Words]
  BY HereFacts, CallFacts, Zenon DEF sys_fork, InCall
<1>2. PICK c \in Users, s \in Stacks :
         /\ life[c] = "none" /\ pmm_alloc(s)
         /\ life' = [life EXCEPT ![c] = "ready"]
         /\ stack' = [stack EXCEPT ![c] = s]
         /\ frames' = [frames EXCEPT ![s] = <<f>>]
         /\ cpu' = [cpu EXCEPT ![c] = Pcb(s)]
  BY Zenon DEF sys_fork
<1>3. UNCHANGED <<current, live>> /\ s \notin Held
  BY <1>2, Zenon DEF sys_fork, pmm_alloc
<1>4. f \in FrameSet /\ f.kind = "iret"
  BY <1>1, WordsFacts, Zenon DEF IretFrame, StartFrame, FrameSet, IInv, TypeOK, Procs
<1>5. user_esp[current] = regs["rsp"]
  BY <1>1, Zenon DEF IInv, CallInv, Noted, Called
<1>6. f.regs = [r \in {"rax", "rsp"} |-> IF r = "rax" THEN Zero ELSE regs["rsp"]]
  BY <1>5, Zenon DEF IretFrame
<1>7. Pcb(s).regs = ForkCpu(regs)
  OBVIOUS
<1> HIDE DEF f, Pcb
<1>8. /\ \A p \in Users \ {c} : Kept(p)
      /\ ModeOf(c) = "none" /\ ModeOf(c)' = "new"
      /\ RegsOf(c)' = StartRegs(f.regs, Pcb(s).regs)
  BY <1>2, <1>3, <1>4, ChildKeeps, Zenon
<1>9. ModeOf(u) = "call" /\ RegsOf(u) = regs
  BY <1>1, Views, Zenon DEF RegsView, ModeView
<1>10. StartRegs(f.regs, Pcb(s).regs) = M!Forked(regs)
  <2>1. Undetermined(f.regs) = Lost /\ DOMAIN f.regs = {"rax", "rsp"}
    BY <1>6, Zenon DEF Undetermined
  <2>2. StartRegs(f.regs, Pcb(s).regs) =
          [r \in Regs |-> IF r \in Lost THEN Unknown
                          ELSE IF r \in {"rax", "rsp"} THEN f.regs[r] ELSE ForkCpu(regs)[r]]
    BY <2>1, <1>7, Zenon DEF StartRegs
  <2>3. \A r \in Regs \ Lost :
          (IF r \in {"rax", "rsp"} THEN f.regs[r] ELSE ForkCpu(regs)[r]) =
          (IF r = "rax" THEN Zero ELSE regs[r])
    BY <1>6, Zenon DEF ForkCpu, CpuRegs, Lost, Regs
  <2>4. \A r \in Regs :
          (IF r \in Lost THEN Unknown
           ELSE IF r \in {"rax", "rsp"} THEN f.regs[r] ELSE ForkCpu(regs)[r]) =
          (CASE r \in Lost -> Unknown [] r = "rax" -> Zero [] OTHER -> regs[r])
    BY <2>3 DEF Lost
  <2> QED BY <2>2, <2>4, Zenon DEF M!Forked
<1>11. /\ [q \in Users |-> RegsOf(q)]' =
              [[q \in Users |-> RegsOf(q)] EXCEPT ![c] = M!Forked(regs)]
       /\ [q \in Users |-> ModeOf(q)]' = [[q \in Users |-> ModeOf(q)] EXCEPT ![c] = "new"]
  BY <1>8, <1>10, OneChanges, Zenon
<1>12. /\ [q \in Users |-> RegsOf(q)][u] = regs /\ [q \in Users |-> ModeOf(q)][u] = "call"
       /\ [q \in Users |-> ModeOf(q)][c] = "none"
  BY <1>1, <1>8, <1>9, Zenon
<1>13. M!Fork(u, c)
  BY <1>11, <1>12, Zenon DEF M!Fork
<1> QED BY <1>1, <1>13, Zenon DEF M!Next

\* What a program that elf_load set up starts with.
LEMMA StartedIs ==
    ASSUME NEW p \in Users, NEW file \in Files[p], NEW below,
           below["rdi"] = file["rdi"], below["rsi"] = file["rsi"]
    PROVE  StartRegs(IretFrame(Restrict(file, {"rsp"})).regs, below) = M!Started(file)
<1> DEFINE f == IretFrame(Restrict(file, {"rsp"})).regs
<1>1. DOMAIN f = {"rsp"} /\ f["rsp"] = file["rsp"]
  <2>1. file \in [Regs -> Words]
    BY WordsFacts, Zenon
  <2> QED BY <2>1, Zenon DEF IretFrame, Restrict, Regs
<1> HIDE DEF f
<1>2. Undetermined(f) = Regs \ Given
  BY <1>1 DEF Undetermined
<1>3. \A r \in Regs : (IF r \in Regs \ Given THEN Unknown
                       ELSE IF r \in {"rsp"} THEN f[r] ELSE below[r]) =
                      (IF r \in Given THEN file[r] ELSE Unknown)
  BY <1>1, Zenon DEF Given
<1>4. StartRegs(f, below) = M!Started(file)
  BY <1>1, <1>2, <1>3, Zenon DEF StartRegs, M!Started
<1> QED BY <1>4, Zenon DEF f

\* spawn starts a program with its arguments.
LEMMA process_spawnStep == ASSUME IInv, process_spawn PROVE M!Next
<1> DEFINE F(file) == IretFrame(Restrict(file, {"rsp"}))
<1>1. PICK c \in Users, s \in Stacks : \E file \in Files[c] :
         /\ life[c] = "none" /\ pmm_alloc(s)
         /\ life' = [life EXCEPT ![c] = "ready"]
         /\ stack' = [stack EXCEPT ![c] = s]
         /\ frames' = [frames EXCEPT ![s] = <<F(file)>>]
         /\ cpu' = [cpu EXCEPT ![c] = Loaded(s, file)]
  BY Zenon DEF process_spawn
<1>2. PICK file \in Files[c] :
         /\ life[c] = "none" /\ pmm_alloc(s)
         /\ life' = [life EXCEPT ![c] = "ready"]
         /\ stack' = [stack EXCEPT ![c] = s]
         /\ frames' = [frames EXCEPT ![s] = <<F(file)>>]
         /\ cpu' = [cpu EXCEPT ![c] = Loaded(s, file)]
  BY <1>1, Zenon
<1>3. UNCHANGED <<current, live>> /\ s \notin Held
  BY <1>2, Zenon DEF process_spawn, pmm_alloc
<1>4. F(file) \in FrameSet /\ F(file).kind = "iret"
  BY FileFrame, Zenon DEF FrameSet, StartFrame
<1>5. StartRegs(F(file).regs, Loaded(s, file).regs) = M!Started(file)
  <2>1. Loaded(s, file).regs["rdi"] = file["rdi"] /\ Loaded(s, file).regs["rsi"] = file["rsi"]
    BY Zenon DEF Loaded, CpuRegs, Regs
  <2> QED BY <2>1, StartedIs, Zenon
<1> HIDE DEF F
<1>6. /\ \A p \in Users \ {c} : Kept(p)
      /\ ModeOf(c) = "none" /\ ModeOf(c)' = "new" /\ RegsOf(c)' = M!Started(file)
  BY <1>2, <1>3, <1>4, <1>5, ChildKeeps, Zenon
<1>7. /\ [q \in Users |-> RegsOf(q)]' =
              [[q \in Users |-> RegsOf(q)] EXCEPT ![c] = M!Started(file)]
      /\ [q \in Users |-> ModeOf(q)]' = [[q \in Users |-> ModeOf(q)] EXCEPT ![c] = "new"]
  BY <1>6, OneChanges, Zenon
<1>8. [q \in Users |-> ModeOf(q)][c] = "none"
  BY <1>6, Zenon
<1>9. M!Load(c)
  BY <1>2, <1>7, <1>8, Zenon DEF M!Load
<1> QED BY <1>9, Zenon DEF M!Next

\* exec starts a program with its arguments, whatever cpu_state held.
LEMMA process_execStep == ASSUME IInv, process_exec, NEW u, u = current PROVE M!Next
<1> DEFINE F(file) == IretFrame(Restrict(file, {"rsp"}))
<1>1. PICK s \in Stacks, file \in Files[current] :
          /\ pmm_alloc(s)
          /\ stack' = [stack EXCEPT ![current] = s]
          /\ frames' = [frames EXCEPT ![stack[current]] = <<>>, ![s] = <<F(file)>>]
          /\ live' = [r \in Regs |-> IF r \in {"rdi", "rsi"} THEN file[r] ELSE Junk]
  BY Zenon DEF process_exec
<1>2. UNCHANGED <<current, life, cpu>> /\ s \notin Held
  BY <1>1, Zenon DEF process_exec, pmm_alloc
<1>3. /\ life[u] = "ready" /\ on = stack[u] /\ u \in Users /\ u \in Existing /\ u \in Procs
      /\ frames[on][1].kind = "call" /\ frames[on] # <<>> /\ stack[u] \in Stacks
  BY HereFacts, CallFacts, Zenon DEF process_exec, InCall
<1>4. F(file) \in FrameSet /\ F(file).kind = "iret"
  BY <1>3, FileFrame, Zenon DEF FrameSet, StartFrame
<1>5. StartRegs(F(file).regs, live') = M!Started(file)
  <2>1. live'["rdi"] = file["rdi"] /\ live'["rsi"] = file["rsi"]
    BY <1>1, Zenon DEF Regs
  <2> QED BY <2>1, <1>3, StartedIs, Zenon
<1> HIDE DEF F
<1>6. ASSUME NEW p \in Users \ {u} PROVE Kept(p)
  <2>1. p \in Procs /\ stack'[p] = stack[p]
    BY <1>1, Zenon DEF Procs, IInv, TypeOK
  <2>2. life[p] = "ready" => p \in Existing
    BY <2>1, Zenon DEF Existing
  <2>3. p \in Existing => stack[p] \in Stacks /\ stack[p] # stack[u] /\ stack[p] # s
    BY <1>2, <1>3, Zenon DEF Held, IInv, StackInv
  <2>4. life[p] = "ready" => frames'[stack[p]] = frames[stack[p]]
    BY <1>1, <2>2, <2>3, Zenon DEF IInv, TypeOK
  <2> QED BY <1>2, <2>1, <2>4, OtherKept, Zenon
<1>7. /\ life'[u] = "ready" /\ stack'[u] = s /\ frames'[s] = <<F(file)>>
      /\ Len(<<F(file)>>) = 1 /\ <<F(file)>>[1] = F(file) /\ <<F(file)>> # <<>>
  BY <1>1, <1>2, <1>3, <1>4, OneFacts, Zenon DEF IInv, TypeOK
<1>8. Below(u)' = live'
  BY <1>2, <1>7 DEF Below
<1>9. ModeOf(u) = "call" /\ ModeOf(u)' = "new" /\ RegsOf(u)' = M!Started(file)
  BY <1>3, <1>4, <1>5, <1>7, <1>8, Views, ZenonT(60) DEF RegsView, ModeView
<1>10. /\ [q \in Users |-> RegsOf(q)]' =
              [[q \in Users |-> RegsOf(q)] EXCEPT ![u] = M!Started(file)]
       /\ [q \in Users |-> ModeOf(q)]' = [[q \in Users |-> ModeOf(q)] EXCEPT ![u] = "new"]
  BY <1>3, <1>6, <1>9, OneChanges, Zenon
<1>11. [q \in Users |-> ModeOf(q)][u] = "call" /\ file \in Files[u]
  BY <1>1, <1>3, <1>9, Zenon
<1>12. M!Load(u)
  BY <1>10, <1>11, Zenon DEF M!Load
<1> QED BY <1>3, <1>12, Zenon DEF M!Next

\* exit ends a program.
LEMMA sys_exitStep == ASSUME IInv, sys_exit, NEW u, u = current PROVE M!Next
<1>1. /\ life[u] = "ready" /\ on = stack[u] /\ u \in Users /\ u \in Procs
      /\ frames[on][1].kind = "call" /\ frames[on] # <<>>
  BY HereFacts, CallFacts, Zenon DEF sys_exit, InCall
<1>2. life' = [life EXCEPT ![u] = "dead"] /\ UNCHANGED <<current, live, stack, frames, cpu>>
  BY Zenon DEF sys_exit
<1>3. \A p \in Users \ {u} : Kept(p)
  <2> TAKE p \in Users \ {u}
  <2>1. life'[p] = life[p]
    BY <1>2, Zenon DEF IInv, TypeOK, Procs
  <2> QED BY <1>2, <2>1, OtherKept, Zenon
<1>4. life'[u] = "dead"
  BY <1>1, <1>2, Zenon DEF IInv, TypeOK
<1>5. ModeOf(u) = "call" /\ ModeOf(u)' = "dead" /\ RegsOf(u)' = M!Nothing
  BY <1>1, <1>4, Views, Zenon DEF RegsView, ModeView, M!Nothing
<1>6. /\ [q \in Users |-> RegsOf(q)]' = [[q \in Users |-> RegsOf(q)] EXCEPT ![u] = M!Nothing]
      /\ [q \in Users |-> ModeOf(q)]' = [[q \in Users |-> ModeOf(q)] EXCEPT ![u] = "dead"]
  BY <1>1, <1>3, <1>5, OneChanges, Zenon
<1>7. [q \in Users |-> ModeOf(q)][u] = "call"
  BY <1>1, <1>5, Zenon
<1>8. M!Exit(u)
  BY <1>6, <1>7, Zenon DEF M!Exit
<1> QED BY <1>1, <1>8, Zenon DEF M!Next

\* Reaping removes a program that has ended.
LEMMA wait_reapStep == ASSUME IInv, wait_reap PROVE M!Next
<1>1. PICK c \in Users :
          /\ life[c] = "dead" /\ c # current
          /\ life' = [life EXCEPT ![c] = "gone"]
          /\ stack' = [stack EXCEPT ![c] = BootStack]
          /\ frames' = [frames EXCEPT ![stack[c]] = <<>>]
          /\ cpu' = [cpu EXCEPT ![c] = NoCpu]
  BY Zenon DEF wait_reap
<1>2. UNCHANGED <<current, live>>
  BY Zenon DEF wait_reap
<1>3. c \in Procs /\ c \in Existing /\ stack[c] \in Stacks
  BY <1>1, Zenon DEF Existing, Procs, IInv, StackInv
<1>4. ASSUME NEW p \in Users \ {c} PROVE Kept(p)
  <2>1. p \in Procs /\ life'[p] = life[p] /\ stack'[p] = stack[p] /\ cpu'[p] = cpu[p]
    BY <1>1, Zenon DEF Procs, IInv, TypeOK
  <2>2. life[p] = "ready" => frames'[stack[p]] = frames[stack[p]]
    BY <1>1, <1>3, <2>1, Zenon DEF Existing, IInv, TypeOK, StackInv
  <2>3. life[p] = "ready" => Below(p)' = Below(p)
    BY <1>2, <2>1, <2>2, Zenon DEF Below
  <2> QED BY <1>2, <2>1, <2>2, <2>3, UntouchedKept, Zenon
<1>5. life'[c] = "gone"
  BY <1>1, <1>3, Zenon DEF IInv, TypeOK
<1>6. ModeOf(c) = "dead" /\ ModeOf(c)' = "gone" /\ RegsOf(c)' = RegsOf(c)
  BY <1>1, <1>5, Views, Zenon DEF RegsView, ModeView
<1>7. /\ [q \in Users |-> RegsOf(q)]' = [[q \in Users |-> RegsOf(q)] EXCEPT ![c] = RegsOf(c)]
      /\ [q \in Users |-> ModeOf(q)]' = [[q \in Users |-> ModeOf(q)] EXCEPT ![c] = "gone"]
  BY <1>4, <1>6, OneChanges, Zenon
<1>8. /\ UNCHANGED [q \in Users |-> RegsOf(q)]
      /\ [q \in Users |-> ModeOf(q)][c] = "dead"
  BY <1>6, <1>7, Zenon
<1>9. M!Reap(c)
  BY <1>7, <1>8, Zenon DEF M!Reap
<1> QED BY <1>9, Zenon DEF M!Next
-----------------------------------------------------------------------------
\* At boot one program is loaded.
LEMMA InitStep == Init => M!Init
<1> SUFFICES ASSUME Init PROVE M!Init
  OBVIOUS
<1>1. PICK file \in Files[hello] :
          /\ frames = [s \in Stacks |->
                         IF s = First[hello] THEN <<IretFrame(Restrict(file, {"rsp"}))>>
                                             ELSE <<>>]
          /\ cpu = [p \in Procs |->
                      CASE p = hello -> Loaded(First[p], file)
                        [] p \in Threads \ {idle} ->
                               [NoCpu EXCEPT !.on = First[p], !.resume = "entry"]
                        [] OTHER -> NoCpu]
  BY Zenon DEF Init
<1> DEFINE f == IretFrame(Restrict(file, {"rsp"}))
<1>2. hello \in Users /\ hello # idle /\ DOMAIN First = Threads \cup {hello} /\ First[hello] \in Stacks
      /\ Threads \cap Users = {}
  BY ContextConstants, Zenon
<1>3. /\ life = [p \in Procs |-> IF p \in DOMAIN First THEN "ready" ELSE "none"]
      /\ stack = [p \in Procs |-> IF p \in DOMAIN First THEN First[p] ELSE BootStack]
      /\ current = idle
  BY Zenon DEF Init
<1>4. /\ life[hello] = "ready" /\ stack[hello] = First[hello]
      /\ \A p \in Users \ {hello} : life[p] = "none"
  BY <1>2, <1>3, Zenon DEF Procs
<1>5. f \in FrameSet /\ f.kind = "iret" /\ cpu[hello] = Loaded(First[hello], file)
  <2>1. f \in FrameSet /\ f.kind = "iret"
    BY <1>2, FileFrame, Zenon DEF FrameSet, StartFrame
  <2>2. cpu[hello] = Loaded(First[hello], file)
    BY <1>1, <1>2, Zenon DEF Procs
  <2> QED BY <2>1, <2>2, Zenon
<1>6. Loaded(First[hello], file).regs["rdi"] = file["rdi"]
      /\ Loaded(First[hello], file).regs["rsi"] = file["rsi"]
  BY Zenon DEF Loaded, CpuRegs, Regs
<1>7. StartRegs(f.regs, Loaded(First[hello], file).regs) = M!Started(file)
  BY <1>2, <1>6, StartedIs, Zenon
<1> HIDE DEF f
<1>8. /\ frames[stack[hello]] = <<f>> /\ Len(<<f>>) = 1 /\ <<f>>[1] = f /\ <<f>> # <<>>
  BY <1>1, <1>2, <1>4, <1>5, OneFacts, Zenon DEF f
<1>9. Below(hello) = Loaded(First[hello], file).regs
  <2>1. ~(Len(frames[stack[hello]]) > 1) /\ hello # current
    BY <1>2, <1>3, <1>8
  <2> QED BY <2>1, <1>5, Zenon DEF Below
<1>10. ModeOf(hello) = "new" /\ RegsOf(hello) = M!Started(file)
  <2>1. /\ ModeOf(hello) = ModeView("ready", <<f>>)
        /\ RegsOf(hello) = RegsView("ready", <<f>>, Below(hello), live)
    BY <1>4, <1>8, Views, Zenon
  <2>2. ModeView("ready", <<f>>) = "new"
    BY <1>5, <1>8, Zenon DEF ModeView
  <2>3. \A below : RegsView("ready", <<f>>, below, live) = StartRegs(f.regs, below)
    BY <1>5, <1>8, Zenon DEF RegsView
  <2> QED BY <2>1, <2>2, <2>3, <1>7, <1>9, Zenon
<1>11. \A p \in Users \ {hello} : ModeOf(p) = "none" /\ RegsOf(p) = M!Nothing
  BY <1>4, Views, Zenon DEF RegsView, ModeView, M!Nothing
<1>12. /\ [p \in Users |-> ModeOf(p)] = [p \in Users |-> IF p = hello THEN "new" ELSE "none"]
       /\ [p \in Users |-> RegsOf(p)] =
              [p \in Users |-> IF p = hello THEN M!Started(file) ELSE M!Nothing]
  BY <1>10, <1>11, Zenon
<1> QED BY <1>2, <1>12, Zenon DEF M!Init

\* Every step is one of Machines, or does not show.
LEMMA NextStep == IInv /\ [Next]_vars => [M!Next]_(M!vars)
<1> SUFFICES ASSUME IInv, [Next]_vars PROVE M!Next \/ UNCHANGED M!vars
  BY Zenon
<1> PICK u : u = current
  OBVIOUS
<1>1. CASE UNCHANGED vars
  BY <1>1, FlagsStep, Zenon DEF vars
<1>2. CASE sti \/ keyboard_wait
  BY <1>2, FlagsStep, Zenon DEF sti, keyboard_wait
<1>3. ASSUME NEW new \in Procs, switch_context(new) PROVE UNCHANGED M!vars
  BY <1>3, switch_contextStep, Zenon
<1> QED
  BY <1>1, <1>2, <1>3, ComputeStep, irq_userStep, irq_kernelStep, pic_send_eoiStep, iretqStep,
     syscall_entryStep, sysretStep, sys_forkStep, process_execStep, process_spawnStep,
     sys_exitStep, wait_reapStep, Zenon DEF Next

\* Every program has its registers to itself: traps, ticks, context switches,
\* and the system calls and ends of other processes do not show in them
\* (isr.asm, syscall_entry.asm, switch.asm, process.c).
THEOREM Isolation == Spec => ProgramsAreIsolated
BY InitStep, NextStep, Invariance, PTL DEF Spec, ProgramsAreIsolated, M!Spec
=============================================================================
