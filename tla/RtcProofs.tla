----------------------------- MODULE RtcProofs ------------------------------
(***************************************************************************)
(* What rtc_read returns, for any number of registers and values, when the *)
(* reader is not held up for a whole cycle of a register.                  *)
(***************************************************************************)
EXTENDS Rtc, TLAPS

\* The value that a register with value x has c counts later.
Counted(x, c) == IF x + c < Radix THEN x + c ELSE x + c - Radix

\* The times since rtc_read began, t[0] to t[updates].  A register counts at
\* most once in each update.
Counts(t, i, j, f) ==
    \E c \in 0 .. j - i :
        /\ t[j][f] = Counted(t[i][f], c)
        /\ c = 0 => \A m \in i .. j : t[m][f] = t[i][f]

History(t) ==
    /\ t \in [0 .. updates -> Times]
    /\ shown = {t[k] : k \in 0 .. updates}
    /\ target = t[updates]
    /\ \A f \in Fields : \A j \in 0 .. updates : \A i \in 0 .. j : Counts(t, i, j, f)

\* During an update each register has its old or its new value.
RegsInv(t) ==
    /\ regs \in Times
    /\ ~uip => regs = target
    /\ uip => updates > 0 /\ \A f \in Fields : regs[f] \in {t[updates - 1][f], t[updates][f]}

\* The fields the first pass has read, and the second.
Read1 == IF pc = "wait1" THEN {} ELSE IF pc = "read1" THEN 1 .. field - 1 ELSE Fields
Read2 == IF pc = "read2" THEN 1 .. field - 1 ELSE IF pc \in {"compare", "done"} THEN Fields ELSE {}

\* The second pass begins with update b over: the first has read what was
\* shown up to then, the second reads what is shown from then on.
PassInv(t, b) ==
    /\ b \in 0 .. updates
    /\ pc \in {"read2", "compare", "done"} /\ uip => b < updates
    /\ pc \in {"wait1", "read1", "wait2"} => b = updates
    /\ \A f \in Read1 : \E i \in 0 .. b : first[f] = t[i][f]
    /\ \A f \in Read2 : \E j \in b .. updates : last[f] = t[j][f]

TypeInv ==
    /\ updates \in 0 .. MaxUpdates /\ field \in Fields /\ uip \in BOOLEAN
    /\ pc \in {"wait1", "read1", "wait2", "read2", "compare", "done"}
    /\ first \in Times /\ last \in Times
    /\ pc = "done" => Agree

IInv == TypeInv /\ \E t : \E b : History(t) /\ RegsInv(t) /\ PassInv(t, b)
-----------------------------------------------------------------------------
\* A register that counts past its last value is 0 again.
LEMMA ModFacts ==
    ASSUME NEW x \in 0 .. Radix - 1
    PROVE  (x + 1) % Radix = Counted(x, 1) /\ (x + 1) % Radix \in 0 .. Radix - 1
<1>1. Radix \in Nat /\ Radix > 1
  BY RtcConstants
<1>2. CASE x + 1 < Radix
  BY <1>1, <1>2 DEF Counted
<1>3. CASE x + 1 = Radix
  BY <1>1, <1>3 DEF Counted
<1> QED BY <1>1, <1>2, <1>3

\* One update counts a register once or leaves it alone.
LEMMA TickFacts ==
    ASSUME NEW x \in Times
    PROVE  /\ Later(x) \in Times
           /\ \A f \in Fields : Later(x)[f] \in {x[f], Counted(x[f], 1)}
<1>1. \A f \in Fields : x[f] \in 0 .. Radix - 1
  BY DEF Times
<1>2. \A f \in Fields : /\ (x[f] + 1) % Radix = Counted(x[f], 1)
                        /\ (x[f] + 1) % Radix \in 0 .. Radix - 1
  BY <1>1, ModFacts
<1>3. \A f \in Fields : Later(x)[f] \in {x[f], (x[f] + 1) % Radix}
  BY DEF Later
<1>4. Later(x) \in Times
  BY <1>1, <1>2 DEF Later, Times
<1> QED BY <1>2, <1>3, <1>4, Zenon

\* Counting on, as long as it is not once around.
LEMMA CountedFacts ==
    ASSUME NEW x \in 0 .. Radix - 1, NEW c \in Nat, c < Radix
    PROVE  /\ Counted(x, 0) = x
           /\ Counted(x, c) = x => c = 0
           /\ c + 1 < Radix => Counted(Counted(x, c), 1) = Counted(x, c + 1)
<1> QED BY RtcConstants DEF Counted

\* The history after one more update.
LEMMA CountsOn ==
    ASSUME NEW u \in Nat, NEW t \in [0 .. u -> Times], NEW i \in 0 .. u, NEW f \in Fields,
           u + 1 < Radix, Counts(t, i, u, f),
           NEW s \in [0 .. u + 1 -> Times], \A k \in 0 .. u : s[k] = t[k],
           s[u + 1] = Later(t[u])
    PROVE  Counts(s, i, u + 1, f)
<1>1. PICK c \in 0 .. u - i : /\ t[u][f] = Counted(t[i][f], c)
                              /\ c = 0 => \A m \in i .. u : t[m][f] = t[i][f]
  BY DEF Counts
<1>2. /\ u \in 0 .. u /\ i \in Nat /\ i <= u /\ Radix \in Nat /\ c \in Nat /\ c + 1 < Radix
      /\ c < Radix /\ c \in 0 .. (u + 1) - i /\ c + 1 \in 0 .. (u + 1) - i /\ c + 1 # 0
  BY RtcConstants
<1>3. t[u] \in Times /\ t[i][f] \in 0 .. Radix - 1
  BY <1>2 DEF Times
<1>4. s[i][f] = t[i][f] /\ s[u + 1][f] \in {t[u][f], Counted(t[u][f], 1)}
  BY <1>2, <1>3, TickFacts, Zenon
<1>5. CASE s[u + 1][f] = t[u][f]
  <2>1. ASSUME c = 0, NEW m \in i .. u + 1 PROVE s[m][f] = s[i][f]
    <3>1. CASE m = u + 1
      <4>1. t[u][f] = t[i][f]
        BY <1>1, <1>2, <2>1
      <4> QED BY <1>4, <1>5, <3>1, <4>1, Zenon
    <3>2. CASE m # u + 1
      <4>1. m \in 0 .. u /\ m \in i .. u
        BY <1>2, <3>2
      <4> QED BY <1>1, <1>4, <2>1, <4>1, Zenon
    <3> QED BY <3>1, <3>2
  <2>2. s[u + 1][f] = Counted(s[i][f], c)
    BY <1>1, <1>4, <1>5, Zenon
  <2> QED BY <1>2, <2>1, <2>2, Zenon DEF Counts
<1>6. CASE s[u + 1][f] = Counted(t[u][f], 1)
  <2>1. Counted(Counted(t[i][f], c), 1) = Counted(t[i][f], c + 1)
    BY <1>2, <1>3, CountedFacts
  <2>2. s[u + 1][f] = Counted(s[i][f], c + 1)
    BY <1>1, <1>4, <1>6, <2>1, Zenon
  <2> QED BY <1>2, <2>2, Zenon DEF Counts
<1> QED BY <1>4, <1>5, <1>6, Zenon
-----------------------------------------------------------------------------
(***************************************************************************)
(* The steps.                                                              *)
(***************************************************************************)
\* A register shows the present time, or in an update the one before.
LEMMA RegNow ==
    ASSUME TypeInv, NEW t, History(t), RegsInv(t), NEW f \in Fields
    PROVE  \E j \in 0 .. updates : regs[f] = t[j][f] /\ (~uip => j = updates) /\ j + 1 >= updates
<1>1. updates \in Nat /\ uip \in BOOLEAN
  BY RtcConstants DEF TypeInv
<1>2. CASE ~uip
  <2>1. regs[f] = t[updates][f] /\ updates \in 0 .. updates /\ updates + 1 >= updates
    BY <1>1, <1>2 DEF RegsInv, History
  <2> QED BY <1>2, <2>1, Zenon
<1>3. CASE uip
  <2>1. regs[f] = t[updates - 1][f] \/ regs[f] = t[updates][f]
    BY <1>3, Zenon DEF RegsInv
  <2>2. /\ updates \in 0 .. updates /\ updates + 1 >= updates
        /\ updates - 1 \in 0 .. updates /\ (updates - 1) + 1 >= updates
    BY <1>1, <1>3 DEF RegsInv
  <2> QED BY <1>3, <2>1, <2>2, Zenon
<1> QED BY <1>1, <1>2, <1>3

\* Steps of the reader leave the clock's history alone.
LEMMA ClockSame ==
    ASSUME NEW t, History(t), RegsInv(t), UNCHANGED clock
    PROVE  History(t)' /\ RegsInv(t)' /\ updates' = updates /\ uip' = uip /\ regs' = regs
<1> QED BY Zenon DEF clock, History, RegsInv

\* An update of the clock begins: one more time has been shown.
LEMMA BeginKeeps ==
    ASSUME MaxUpdates < Radix, TypeInv, NEW t, NEW b, History(t), RegsInv(t), PassInv(t, b),
           ClockBegin
    PROVE  IInv'
<1>0. PICK u : u = updates
  OBVIOUS
<1>1. /\ u \in Nat /\ u + 1 \in Nat /\ u + 1 < Radix /\ u + 1 \in 0 .. MaxUpdates /\ updates' = u + 1
      /\ (u + 1) - 1 = u /\ u + 1 > 0 /\ u \in 0 .. u /\ u + 1 \in 0 .. u + 1 /\ u + 1 \notin 0 .. u
      /\ \A k \in 0 .. u : k \in 0 .. u + 1 /\ k # u + 1
      /\ \A k \in 0 .. u + 1 : k \in 0 .. u \/ k = u + 1
  BY <1>0, RtcConstants DEF TypeInv, ClockBegin
<1>2. /\ t \in [0 .. u -> Times] /\ shown = {t[k] : k \in 0 .. u} /\ target = t[u] /\ regs = t[u]
      /\ \A f \in Fields : \A j \in 0 .. u : \A i \in 0 .. j : Counts(t, i, j, f)
      /\ t[u] \in Times
  BY <1>0, <1>1, Zenon DEF History, RegsInv, ClockBegin
<1> DEFINE s == [k \in 0 .. u + 1 |-> IF k = u + 1 THEN Later(t[u]) ELSE t[k]]
<1>3. /\ s \in [0 .. u + 1 -> Times] /\ s[u + 1] = Later(t[u])
      /\ \A k \in 0 .. u : s[k] = t[k]
  BY <1>1, <1>2, TickFacts, Zenon
<1> HIDE DEF s
<1>4. History(s)'
  <2>1. shown' = {s[k] : k \in 0 .. u + 1}
    <3>1. shown' = shown \cup {Later(t[u])}
      BY <1>2, Zenon DEF ClockBegin
    <3> QED BY <1>1, <1>2, <1>3, <3>1, Zenon
  <2>2. target' = s[u + 1]
    BY <1>2, <1>3, Zenon DEF ClockBegin
  <2>3. ASSUME NEW f \in Fields, NEW j \in 0 .. u + 1, NEW i \in 0 .. j PROVE Counts(s, i, j, f)
    <3>1. CASE j \in 0 .. u
      <4>1. /\ i \in 0 .. u /\ Counts(t, i, j, f) /\ \A m \in i .. j : m \in 0 .. u
        BY <1>1, <1>2, <3>1
      <4>2. PICK c \in 0 .. j - i : /\ t[j][f] = Counted(t[i][f], c)
                                    /\ c = 0 => \A m \in i .. j : t[m][f] = t[i][f]
        BY <4>1, Zenon DEF Counts
      <4>3. s[i] = t[i] /\ s[j] = t[j] /\ \A m \in i .. j : s[m] = t[m]
        BY <1>3, <3>1, <4>1, Zenon
      <4> QED BY <4>2, <4>3, Zenon DEF Counts
    <3>2. CASE j = u + 1 /\ i \in 0 .. u
      <4>1. Counts(t, i, u, f)
        BY <1>1, <1>2, <3>2
      <4>2. Counts(s, i, u + 1, f)
        BY <1>1, <1>2, <1>3, <3>2, <4>1, CountsOn
      <4> QED BY <3>2, <4>2, Zenon
    <3>3. CASE j = u + 1 /\ i = u + 1
      <4>1. 0 \in 0 .. j - i /\ \A m \in i .. j : m = i
        BY <1>1, <3>3
      <4>2. s[i][f] \in 0 .. Radix - 1 /\ 0 \in Nat /\ 0 < Radix
        BY <1>1, <1>3, <3>3, RtcConstants DEF Times
      <4>3. Counted(s[i][f], 0) = s[i][f]
        BY <4>2, CountedFacts
      <4> QED BY <3>3, <4>1, <4>3, Zenon DEF Counts
    <3> QED BY <1>1, <3>1, <3>2, <3>3
  <2> QED BY <1>1, <1>3, <2>1, <2>2, <2>3, Zenon DEF History
<1>5. RegsInv(s)'
  <2>1. regs' = s[u] /\ uip' = TRUE /\ s[u] \in Times
    BY <1>1, <1>2, <1>3, Zenon DEF ClockBegin
  <2> QED BY <1>1, <2>1, Zenon DEF RegsInv
<1>6. PICK d : d = IF pc \in {"read2", "compare", "done"} THEN b ELSE u + 1
  OBVIOUS
<1>7. PassInv(s, d)'
  <2>1. /\ b \in 0 .. u /\ pc' = pc /\ field' = field /\ first' = first /\ last' = last
        /\ Read1' = Read1 /\ Read2' = Read2
        /\ \A f \in Read1 : \E i \in 0 .. b : first[f] = t[i][f]
        /\ \A f \in Read2 : \E j \in b .. u : last[f] = t[j][f]
    BY <1>0, Zenon DEF PassInv, ClockBegin, Read1, Read2
  <2>2. /\ d \in 0 .. u + 1 /\ (pc \in {"read2", "compare", "done"} => d < u + 1 /\ d = b)
        /\ (pc \in {"wait1", "read1", "wait2"} => d = u + 1)
        /\ \A i \in 0 .. b : i \in 0 .. u /\ i \in 0 .. d
        /\ \A j \in b .. u : j \in 0 .. u /\ j \in b .. u + 1
    BY <1>1, <1>6, <2>1
  <2>3. \A f \in Read1 : \E i \in 0 .. d : first[f] = s[i][f]
    BY <1>3, <2>1, <2>2, Zenon
  <2>4. \A f \in Read2 : \E j \in d .. u + 1 : last[f] = s[j][f]
    <3>1. CASE pc \in {"read2", "compare", "done"}
      BY <1>3, <2>1, <2>2, <3>1, Zenon
    <3>2. CASE pc \notin {"read2", "compare", "done"}
      BY <3>2, Zenon DEF Read2
    <3> QED BY <3>1, <3>2, Zenon
  <2> QED BY <1>1, <2>1, <2>2, <2>3, <2>4, Zenon DEF PassInv
<1>8. TypeInv'
  BY <1>1, Zenon DEF TypeInv, ClockBegin, Agree
<1> QED BY <1>4, <1>5, <1>7, <1>8, Zenon DEF IInv

\* The clock stores a register, or ends the update.
LEMMA StoreKeeps ==
    ASSUME TypeInv, NEW t, NEW b, History(t), RegsInv(t), PassInv(t, b),
           (\E f \in Fields : ClockStore(f)) \/ ClockEnd
    PROVE  IInv'
<1>1. /\ UNCHANGED <<target, updates, pc, field, first, last, shown>> /\ uip
      /\ uip' => uip
  BY Zenon DEF ClockStore, ClockEnd
<1>2. History(t)'
  BY <1>1, Zenon DEF History
<1>3. PassInv(t, b)'
  BY <1>1, Zenon DEF PassInv, Read1, Read2
<1>4. updates > 0 /\ regs \in Times /\ target = t[updates]
  BY <1>1, Zenon DEF RegsInv, History
<1>5. RegsInv(t)' /\ uip' \in BOOLEAN
  <2>1. CASE ClockEnd
    BY <1>1, <1>4, <2>1, Zenon DEF RegsInv, ClockEnd
  <2>2. ASSUME NEW f \in Fields, ClockStore(f) PROVE RegsInv(t)' /\ uip' \in BOOLEAN
    <3>1. regs' = [regs EXCEPT ![f] = target[f]] /\ uip' = uip /\ uip
      BY <2>2, Zenon DEF ClockStore
    <3>2. target \in Times
      <4>1. updates \in 0 .. updates
        BY <1>4, RtcConstants DEF TypeInv
      <4> QED BY <1>4, <4>1, Zenon DEF History
    <3>3. regs' \in Times /\ \A g \in Fields : regs'[g] \in {regs[g], target[g]}
      BY <1>4, <3>1, <3>2 DEF Times
    <3>4. \A g \in Fields : regs'[g] \in {t[updates - 1][g], t[updates][g]}
      BY <1>4, <3>1, <3>3, Zenon DEF RegsInv
    <3> QED BY <1>1, <1>4, <3>1, <3>3, <3>4, Zenon DEF RegsInv, TypeInv
  <2> QED BY <2>1, <2>2, Zenon
<1>6. TypeInv'
  BY <1>1, <1>5, Zenon DEF TypeInv, Agree
<1> QED BY <1>2, <1>3, <1>5, <1>6, Zenon DEF IInv

\* The fields that a pass has read when it goes on from field.
LEMMA FieldFacts ==
    ASSUME TypeInv
    PROVE  /\ N \in Nat /\ 1 \in Fields /\ 1 .. 1 - 1 = {}
           /\ field = N => Fields = (1 .. field - 1) \cup {field}
           /\ field # N => field + 1 \in Fields /\ 1 .. (field + 1) - 1 = (1 .. field - 1) \cup {field}
<1>1. N \in Nat \ {0} /\ field \in 1 .. N
  BY RtcConstants DEF TypeInv, Fields
<1>2. 1 \in Fields /\ 1 .. 1 - 1 = {}
  BY <1>1 DEF Fields
<1>3. field = N => Fields = (1 .. field - 1) \cup {field}
  BY <1>1 DEF Fields
<1>4. field # N => field + 1 \in Fields /\ 1 .. (field + 1) - 1 = (1 .. field - 1) \cup {field}
  BY <1>1 DEF Fields
<1> QED BY <1>1, <1>2, <1>3, <1>4

\* A pass begins, with the update bit found clear.
LEMMA WaitKeeps ==
    ASSUME TypeInv, NEW t, NEW b, History(t), RegsInv(t), PassInv(t, b),
           Wait("wait1", "read1") \/ Wait("wait2", "read2")
    PROVE  IInv'
<1>1. /\ UNCHANGED clock /\ first' = first /\ last' = last /\ field' = 1 /\ ~uip
      /\ \/ pc = "wait1" /\ pc' = "read1"
         \/ pc = "wait2" /\ pc' = "read2"
  BY Zenon DEF Wait
<1>2. History(t)' /\ RegsInv(t)' /\ updates' = updates /\ uip' = uip
  BY <1>1, ClockSame, Zenon
<1>3. 1 \in Fields /\ 1 .. 1 - 1 = {}
  BY FieldFacts, Zenon
<1>4. TypeInv'
  BY <1>1, <1>2, <1>3, Zenon DEF TypeInv
<1>5. Read1' \subseteq Read1 /\ Read2' = {}
  BY <1>1, <1>3, Zenon DEF Read1, Read2
<1>6. b = updates
  BY <1>1, Zenon DEF PassInv
<1>7. PassInv(t, b)'
  BY <1>1, <1>2, <1>5, <1>6, Zenon DEF PassInv
<1> QED BY <1>2, <1>4, <1>7, Zenon DEF IInv

\* The first pass reads a register, with what the clock shows now.
LEMMA ReadFirstKeeps ==
    ASSUME TypeInv, NEW t, NEW b, History(t), RegsInv(t), PassInv(t, b), ReadFirst
    PROVE  IInv'
<1>1. /\ UNCHANGED clock /\ last' = last /\ pc = "read1"
      /\ first' = [first EXCEPT ![field] = regs[field]]
      /\ field = N => field' = 1 /\ pc' = "wait2"
      /\ field # N => field' = field + 1 /\ pc' = "read1"
  BY Zenon DEF ReadFirst
<1>2. History(t)' /\ RegsInv(t)' /\ updates' = updates /\ uip' = uip
  BY <1>1, ClockSame, Zenon
<1>3. PICK x : x = field
  OBVIOUS
<1>4. Read1' = (1 .. x - 1) \cup {x} /\ field' \in Fields /\ Read1 = 1 .. x - 1
  BY <1>1, <1>3, FieldFacts, Zenon DEF Read1
<1>5. x \in Fields /\ first \in Times /\ regs \in Times
  BY <1>3, Zenon DEF TypeInv, RegsInv
<1>6. first' \in Times /\ first'[x] = regs[x] /\ \A f \in Fields \ {x} : first'[f] = first[f]
  BY <1>1, <1>3, <1>5 DEF Times
<1>7. TypeInv'
  BY <1>1, <1>2, <1>4, <1>6, Zenon DEF TypeInv
<1>8. b = updates /\ \A f \in 1 .. x - 1 : \E i \in 0 .. b : first[f] = t[i][f]
  BY <1>1, <1>4, Zenon DEF PassInv
<1>9. \E i \in 0 .. b : regs[x] = t[i][x]
  BY <1>5, <1>8, RegNow, Zenon
<1>10. 1 .. x - 1 \subseteq Fields \ {x}
  BY <1>5, RtcConstants DEF Fields
<1>11. \A f \in Read1' : \E i \in 0 .. b : first'[f] = t[i][f]
  BY <1>4, <1>6, <1>8, <1>9, <1>10, Zenon
<1>12. Read2' = {} /\ pc' \notin {"read2", "compare", "done"}
  BY <1>1, Zenon DEF Read2
<1>13. PassInv(t, b)'
  BY <1>2, <1>8, <1>11, <1>12, Zenon DEF PassInv
<1> QED BY <1>2, <1>7, <1>13, Zenon DEF IInv

\* The second pass reads a register: of the time it began with, or a later one.
LEMMA ReadLastKeeps ==
    ASSUME TypeInv, NEW t, NEW b, History(t), RegsInv(t), PassInv(t, b), ReadLast
    PROVE  IInv'
<1>1. /\ UNCHANGED clock /\ first' = first /\ pc = "read2"
      /\ last' = [last EXCEPT ![field] = regs[field]]
      /\ field = N => field' = 1 /\ pc' = "compare"
      /\ field # N => field' = field + 1 /\ pc' = "read2"
  BY Zenon DEF ReadLast
<1>2. History(t)' /\ RegsInv(t)' /\ updates' = updates /\ uip' = uip
  BY <1>1, ClockSame, Zenon
<1>3. PICK x : x = field
  OBVIOUS
<1>4. Read2' = (1 .. x - 1) \cup {x} /\ field' \in Fields /\ Read2 = 1 .. x - 1
  BY <1>1, <1>3, FieldFacts, Zenon DEF Read2
<1>5. x \in Fields /\ last \in Times /\ regs \in Times
  BY <1>3, Zenon DEF TypeInv, RegsInv
<1>6. last' \in Times /\ last'[x] = regs[x] /\ \A f \in Fields \ {x} : last'[f] = last[f]
  BY <1>1, <1>3, <1>5 DEF Times
<1>7. TypeInv'
  BY <1>1, <1>2, <1>4, <1>6, Zenon DEF TypeInv
<1>8. /\ b \in 0 .. updates /\ (uip => b < updates)
      /\ \A f \in 1 .. x - 1 : \E j \in b .. updates : last[f] = t[j][f]
      /\ \A f \in Read1 : \E i \in 0 .. b : first[f] = t[i][f]
  BY <1>1, <1>4, Zenon DEF PassInv
<1>9. \E j \in b .. updates : regs[x] = t[j][x]
  <2>1. PICK j \in 0 .. updates : regs[x] = t[j][x] /\ (~uip => j = updates) /\ j + 1 >= updates
    BY <1>5, RegNow, Zenon
  <2>2. j \in b .. updates
    <3>1. updates \in Nat /\ uip \in BOOLEAN
      BY RtcConstants DEF TypeInv
    <3> QED BY <1>8, <2>1, <3>1
  <2> QED BY <2>1, <2>2, Zenon
<1>10. 1 .. x - 1 \subseteq Fields \ {x}
  BY <1>5, RtcConstants DEF Fields
<1>11. \A f \in Read2' : \E j \in b .. updates : last'[f] = t[j][f]
  BY <1>4, <1>6, <1>8, <1>9, <1>10, Zenon
<1>12. Read1' = Read1 /\ pc' \in {"read2", "compare"}
  BY <1>1, Zenon DEF Read1
<1>13. PassInv(t, b)'
  BY <1>1, <1>2, <1>8, <1>11, <1>12, Zenon DEF PassInv
<1> QED BY <1>2, <1>7, <1>13, Zenon DEF IInv

\* Passes that agree are done, others begin anew.
LEMMA CompareKeeps ==
    ASSUME TypeInv, NEW t, NEW b, History(t), RegsInv(t), PassInv(t, b), Compare
    PROVE  IInv'
<1>1. /\ UNCHANGED clock /\ UNCHANGED <<field, first, last>> /\ pc = "compare"
      /\ Agree => pc' = "done"
      /\ ~Agree => pc' = "wait1"
  BY Zenon DEF Compare
<1>2. History(t)' /\ RegsInv(t)' /\ updates' = updates /\ uip' = uip
  BY <1>1, ClockSame, Zenon
<1>3. Agree' <=> Agree
  BY <1>1, Zenon DEF Agree
<1>4. TypeInv'
  BY <1>1, <1>2, <1>3, Zenon DEF TypeInv
<1>5. CASE Agree
  <2>1. Read1' = Read1 /\ Read2' = Read2 /\ pc' = "done"
    BY <1>1, <1>5, Zenon DEF Read1, Read2
  <2>2. PassInv(t, b)'
    BY <1>1, <1>2, <2>1, Zenon DEF PassInv
  <2> QED BY <1>2, <1>4, <2>2, Zenon DEF IInv
<1>6. CASE ~Agree
  <2>0. PICK u : u = updates
    OBVIOUS
  <2>1. Read1' = {} /\ Read2' = {} /\ pc' = "wait1"
    BY <1>1, <1>6, Zenon DEF Read1, Read2
  <2>2. updates' = u /\ u \in 0 .. u
    BY <1>2, <2>0, RtcConstants DEF TypeInv
  <2>3. PassInv(t, u)'
    BY <2>1, <2>2, Zenon DEF PassInv
  <2> QED BY <1>2, <1>4, <2>3, Zenon DEF IInv
<1> QED BY <1>5, <1>6
-----------------------------------------------------------------------------
\* rtc_read is called.
LEMMA InitInv == Init => IInv
<1> SUFFICES ASSUME Init PROVE IInv
  OBVIOUS
<1>0. PICK z : z = regs
  OBVIOUS
<1> DEFINE t == [k \in 0 .. 0 |-> z]
<1>1. 0 .. 0 = {0} /\ 0 \in 0 .. 0 /\ 0 - 0 = 0
  OBVIOUS
<1>2. regs \in Times /\ updates = 0 /\ target = z /\ shown = {z} /\ ~uip /\ pc = "wait1"
  BY <1>0, Zenon DEF Init
<1>3. t \in [0 .. 0 -> Times] /\ t[0] = z
  BY <1>0, <1>1, <1>2, Zenon
<1> HIDE DEF t
<1>4. History(t)
  <2>1. \A f \in Fields : Counts(t, 0, 0, f)
    <3> SUFFICES ASSUME NEW f \in Fields PROVE Counts(t, 0, 0, f)
      OBVIOUS
    <3>1. t[0][f] \in 0 .. Radix - 1 /\ 0 \in Nat /\ 0 < Radix
      BY <1>1, <1>3, RtcConstants DEF Times
    <3>2. Counted(t[0][f], 0) = t[0][f]
      BY <3>1, CountedFacts
    <3> QED BY <1>1, <3>2, Zenon DEF Counts
  <2> QED BY <1>1, <1>2, <1>3, <2>1, Zenon DEF History
<1>5. RegsInv(t)
  BY <1>0, <1>2, <1>3, Zenon DEF RegsInv
<1>6. PassInv(t, 0)
  BY <1>1, <1>2, Zenon DEF PassInv, Read1, Read2
<1>7. TypeInv
  <2>1. 0 \in 0 .. MaxUpdates /\ 1 \in Fields
    BY RtcConstants DEF Fields
  <2>2. [f \in Fields |-> 0] \in Times
    BY RtcConstants DEF Times
  <2> QED BY <1>2, <2>1, <2>2, Zenon DEF TypeInv, Init
<1> QED BY <1>4, <1>5, <1>6, <1>7, Zenon DEF IInv

\* Every step keeps the invariant.
LEMMA NextInv ==
    ASSUME MaxUpdates < Radix PROVE IInv /\ [Next]_vars => IInv'
<1> SUFFICES ASSUME IInv, [Next]_vars PROVE IInv'
  OBVIOUS
<1>0. TypeInv
  BY Zenon DEF IInv
<1>1. PICK t : \E b : History(t) /\ RegsInv(t) /\ PassInv(t, b)
  BY Zenon DEF IInv
<1>2. PICK b : History(t) /\ RegsInv(t) /\ PassInv(t, b)
  BY <1>1, Zenon
<1>3. CASE UNCHANGED vars
  <2>1. TypeInv'
    BY <1>0, <1>3, Zenon DEF vars, TypeInv, Agree
  <2>2. History(t)' /\ RegsInv(t)'
    BY <1>2, <1>3, Zenon DEF vars, History, RegsInv
  <2>3. PassInv(t, b)'
    BY <1>2, <1>3, Zenon DEF vars, PassInv, Read1, Read2
  <2> QED BY <2>1, <2>2, <2>3, Zenon DEF IInv
<1>4. CASE ClockBegin
  BY <1>0, <1>2, <1>4, BeginKeeps, Zenon
<1>5. CASE (\E f \in Fields : ClockStore(f)) \/ ClockEnd
  BY <1>0, <1>2, <1>5, StoreKeeps, Zenon
<1>6. CASE Reader
  BY <1>0, <1>2, <1>6, WaitKeeps, ReadFirstKeeps, ReadLastKeeps, CompareKeeps, Zenon DEF Reader
<1> QED BY <1>3, <1>4, <1>5, <1>6, Zenon DEF Next, Clock, Done

\* "guarantees we caught a stable value rather than a half-updated one" (rtc.c):
\* two equal passes are a time that was shown when the second one began, for
\* any number of registers, unless rtc_read is held up for a whole cycle of the
\* fastest register, the seconds.
THEOREM StableReading ==
    ASSUME MaxUpdates < Radix
    PROVE  Spec => []ReadsAShownTime
<1>1. IInv => ReadsAShownTime
  <2> SUFFICES ASSUME IInv, pc = "done" PROVE first \in shown
    BY Zenon DEF ReadsAShownTime
  <2>0. TypeInv /\ Agree /\ first \in Times
    BY Zenon DEF IInv, TypeInv
  <2>1. PICK t : \E b : History(t) /\ RegsInv(t) /\ PassInv(t, b)
    BY Zenon DEF IInv
  <2>2. PICK b : History(t) /\ RegsInv(t) /\ PassInv(t, b)
    BY <2>1, Zenon
  <2>3. updates \in Nat /\ updates < Radix /\ b \in 0 .. updates /\ Radix \in Nat
    BY <2>0, <2>2, RtcConstants DEF TypeInv, PassInv
  <2>4. ASSUME NEW f \in Fields PROVE first[f] = t[b][f]
    <3>1. PICK i \in 0 .. b : first[f] = t[i][f]
      BY <2>2, Zenon DEF PassInv, Read1
    <3>2. PICK j \in b .. updates : last[f] = t[j][f]
      BY <2>2, Zenon DEF PassInv, Read2
    <3>3. j \in 0 .. updates /\ i \in 0 .. j /\ b \in i .. j /\ i \in 0 .. updates
      BY <2>3
    <3>4. Counts(t, i, j, f)
      BY <2>2, <3>3, Zenon DEF History
    <3>5. PICK c \in 0 .. j - i : /\ t[j][f] = Counted(t[i][f], c)
                                  /\ c = 0 => \A m \in i .. j : t[m][f] = t[i][f]
      BY <3>4, Zenon DEF Counts
    <3>6. t[j][f] = t[i][f]
      BY <2>0, <3>1, <3>2, Zenon DEF Agree
    <3>7. c \in Nat /\ c < Radix
      BY <2>3, <3>3
    <3>8. t[i][f] \in 0 .. Radix - 1
      <4>1. t[i] \in Times
        BY <2>2, <3>3, Zenon DEF History
      <4> QED BY <4>1 DEF Times
    <3>9. c = 0
      BY <3>5, <3>6, <3>7, <3>8, CountedFacts, Zenon
    <3> QED BY <3>1, <3>3, <3>5, <3>9, Zenon
  <2>5. t[b] \in Times /\ t[b] \in shown
    BY <2>2, <2>3, Zenon DEF History
  <2>6. first = t[b]
    BY <2>0, <2>4, <2>5 DEF Times
  <2> QED BY <2>5, <2>6, Zenon
<1> QED BY <1>1, InitInv, NextInv, PTL DEF Spec
=============================================================================
