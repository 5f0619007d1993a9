---------------------------- MODULE FramesProofs ----------------------------
(***************************************************************************)
(* For any number of tasks and every order of interrupts, switches, first  *)
(* runs, exceptions and system calls: a task resumes with the registers and*)
(* the stack it had, isr_handler_c reads the interrupt that was raised, and*)
(* no kernel stack holds more than one frame and one switch.               *)
(***************************************************************************)
EXTENDS Frames, DataLemmas, TLAPS

-----------------------------------------------------------------------------
(* The last word pushed comes first.                                       *)
IsPush(p, s, w) ==
  /\ IsSequence(p) /\ Len(p) = Len(w) + Len(s)
  /\ \A k \in 1 .. Len(w) : p[k] = w[Len(w) + 1 - k]
  /\ \A k \in 1 .. Len(s) : p[Len(w) + k] = s[k]

LEMMA PushIs ==
  ASSUME NEW s, NEW w, IsSequence(s), IsSequence(w)
  PROVE  IsPush(Push(s, w), s, w)
  <1>1. PICK S : s \in Seq(S) /\ w \in Seq(S)
    BY Common
  <1> DEFINE r == Reverse(w)
             n == Len(w)
             m == Len(s)
  <1>2. n \in Nat /\ m \in Nat /\ \A k \in 1 .. n : w[k] \in S
    BY <1>1
  <1>3. r = [i \in 1 .. n |-> w[(n - i) + 1]]
    BY DEF Reverse
  <1> HIDE DEF n, r
  <1>4. \A i \in 1 .. n : (n - i) + 1 \in 1 .. n /\ (n - i) + 1 = n + 1 - i
    BY <1>2
  <1>5. r \in Seq(S) /\ Len(r) = n /\ \A k \in 1 .. n : r[k] = w[n + 1 - k]
    BY <1>2, <1>3, <1>4
  <1>6. r \o s \in Seq(S) /\ Len(r \o s) = n + m
        /\ \A k \in 1 .. n + m : (r \o s)[k] = IF k <= n THEN r[k] ELSE s[k - n]
    BY <1>1, <1>5, ConcatProperties
  <1> HIDE DEF m
  <1>7. Push(s, w) = r \o s
    BY DEF Push, r
  <1> DEFINE p == r \o s
  <1> HIDE DEF p
  <1>8. p \in Seq(S) /\ Len(p) = n + m
        /\ \A k \in 1 .. n + m : p[k] = IF k <= n THEN r[k] ELSE s[k - n]
    BY <1>6 DEF p
  <1>9. \A k \in 1 .. n : p[k] = w[n + 1 - k]
    BY <1>2, <1>5, <1>8
  <1>10. \A k \in 1 .. m : p[n + k] = s[k]
    <2> TAKE k \in 1 .. m
    <2>1. n + k \in 1 .. n + m /\ ~(n + k <= n) /\ (n + k) - n = k
      BY <1>2
    <2> QED BY <1>8, <2>1
  <1> QED BY <1>7, <1>8, <1>9, <1>10 DEF p, n, m, IsSequence, IsPush

LEMMA PopIs ==
  ASSUME NEW s, IsSequence(s), NEW n \in 0 .. Len(s)
  PROVE  IsDrop(Pop(s, n), s, n)
  <1>1. IsDrop(Drop(s, n), s, n)
    BY DropIs
  <1> QED BY <1>1 DEF Drop, Pop

(* Two words of different lengths differ, and so do two names.             *)
LEMMA Distinct ==
  /\ Off # On /\ UCode # KCode
  /\ \A t, n : <<"rflags", t, n>> # Off
  /\ \A t, n : <<"rip", t, n>> \notin KernelPlaces
  /\ \A t, n, u : <<"rip", t, n>> # user_rip(u)
  /\ \A t : user_rip(t) \notin KernelPlaces
  /\ InIsr \notin {entry, enter_user_mode, InIret, InSys}
  /\ InSys \notin {entry, enter_user_mode, InIret}
  /\ enter_user_mode \notin {entry, InIret} /\ entry # InIret
  <1>1. ASSUME NEW a, NEW b, a # b PROVE <<a>> # <<b>>
    <2>1. <<a>>[1] = a /\ <<b>>[1] = b
      OBVIOUS
    <2> QED BY <2>1, <1>1
  <1>2. ASSUME NEW a, NEW b, NEW c, NEW d PROVE <<a>> # <<b, c, d>>
    <2>1. Len(<<a>>) = 1 /\ Len(<<b, c, d>>) = 3
      OBVIOUS
    <2> QED BY <2>1
  <1>3. ASSUME NEW a, NEW b, NEW c PROVE <<a>> # <<b, c>>
    <2>1. Len(<<a>>) = 1 /\ Len(<<b, c>>) = 2
      OBVIOUS
    <2> QED BY <2>1
  <1>4. ASSUME NEW a, NEW b, NEW c, NEW d, NEW e PROVE <<a, b, c>> # <<d, e>>
    <2>1. Len(<<a, b, c>>) = 3 /\ Len(<<d, e>>) = 2
      OBVIOUS
    <2> QED BY <2>1
  <1>5. Off # On /\ UCode # KCode
    BY <1>1 DEF Off, On, UCode, KCode
  <1>6. \A t, n : <<"rflags", t, n>> # Off
    BY <1>2 DEF Off
  <1>7. \A t, n : <<"rip", t, n>> \notin KernelPlaces
    BY <1>2 DEF KernelPlaces, entry, enter_user_mode, InIret, InIsr, InSys
  <1>8. \A t, n, u : <<"rip", t, n>> # user_rip(u)
    BY <1>4 DEF user_rip
  <1>9. \A t : user_rip(t) \notin KernelPlaces
    BY <1>3 DEF KernelPlaces, entry, enter_user_mode, InIret, InIsr, InSys, user_rip
  <1>10. InIsr \notin {entry, enter_user_mode, InIret, InSys}
    BY <1>1 DEF entry, enter_user_mode, InIret, InIsr, InSys
  <1>11. InSys \notin {entry, enter_user_mode, InIret}
    BY <1>1 DEF entry, enter_user_mode, InIret, InSys
  <1>12. enter_user_mode \notin {entry, InIret} /\ entry # InIret
    BY <1>1 DEF entry, enter_user_mode, InIret
  <1> QED BY <1>5, <1>6, <1>7, <1>8, <1>9, <1>10, <1>11, <1>12

(* The registers pushed, one by one.                                       *)
LEMMA IsrOrder ==
  /\ DOMAIN IsrPops = 1 .. 13 /\ DOMAIN IsrPushes = 1 .. 13
  /\ \A k \in 1 .. 13 : IsrPops[k] = IsrPushes[14 - k] /\ IsrPops[k] \in Regs
  /\ \A j, k \in 1 .. 13 : IsrPops[j] = IsrPops[k] => j = k
  /\ \A q \in Gprs \ {"r10", "r11"} : \E k \in 1 .. 13 : IsrPops[k] = q
  /\ \A k \in 1 .. 13 : IsrPops[k] \in Gprs \ {"r10", "r11"}
  <1>1. DOMAIN IsrPops = 1 .. 13 /\ DOMAIN IsrPushes = 1 .. 13
    BY DEF IsrPops, IsrPushes
  <1>2. \A k \in 1 .. 13 : k = 1 \/ k = 2 \/ k = 3 \/ k = 4 \/ k = 5 \/ k = 6 \/ k = 7
                           \/ k = 8 \/ k = 9 \/ k = 10 \/ k = 11 \/ k = 12 \/ k = 13
    OBVIOUS
  <1>3. /\ IsrPops[1] = "r15" /\ IsrPops[2] = "r14" /\ IsrPops[3] = "r13" /\ IsrPops[4] = "r12"
        /\ IsrPops[5] = "rbp" /\ IsrPops[6] = "rbx" /\ IsrPops[7] = "r9" /\ IsrPops[8] = "r8"
        /\ IsrPops[9] = "rax" /\ IsrPops[10] = "rcx" /\ IsrPops[11] = "rdx" /\ IsrPops[12] = "rsi"
        /\ IsrPops[13] = "rdi"
    BY DEF IsrPops
  <1>4. /\ IsrPushes[13] = "r15" /\ IsrPushes[12] = "r14" /\ IsrPushes[11] = "r13" /\ IsrPushes[10] = "r12"
        /\ IsrPushes[9] = "rbp" /\ IsrPushes[8] = "rbx" /\ IsrPushes[7] = "r9" /\ IsrPushes[6] = "r8"
        /\ IsrPushes[5] = "rax" /\ IsrPushes[4] = "rcx" /\ IsrPushes[3] = "rdx" /\ IsrPushes[2] = "rsi"
        /\ IsrPushes[1] = "rdi"
    BY DEF IsrPushes
  <1>5. \A k \in 1 .. 13 : IsrPops[k] = IsrPushes[14 - k]
    BY <1>2, <1>3, <1>4
  <1>6. \A k \in 1 .. 13 : IsrPops[k] \in Gprs \ {"r10", "r11"}
    BY <1>2, <1>3 DEF Gprs, CalleeSaved
  <1>7. \A j, k \in 1 .. 13 : IsrPops[j] = IsrPops[k] => j = k
    BY <1>2, <1>3
  <1>8. \A q \in Gprs \ {"r10", "r11"} : \E k \in 1 .. 13 : IsrPops[k] = q
    BY <1>3 DEF Gprs, CalleeSaved
  <1>9. \A k \in 1 .. 13 : IsrPops[k] \in Regs
    BY <1>6 DEF Regs
  <1> QED BY <1>1, <1>5, <1>6, <1>7, <1>8, <1>9

LEMMA SwitchOrder ==
  /\ DOMAIN SwitchPops = 1 .. 7 /\ DOMAIN SwitchPushes = 1 .. 7
  /\ \A k \in 1 .. 7 : SwitchPops[k] = SwitchPushes[8 - k] /\ SwitchPops[k] \in Regs \ {"cs", "ss", "rip"}
  /\ \A j, k \in 1 .. 7 : SwitchPops[j] = SwitchPops[k] => j = k
  /\ SwitchPops[7] = "rflags"
  <1>1. DOMAIN SwitchPops = 1 .. 7 /\ DOMAIN SwitchPushes = 1 .. 7
    BY DEF SwitchPops, SwitchPushes
  <1>2. \A k \in 1 .. 7 : k = 1 \/ k = 2 \/ k = 3 \/ k = 4 \/ k = 5 \/ k = 6 \/ k = 7
    OBVIOUS
  <1>3. /\ SwitchPops[1] = "r15" /\ SwitchPops[2] = "r14" /\ SwitchPops[3] = "r13" /\ SwitchPops[4] = "r12"
        /\ SwitchPops[5] = "rbx" /\ SwitchPops[6] = "rbp" /\ SwitchPops[7] = "rflags"
    BY DEF SwitchPops
  <1>4. /\ SwitchPushes[7] = "r15" /\ SwitchPushes[6] = "r14" /\ SwitchPushes[5] = "r13"
        /\ SwitchPushes[4] = "r12" /\ SwitchPushes[3] = "rbx" /\ SwitchPushes[2] = "rbp"
        /\ SwitchPushes[1] = "rflags"
    BY DEF SwitchPushes
  <1>5. \A k \in 1 .. 7 : SwitchPops[k] = SwitchPushes[8 - k]
    BY <1>2, <1>3, <1>4
  <1>6. \A k \in 1 .. 7 : SwitchPops[k] \in Regs \ {"cs", "ss", "rip"}
    BY <1>2, <1>3 DEF Regs, Gprs, CalleeSaved
  <1>7. \A j, k \in 1 .. 7 : SwitchPops[j] = SwitchPops[k] => j = k
    BY <1>2, <1>3
  <1> QED BY <1>1, <1>3, <1>5, <1>6, <1>7

(* Registers popped in an order that names none twice.                     *)
LEMMA LoadedIs ==
  ASSUME NEW r, NEW s, NEW order, \A k \in DOMAIN order : order[k] \in Regs,
         \A j, k \in DOMAIN order : order[j] = order[k] => j = k
  PROVE  /\ DOMAIN Loaded(r, s, order) = Regs
         /\ \A k \in DOMAIN order : Loaded(r, s, order)[order[k]] = s[k]
         /\ \A q \in Regs : (\A k \in DOMAIN order : order[k] # q) => Loaded(r, s, order)[q] = r[q]
  <1> DEFINE l == Loaded(r, s, order)
             At(q) == CHOOSE i \in DOMAIN order : order[i] = q
  <1>1. /\ DOMAIN l = Regs
        /\ \A q \in Regs : l[q] = IF \E i \in DOMAIN order : order[i] = q THEN s[At(q)] ELSE r[q]
    BY DEF Loaded
  <1>2. \A k \in DOMAIN order : At(order[k]) = k
    <2> TAKE k \in DOMAIN order
    <2>1. At(order[k]) \in DOMAIN order /\ order[At(order[k])] = order[k]
      OBVIOUS
    <2> HIDE DEF At
    <2> QED BY <2>1
  <1> HIDE DEF l, At
  <1>3. \A k \in DOMAIN order : l[order[k]] = s[k]
    BY <1>1, <1>2
  <1>4. \A q \in Regs : (\A k \in DOMAIN order : order[k] # q) => l[q] = r[q]
    BY <1>1
  <1> QED BY <1>1, <1>3, <1>4 DEF l

LEMMA IretqIs ==
  ASSUME NEW r, NEW s
  PROVE  /\ DOMAIN iretq(r, s) = Regs
         /\ iretq(r, s).rip = s[1] /\ iretq(r, s).cs = s[2] /\ iretq(r, s).rflags = s[3]
         /\ iretq(r, s).rsp = s[4] /\ iretq(r, s).ss = s[5]
         /\ \A q \in Gprs : iretq(r, s)[q] = r[q]
  <1> DEFINE o == <<"rip", "cs", "rflags", "rsp", "ss">>
  <1>1. /\ DOMAIN o = 1 .. 5 /\ o[1] = "rip" /\ o[2] = "cs" /\ o[3] = "rflags" /\ o[4] = "rsp" /\ o[5] = "ss"
    OBVIOUS
  <1>2. iretq(r, s) = Loaded(r, s, o)
    BY DEF iretq
  <1> HIDE DEF o
  <1>3. \A k \in 1 .. 5 : k = 1 \/ k = 2 \/ k = 3 \/ k = 4 \/ k = 5
    OBVIOUS
  <1>4. \A k \in DOMAIN o : o[k] \in Regs /\ o[k] \notin Gprs
    BY <1>1, <1>3 DEF Regs, Gprs, CalleeSaved
  <1>5. \A j, k \in DOMAIN o : o[j] = o[k] => j = k
    BY <1>1, <1>3
  <1>6. /\ DOMAIN Loaded(r, s, o) = Regs
        /\ \A k \in DOMAIN o : Loaded(r, s, o)[o[k]] = s[k]
        /\ \A q \in Regs : (\A k \in DOMAIN o : o[k] # q) => Loaded(r, s, o)[q] = r[q]
    BY <1>4, <1>5, LoadedIs
  <1> DEFINE l == Loaded(r, s, o)
  <1> HIDE DEF l
  <1>7. /\ DOMAIN l = Regs /\ \A k \in DOMAIN o : l[o[k]] = s[k]
        /\ \A q \in Regs : (\A k \in DOMAIN o : o[k] # q) => l[q] = r[q]
    BY <1>6 DEF l
  <1>8. l["rip"] = s[1] /\ l["cs"] = s[2] /\ l["rflags"] = s[3] /\ l["rsp"] = s[4] /\ l["ss"] = s[5]
    BY <1>1, <1>7
  <1>9. \A q \in Gprs : l[q] = r[q]
    BY <1>4, <1>7 DEF Regs
  <1>10. iretq(r, s) = l
    BY <1>2 DEF l
  <1> QED BY <1>7, <1>8, <1>9, <1>10

-----------------------------------------------------------------------------
(* The frame isr_common_stub leaves on top of the stack b for the registers*)
(* r, with w for the RSP the CPU pushed.                                   *)
IsFrame(s, r, v, code, w, b) ==
  /\ IsSequence(s) /\ IsSequence(b) /\ Len(s) = 20 + Len(b)
  /\ \A k \in 1 .. 13 : s[k] = r[IsrPops[k]]
  /\ s[14] = Num(v) /\ s[15] = code
  /\ s[16] = r.rip /\ s[17] = r.cs /\ s[18] = r.rflags /\ s[19] = w /\ s[20] = r.ss
  /\ \A k \in 1 .. Len(b) : s[20 + k] = b[k]

Code(v) == IF v \in CpuPushesCode THEN <<"code">> ELSE Zero

LEMMA WordsIs ==
  ASSUME NEW r
  PROVE  /\ IsSequence(Words(r, IsrPushes)) /\ Len(Words(r, IsrPushes)) = 13
         /\ \A k \in 1 .. 13 : Words(r, IsrPushes)[14 - k] = r[IsrPops[k]]
  <1> DEFINE w == Words(r, IsrPushes)
             S == {r[IsrPushes[k]] : k \in 1 .. 13}
  <1>1. w = [k \in 1 .. 13 |-> r[IsrPushes[k]]]
    BY IsrOrder DEF Words
  <1>2. w \in Seq(S) /\ Len(w) = 13
    BY <1>1
  <1> HIDE DEF S, w
  <1>3. ASSUME NEW k \in 1 .. 13 PROVE w[14 - k] = r[IsrPops[k]]
    <2>1. 14 - k \in 1 .. 13
      OBVIOUS
    <2> QED BY <2>1, <1>1, IsrOrder
  <1> QED BY <1>2, <1>3 DEF IsSequence, w

(* What the CPU pushed.                                                    *)
LEMMA CpuFrameIs ==
  ASSUME NEW v, IsSequence(Base)
  PROVE  LET s == CpuFrame(v)
         IN  /\ IsSequence(s)
             /\ v \notin CpuPushesCode =>
                  /\ Len(s) = 5 + Len(Base)
                  /\ s[1] = cpu.rip /\ s[2] = cpu.cs /\ s[3] = cpu.rflags /\ s[4] = Rsp /\ s[5] = cpu.ss
                  /\ \A k \in 1 .. Len(Base) : s[5 + k] = Base[k]
             /\ v \in CpuPushesCode =>
                  /\ Len(s) = 6 + Len(Base) /\ s[1] = <<"code">>
                  /\ s[2] = cpu.rip /\ s[3] = cpu.cs /\ s[4] = cpu.rflags /\ s[5] = Rsp /\ s[6] = cpu.ss
                  /\ \A k \in 1 .. Len(Base) : s[6 + k] = Base[k]
  <1> DEFINE a1 == cpu.ss
             a2 == Rsp
             a3 == cpu.rflags
             a4 == cpu.cs
             a5 == cpu.rip
             w5 == <<a1, a2, a3, a4, a5>>
             c == <<"code">>
             w6 == w5 \o <<c>>
             b == Base
  <1>1. CASE v \notin CpuPushesCode
    <2>1. CpuFrame(v) = Push(b, w5)
      BY <1>1 DEF CpuFrame
    <2>2. /\ Len(w5) = 5 /\ w5[5] = a5 /\ w5[4] = a4 /\ w5[3] = a3 /\ w5[2] = a2 /\ w5[1] = a1
      OBVIOUS
    <2>3. IsSequence(w5)
      <3>1. w5 \in Seq({a1, a2, a3, a4, a5})
        OBVIOUS
      <3> QED BY <3>1 DEF IsSequence
    <2> HIDE DEF a1, a2, a3, a4, a5, w5, b
    <2>4. IsSequence(b)
      BY DEF b
    <2>5. IsPush(Push(b, w5), b, w5)
      BY <2>3, <2>4, PushIs
    <2> DEFINE s == Push(b, w5)
    <2> HIDE DEF s
    <2>6. /\ IsSequence(s) /\ Len(s) = 5 + Len(b)
          /\ \A k \in 1 .. 5 : s[k] = w5[5 + 1 - k]
          /\ \A k \in 1 .. Len(b) : s[5 + k] = b[k]
      BY <2>2, <2>5 DEF s, IsPush
    <2>7. s[1] = a5 /\ s[2] = a4 /\ s[3] = a3 /\ s[4] = a2 /\ s[5] = a1
      BY <2>2, <2>6
    <2> QED BY <1>1, <2>1, <2>6, <2>7 DEF s, b, a1, a2, a3, a4, a5
  <1>2. CASE v \in CpuPushesCode
    <2>1. CpuFrame(v) = Push(b, w6)
      BY <1>2 DEF CpuFrame
    <2>0. /\ Len(w6) = 6 /\ w6[6] = c /\ w6[5] = a5 /\ w6[4] = a4 /\ w6[3] = a3 /\ w6[2] = a2
          /\ w6[1] = a1 /\ IsSequence(w6)
      <3> HIDE DEF a1, a2, a3, a4, a5, c
      <3>1. w5 \in Seq({a1, a2, a3, a4, a5}) /\ Len(w5) = 5
        OBVIOUS
      <3>2. w5[5] = a5 /\ w5[4] = a4 /\ w5[3] = a3 /\ w5[2] = a2 /\ w5[1] = a1
        OBVIOUS
      <3>3. IsSequence(w5)
        BY <3>1 DEF IsSequence
      <3> DEFINE d == <<c>>
      <3>4. IsSequence(d) /\ Len(d) = 1 /\ d[1] = c
        BY OneElement
      <3> HIDE DEF w5, d
      <3>5. IsConcat(Concat(w5, d), w5, d)
        BY <3>3, <3>4, ConcatIs
      <3>6. w6 = Concat(w5, d)
        BY DEF d, Concat
      <3> HIDE DEF w6
      <3>7. IsSequence(w6) /\ Len(w6) = 6 /\ (\A k \in 1 .. 5 : w6[k] = w5[k]) /\ w6[6] = d[1]
        BY <3>1, <3>4, <3>5, <3>6 DEF IsConcat
      <3> QED BY <3>2, <3>4, <3>7
    <2>2. /\ Len(w6) = 6 /\ w6[6] = <<"code">> /\ w6[5] = a5 /\ w6[4] = a4 /\ w6[3] = a3 /\ w6[2] = a2
          /\ w6[1] = a1
      BY <2>0
    <2>3. IsSequence(w6)
      BY <2>0
    <2> HIDE DEF a1, a2, a3, a4, a5, w6, b
    <2>4. IsSequence(b)
      BY DEF b
    <2>5. IsPush(Push(b, w6), b, w6)
      BY <2>3, <2>4, PushIs
    <2> DEFINE s == Push(b, w6)
    <2> HIDE DEF s
    <2>6. /\ IsSequence(s) /\ Len(s) = 6 + Len(b)
          /\ \A k \in 1 .. 6 : s[k] = w6[6 + 1 - k]
          /\ \A k \in 1 .. Len(b) : s[6 + k] = b[k]
      BY <2>2, <2>5 DEF s, IsPush
    <2>7. s[1] = <<"code">> /\ s[2] = a5 /\ s[3] = a4 /\ s[4] = a3 /\ s[5] = a2 /\ s[6] = a1
      BY <2>2, <2>6
    <2> QED BY <1>2, <2>1, <2>6, <2>7 DEF s, b, a1, a2, a3, a4, a5
  <1> QED BY <1>1, <1>2

(* The frame of the stub, where it expects an error code exactly when the  *)
(* CPU pushes one.                                                         *)
LEMMA StubIs ==
  ASSUME NEW v, v \in CpuPushesCode <=> v \in ISR_ERRCODE, IsSequence(Base)
  PROVE  IsFrame(isr_common_stub(v), cpu, v, Code(v), Rsp, Base)
  <1> DEFINE W == Words(cpu, IsrPushes)
             f == CpuFrame(v)
             b == Base
             m == Len(Base)
             s == isr_common_stub(v)
             x == Num(v)
  <1>1. IsSequence(W) /\ Len(W) = 13 /\ \A k \in 1 .. 13 : W[14 - k] = cpu[IsrPops[k]]
    BY WordsIs
  <1>2. m \in Nat /\ IsSequence(b)
    BY LenNat
  <1>3. CASE v \notin CpuPushesCode
    <2> DEFINE h == <<Zero, x>>
               w == Concat(h, W)
    <2>1. s = Push(f, w)
      BY <1>3 DEF isr_common_stub, Concat
    <2>2. h[1] = Zero /\ h[2] = x /\ Len(h) = 2 /\ IsSequence(h)
      <3> HIDE DEF x
      <3>1. h \in Seq({Zero, x})
        OBVIOUS
      <3> QED BY <3>1 DEF IsSequence
    <2>3. /\ IsSequence(f) /\ Len(f) = 5 + m
          /\ f[1] = cpu.rip /\ f[2] = cpu.cs /\ f[3] = cpu.rflags /\ f[4] = Rsp /\ f[5] = cpu.ss
          /\ \A k \in 1 .. m : f[5 + k] = b[k]
      BY <1>3, CpuFrameIs
    <2> HIDE DEF W, h, f, s, x, b, m
    <2>4. IsConcat(w, h, W)
      BY <1>1, <2>2, ConcatIs
    <2> HIDE DEF w
    <2>5. /\ IsSequence(w) /\ Len(w) = 15 /\ w[1] = Zero /\ w[2] = x
          /\ \A k \in 1 .. 13 : w[2 + k] = W[k]
      BY <1>1, <2>2, <2>4 DEF IsConcat
    <2>6. IsPush(Push(f, w), f, w)
      BY <2>3, <2>5, PushIs
    <2>7. /\ IsSequence(s) /\ Len(s) = 15 + (5 + m)
          /\ \A k \in 1 .. 15 : s[k] = w[16 - k]
          /\ \A k \in 1 .. 5 + m : s[15 + k] = f[k]
      BY <2>1, <2>3, <2>5, <2>6 DEF IsPush
    <2>8. \A k \in 1 .. 13 : s[k] = cpu[IsrPops[k]]
      <3> TAKE k \in 1 .. 13
      <3>1. k \in 1 .. 15 /\ 14 - k \in 1 .. 13 /\ 16 - k = 2 + (14 - k)
        OBVIOUS
      <3>2. s[k] = w[2 + (14 - k)]
        BY <2>7, <3>1
      <3> QED BY <3>1, <3>2, <2>5, <1>1
    <2>9. s[14] = x /\ s[15] = Zero
      BY <2>5, <2>7
    <2>10. /\ s[16] = cpu.rip /\ s[17] = cpu.cs /\ s[18] = cpu.rflags /\ s[19] = Rsp /\ s[20] = cpu.ss
      <3>1. 1 \in 1 .. 5 + m /\ 2 \in 1 .. 5 + m /\ 3 \in 1 .. 5 + m /\ 4 \in 1 .. 5 + m /\ 5 \in 1 .. 5 + m
        BY <1>2
      <3>2. s[15 + 1] = f[1] /\ s[15 + 2] = f[2] /\ s[15 + 3] = f[3] /\ s[15 + 4] = f[4] /\ s[15 + 5] = f[5]
        BY <2>7, <3>1
      <3> QED BY <3>2, <2>3
    <2>11. \A k \in 1 .. m : s[20 + k] = b[k]
      <3> TAKE k \in 1 .. m
      <3>1. 5 + k \in 1 .. 5 + m /\ 15 + (5 + k) = 20 + k
        BY <1>2
      <3>2. s[15 + (5 + k)] = f[5 + k]
        BY <2>7, <3>1
      <3> QED BY <3>1, <3>2, <2>3
    <2>12. Code(v) = Zero
      BY <1>3 DEF Code
    <2> QED BY <1>2, <2>7, <2>8, <2>9, <2>10, <2>11, <2>12 DEF IsFrame, s, b, m, x
  <1>4. CASE v \in CpuPushesCode
    <2> DEFINE h == <<x>>
               w == Concat(h, W)
    <2>1. s = Push(f, w)
      BY <1>4 DEF isr_common_stub, Concat
    <2>2. h[1] = x /\ Len(h) = 1 /\ IsSequence(h)
      BY OneElement
    <2>3. /\ IsSequence(f) /\ Len(f) = 6 + m /\ f[1] = <<"code">>
          /\ f[2] = cpu.rip /\ f[3] = cpu.cs /\ f[4] = cpu.rflags /\ f[5] = Rsp /\ f[6] = cpu.ss
          /\ \A k \in 1 .. m : f[6 + k] = b[k]
      BY <1>4, CpuFrameIs
    <2> HIDE DEF W, h, f, s, x, b, m
    <2>4. IsConcat(w, h, W)
      BY <1>1, <2>2, ConcatIs
    <2> HIDE DEF w
    <2>5. /\ IsSequence(w) /\ Len(w) = 14 /\ w[1] = x
          /\ \A k \in 1 .. 13 : w[1 + k] = W[k]
      BY <1>1, <2>2, <2>4 DEF IsConcat
    <2>6. IsPush(Push(f, w), f, w)
      BY <2>3, <2>5, PushIs
    <2>7. /\ IsSequence(s) /\ Len(s) = 14 + (6 + m)
          /\ \A k \in 1 .. 14 : s[k] = w[15 - k]
          /\ \A k \in 1 .. 6 + m : s[14 + k] = f[k]
      BY <2>1, <2>3, <2>5, <2>6 DEF IsPush
    <2>8. \A k \in 1 .. 13 : s[k] = cpu[IsrPops[k]]
      <3> TAKE k \in 1 .. 13
      <3>1. k \in 1 .. 14 /\ 14 - k \in 1 .. 13 /\ 15 - k = 1 + (14 - k)
        OBVIOUS
      <3>2. s[k] = w[1 + (14 - k)]
        BY <2>7, <3>1
      <3> QED BY <3>1, <3>2, <2>5, <1>1
    <2>9. s[14] = x
      BY <2>5, <2>7
    <2>10. /\ s[15] = <<"code">>
           /\ s[16] = cpu.rip /\ s[17] = cpu.cs /\ s[18] = cpu.rflags /\ s[19] = Rsp /\ s[20] = cpu.ss
      <3>1. 1 \in 1 .. 6 + m /\ 2 \in 1 .. 6 + m /\ 3 \in 1 .. 6 + m /\ 4 \in 1 .. 6 + m /\ 5 \in 1 .. 6 + m
            /\ 6 \in 1 .. 6 + m
        BY <1>2
      <3>2. s[14 + 1] = f[1] /\ s[14 + 2] = f[2] /\ s[14 + 3] = f[3] /\ s[14 + 4] = f[4] /\ s[14 + 5] = f[5]
            /\ s[14 + 6] = f[6]
        BY <2>7, <3>1
      <3> QED BY <3>2, <2>3
    <2>11. \A k \in 1 .. m : s[20 + k] = b[k]
      <3> TAKE k \in 1 .. m
      <3>1. 6 + k \in 1 .. 6 + m /\ 14 + (6 + k) = 20 + k
        BY <1>2
      <3>2. s[14 + (6 + k)] = f[6 + k]
        BY <2>7, <3>1
      <3> QED BY <3>1, <3>2, <2>3
    <2>12. Code(v) = <<"code">>
      BY <1>4 DEF Code
    <2> QED BY <1>2, <2>7, <2>8, <2>9, <2>10, <2>11, <2>12 DEF IsFrame, s, b, m, x
  <1> QED BY <1>3, <1>4

(* isr_handler_c reads what the CPU saw.                                   *)
LEMMA ReadIs ==
  ASSUME NEW s, NEW v, IsFrame(s, cpu, v, Code(v), Rsp, Base)
  PROVE  ReadFrame(s) = Fact(v)
  <1> DEFINE a1 == Num(v)
             a2 == Code(v)
             a3 == cpu.rip
             a4 == cpu.cs
             a5 == cpu.rflags
             a6 == Rsp
             a7 == cpu.ss
             f == <<a1, a2, a3, a4, a5, a6, a7>>
  <1>1. Fact(v) = f
    BY DEF Fact, Code
  <1>2. /\ s[13 + 1] = a1 /\ s[13 + 2] = a2 /\ s[13 + 3] = a3 /\ s[13 + 4] = a4
        /\ s[13 + 5] = a5 /\ s[13 + 6] = a6 /\ s[13 + 7] = a7
    BY DEF IsFrame
  <1> HIDE DEF a1, a2, a3, a4, a5, a6, a7
  <1>3. /\ f = [i \in 1 .. 7 |-> f[i]]
        /\ f[1] = a1 /\ f[2] = a2 /\ f[3] = a3 /\ f[4] = a4 /\ f[5] = a5 /\ f[6] = a6 /\ f[7] = a7
    OBVIOUS
  <1>4. \A i \in 1 .. 7 : i = 1 \/ i = 2 \/ i = 3 \/ i = 4 \/ i = 5 \/ i = 6 \/ i = 7
    OBVIOUS
  <1> HIDE DEF f
  <1>5. \A i \in 1 .. 7 : s[13 + i] = f[i]
    BY <1>2, <1>3, <1>4
  <1> QED BY <1>1, <1>3, <1>5 DEF ReadFrame

-----------------------------------------------------------------------------
(* What the epilogue of the stub takes from its frame.                     *)
Restores(n, q, r, w) ==
  /\ DOMAIN n = Regs
  /\ n.rip = r.rip /\ n.cs = r.cs /\ n.rflags = r.rflags /\ n.rsp = w /\ n.ss = r.ss
  /\ \A x \in Gprs \ {"r10", "r11"} : n[x] = r[x]

LEMMA ReturnIs ==
  ASSUME NEW s, NEW r, NEW v, NEW code, NEW w, NEW b, IsFrame(s, r, v, code, w, b), NEW q,
         r.cs = UCode => b = <<>>, r.cs # UCode => w = <<"depth", Len(b)>>
  PROVE  /\ Restores(iretq(Loaded(q, s, IsrPops), Pop(s, 15)), q, r, w)
         /\ AfterIretq(Pop(s, 15)) = b
  <1> DEFINE rest == Pop(s, 15)
             l == Loaded(q, s, IsrPops)
             n == iretq(l, rest)
             m == Len(b)
  <1>1. /\ IsSequence(s) /\ IsSequence(b) /\ Len(s) = 20 + m /\ m \in Nat
        /\ \A k \in 1 .. 13 : s[k] = r[IsrPops[k]]
        /\ s[16] = r.rip /\ s[17] = r.cs /\ s[18] = r.rflags /\ s[19] = w /\ s[20] = r.ss
        /\ \A k \in 1 .. m : s[20 + k] = b[k]
    BY LenNat DEF IsFrame
  <1>2. r.cs = UCode => b = <<>>
    OBVIOUS
  <1>3. r.cs # UCode => w = <<"depth", m>>
    OBVIOUS
  <1> HIDE DEF m
  <1>4. IsSequence(rest) /\ Len(rest) = 5 + m /\ \A k \in 1 .. 5 + m : rest[k] = s[15 + k]
    <2>1. 15 \in 0 .. Len(s) /\ Len(s) - 15 = 5 + m
      BY <1>1
    <2>2. IsDrop(rest, s, 15)
      BY <1>1, <2>1, PopIs
    <2> HIDE DEF rest
    <2> QED BY <2>1, <2>2 DEF IsDrop
  <1>5. rest[1] = r.rip /\ rest[2] = r.cs /\ rest[3] = r.rflags /\ rest[4] = w /\ rest[5] = r.ss
    <2>1. 1 \in 1 .. 5 + m /\ 2 \in 1 .. 5 + m /\ 3 \in 1 .. 5 + m /\ 4 \in 1 .. 5 + m /\ 5 \in 1 .. 5 + m
      BY <1>1
    <2>2. rest[1] = s[15 + 1] /\ rest[2] = s[15 + 2] /\ rest[3] = s[15 + 3] /\ rest[4] = s[15 + 4]
          /\ rest[5] = s[15 + 5]
      BY <1>4, <2>1
    <2> QED BY <1>1, <2>2
  <1>6. \A k \in 1 .. 13 : l[IsrPops[k]] = s[k]
    <2>1. /\ \A k \in DOMAIN IsrPops : IsrPops[k] \in Regs
          /\ \A j, k \in DOMAIN IsrPops : IsrPops[j] = IsrPops[k] => j = k
      BY IsrOrder
    <2> QED BY <2>1, IsrOrder, LoadedIs
  <1> HIDE DEF l, rest
  <1>7. /\ DOMAIN n = Regs
        /\ n.rip = rest[1] /\ n.cs = rest[2] /\ n.rflags = rest[3] /\ n.rsp = rest[4] /\ n.ss = rest[5]
        /\ \A x \in Gprs : n[x] = l[x]
    BY IretqIs
  <1> HIDE DEF n
  <1>8. \A x \in Gprs \ {"r10", "r11"} : n[x] = r[x]
    <2> TAKE x \in Gprs \ {"r10", "r11"}
    <2>1. PICK k \in 1 .. 13 : IsrPops[k] = x
      BY IsrOrder
    <2> QED BY <2>1, <1>1, <1>6, <1>7
  <1>9. Restores(n, q, r, w)
    BY <1>5, <1>7, <1>8 DEF Restores
  <1>10. AfterIretq(rest) = b
    <2>1. CASE r.cs = UCode
      BY <1>2, <1>5, <2>1 DEF AfterIretq
    <2>2. CASE r.cs # UCode
      <3>1. rest[4][2] = m
        <4>1. <<"depth", m>>[2] = m
          OBVIOUS
        <4> QED BY <4>1, <1>3, <1>5, <2>2
      <3>2. AfterIretq(rest) = SubSeq(rest, Len(rest) - rest[4][2] + 1, Len(rest))
        BY <1>5, <2>2 DEF AfterIretq
      <3>3. Len(rest) - rest[4][2] + 1 = 5 + 1
        BY <1>1, <1>4, <3>1
      <3>4. AfterIretq(rest) = Pop(rest, 5)
        BY <3>2, <3>3 DEF Pop
      <3>5. 5 \in 0 .. Len(rest) /\ Len(rest) - 5 = m
        BY <1>1, <1>4
      <3>6. IsDrop(Pop(rest, 5), rest, 5)
        BY <1>4, <3>5, PopIs
      <3> DEFINE p == Pop(rest, 5)
      <3> HIDE DEF p
      <3>7. IsSequence(p) /\ Len(p) = m /\ \A k \in 1 .. m : p[k] = rest[5 + k]
        BY <3>5, <3>6 DEF p, IsDrop
      <3>8. \A k \in 1 .. m : p[k] = b[k]
        <4> TAKE k \in 1 .. m
        <4>1. 5 + k \in 1 .. 5 + m /\ 15 + (5 + k) = 20 + k
          BY <1>1
        <4> QED BY <4>1, <1>1, <1>4, <3>7
      <3>9. p = b
        BY <1>1, <3>7, <3>8, SameElements DEF m
      <3> QED BY <3>4, <3>9 DEF p
    <2> QED BY <2>1, <2>2
  <1> QED BY <1>9, <1>10 DEF n, l, rest

-----------------------------------------------------------------------------
(* What a task may be when it is interrupted: its registers r and, below   *)
(* them, its stack b.                                                      *)
InOwn(t, n, r, b) ==
  /\ \A q \in Regs \ {"r10", "r11", "rsp"} : r[q] = OwnRegs(t, n)[q]
  /\ t \in UserTasks => r.rsp = OwnRegs(t, n).rsp
  /\ b = OwnStack(t)

AtStart(t, r, b) ==
  /\ b = <<>> /\ (r.cs = KCode => r.rflags = On)
  /\ \/ r.rip = entry /\ t \in Threads /\ r.cs = KCode
     \/ r.rip = enter_user_mode /\ t \in UserTasks /\ r.cs = KCode
     \/ r.rip = InIret /\ t \in UserTasks /\ r.cs = KCode /\ r.r9 = user_rip(t)
     \/ r.rip = user_rip(t) /\ t \in UserTasks /\ r.cs = UCode

Outside(t, n, r, b) == InOwn(t, n, r, b) \/ AtStart(t, r, b)

(* Its stack in a handler that was not switched from, and otherwise.       *)
InFrame(t, n, s) ==
  \E r, v, code, w, b :
    /\ IsFrame(s, r, v, code, w, b) /\ Outside(t, n, r, b)
    /\ r.cs = UCode => w = r.rsp
    /\ r.cs # UCode => w = <<"depth", Len(b)>>

Running(t, n, r, b) ==
  \/ Outside(t, n, r, b)
  \/ r.rip = InIsr /\ r.rflags = Off /\ r.cs = KCode /\ InFrame(t, n, b)
  \/ r.rip = InSys /\ r.rflags = Off /\ r.cs = KCode /\ IsSequence(b) /\ Len(b) = 20

Waiting(t, n, s) ==
  /\ IsSequence(s) /\ Len(s) >= 8
  /\ \/ s[7] = On /\ Len(s) = 8 /\ t \in Threads /\ s[8] = entry
     \/ s[7] = On /\ Len(s) = 8 /\ t \in UserTasks /\ s[8] = enter_user_mode
     \/ s[7] = Off /\ s[8] = InIsr /\ InFrame(t, n, Pop(s, 8))
     \/ s[7] = Off /\ s[8] = InSys /\ Len(s) = 28

LEMMA OwnIs ==
  ASSUME NEW t, NEW n
  PROVE  /\ OwnRegs(t, n).rip = <<"rip", t, n>> /\ OwnRegs(t, n).rflags = <<"rflags", t, n>>
         /\ t \in UserTasks => OwnRegs(t, n).cs = UCode
         /\ t \notin UserTasks => OwnRegs(t, n).cs = KCode
         /\ DOMAIN OwnRegs(t, n) = Regs
         /\ {"rip", "rflags", "cs", "ss"} \subseteq Regs \ {"r10", "r11", "rsp"}
         /\ Gprs \ {"r10", "r11"} \subseteq Regs \ {"r10", "r11", "rsp"}
         /\ Regs \ {"r10", "r11", "rsp"} \subseteq (Gprs \ {"r10", "r11"}) \cup {"rip", "rflags", "cs", "ss"}
  <1>1. /\ {"rip", "rflags", "cs", "ss"} \subseteq Regs \ {"r10", "r11", "rsp"}
        /\ Gprs \ {"r10", "r11"} \subseteq Regs \ {"r10", "r11", "rsp"}
        /\ Regs \ {"r10", "r11", "rsp"} \subseteq (Gprs \ {"r10", "r11"}) \cup {"rip", "rflags", "cs", "ss"}
    BY DEF Regs, Gprs, CalleeSaved
  <1>2. DOMAIN OwnRegs(t, n) = Regs
    BY DEF OwnRegs
  <1>3. OwnRegs(t, n)["rip"] = <<"rip", t, n>> /\ OwnRegs(t, n)["rflags"] = <<"rflags", t, n>>
    BY <1>1 DEF OwnRegs
  <1>4. OwnRegs(t, n)["cs"] = IF t \in UserTasks THEN UCode ELSE KCode
    BY <1>1 DEF OwnRegs
  <1> QED BY <1>1, <1>2, <1>3, <1>4

(* Outside handlers the stack is short.                                    *)
LEMMA OutsideIs ==
  ASSUME NEW t, NEW n, NEW r, NEW b, Outside(t, n, r, b)
  PROVE  /\ IsSequence(b) /\ Len(b) \in 0 .. 1
         /\ r.rip \notin {InIsr, InSys}
         /\ r.cs = UCode => b = <<>> /\ t \in UserTasks
         /\ r.cs \in {UCode, KCode}
         /\ r.rip \notin KernelPlaces /\ r.rip # user_rip(t) => InOwn(t, n, r, b)
  <1>1. CASE InOwn(t, n, r, b)
    <2>1. r.rip = <<"rip", t, n>> /\ r.rflags = <<"rflags", t, n>>
          /\ (t \in UserTasks => r.cs = UCode) /\ (t \notin UserTasks => r.cs = KCode)
      BY <1>1, OwnIs DEF InOwn
    <2>2. b = IF t \in UserTasks THEN <<>> ELSE <<<<"locals", t>>>>
      BY <1>1 DEF InOwn, OwnStack
    <2>3. IsSequence(b) /\ Len(b) \in 0 .. 1
      BY <2>2, OneElement, NoElements
    <2>4. r.rip \notin {InIsr, InSys}
      BY <2>1, Distinct DEF KernelPlaces
    <2>5. r.cs = UCode => b = <<>> /\ t \in UserTasks
      BY <2>1, <2>2, Distinct
    <2> QED BY <1>1, <2>1, <2>3, <2>4, <2>5
  <1>2. CASE AtStart(t, r, b)
    <2>1. IsSequence(b) /\ Len(b) \in 0 .. 1
      BY <1>2, NoElements DEF AtStart
    <2>2. r.rip \in KernelPlaces \/ r.rip = user_rip(t)
      BY <1>2 DEF AtStart, KernelPlaces
    <2>3. r.rip \notin {InIsr, InSys}
      BY <1>2, Distinct DEF AtStart, KernelPlaces
    <2> QED BY <1>2, <2>1, <2>2, <2>3, Distinct DEF AtStart
  <1> QED BY <1>1, <1>2 DEF Outside

(* The epilogue of the stub brings back what was interrupted.              *)
LEMMA ReturnOutside ==
  ASSUME NEW t, NEW n, NEW s, NEW q, InFrame(t, n, s)
  PROVE  /\ Outside(t, n, iretq(Loaded(q, s, IsrPops), Pop(s, 15)), AfterIretq(Pop(s, 15)))
         /\ DOMAIN iretq(Loaded(q, s, IsrPops), Pop(s, 15)) = Regs
  <1>1. PICK r, v, code, w, b :
          /\ IsFrame(s, r, v, code, w, b) /\ Outside(t, n, r, b)
          /\ r.cs = UCode => w = r.rsp
          /\ r.cs # UCode => w = <<"depth", Len(b)>>
    BY DEF InFrame
  <1> DEFINE c == iretq(Loaded(q, s, IsrPops), Pop(s, 15))
             e == AfterIretq(Pop(s, 15))
  <1>2. r.cs = UCode => b = <<>> /\ t \in UserTasks
    BY <1>1, OutsideIs
  <1>3. Restores(c, q, r, w) /\ e = b
    BY <1>1, <1>2, ReturnIs
  <1> HIDE DEF c, e
  <1>4. /\ DOMAIN c = Regs /\ c.rip = r.rip /\ c.cs = r.cs /\ c.rflags = r.rflags /\ c.rsp = w /\ c.ss = r.ss
        /\ \A x \in Gprs \ {"r10", "r11"} : c[x] = r[x]
    BY <1>3 DEF Restores
  <1>5. ASSUME InOwn(t, n, r, b) PROVE InOwn(t, n, c, b)
    <2>1. \A x \in Regs \ {"r10", "r11", "rsp"} : c[x] = r[x]
      BY <1>4, OwnIs
    <2>2. ASSUME t \in UserTasks PROVE c.rsp = OwnRegs(t, n).rsp
      <3>1. r.cs = UCode
        BY <1>5, <2>2, OwnIs DEF InOwn
      <3> QED BY <3>1, <1>1, <1>4, <1>5, <2>2 DEF InOwn
    <2> QED BY <1>5, <2>1, <2>2 DEF InOwn
  <1>6. ASSUME AtStart(t, r, b) PROVE AtStart(t, c, b)
    <2>1. c.r9 = r.r9
      BY <1>4 DEF Gprs, CalleeSaved
    <2> QED BY <1>4, <1>6, <2>1 DEF AtStart
  <1> QED BY <1>1, <1>3, <1>4, <1>5, <1>6 DEF Outside, c, e

LEMMA InFrameLen ==
  ASSUME NEW t, NEW n, NEW s, InFrame(t, n, s)
  PROVE  IsSequence(s) /\ Len(s) \in 20 .. 21
  <1>1. PICK r, v, code, w, b : IsFrame(s, r, v, code, w, b) /\ Outside(t, n, r, b)
    BY DEF InFrame
  <1>2. Len(b) \in 0 .. 1
    BY <1>1, OutsideIs
  <1>3. IsSequence(s) /\ Len(s) = 20 + Len(b)
    BY <1>1 DEF IsFrame
  <1> DEFINE l == Len(s)
             m == Len(b)
  <1> HIDE DEF l, m
  <1>4. l = 20 + m /\ m \in 0 .. 1
    BY <1>2, <1>3 DEF l, m
  <1>5. l \in 20 .. 21
    BY <1>4
  <1> QED BY <1>3, <1>5 DEF l

LEMMA RunningLen ==
  ASSUME NEW t, NEW n, NEW r, NEW b, Running(t, n, r, b)
  PROVE  IsSequence(b) /\ Len(b) \in 0 .. 21
  <1>1. CASE Outside(t, n, r, b)
    BY <1>1, OutsideIs
  <1>2. CASE InFrame(t, n, b)
    BY <1>2, InFrameLen
  <1>3. CASE IsSequence(b) /\ Len(b) = 20
    BY <1>3
  <1> QED BY <1>1, <1>2, <1>3 DEF Running

LEMMA WaitingLen ==
  ASSUME NEW t, NEW n, NEW s, Waiting(t, n, s)
  PROVE  IsSequence(s) /\ Len(s) \in 8 .. 29
  <1>1. IsSequence(s) /\ Len(s) >= 8 /\ Len(s) \in Nat
    BY LenNat DEF Waiting
  <1>2. ASSUME InFrame(t, n, Pop(s, 8)) PROVE Len(s) <= 29
    <2>1. IsDrop(Pop(s, 8), s, 8)
      BY <1>1, PopIs
    <2>2. Len(Pop(s, 8)) \in 20 .. 21
      BY <1>2, InFrameLen
    <2>3. Len(Pop(s, 8)) = Len(s) - 8
      BY <2>1 DEF IsDrop
    <2> DEFINE l == Len(s)
               m == Len(Pop(s, 8))
    <2> HIDE DEF l, m
    <2>4. l \in Nat /\ m = l - 8 /\ m \in 20 .. 21
      BY <1>1, <2>2, <2>3 DEF l, m
    <2>5. l <= 29
      BY <2>4
    <2> QED BY <2>5 DEF l
  <1>3. Len(s) = 8 \/ Len(s) = 28 \/ InFrame(t, n, Pop(s, 8))
    BY DEF Waiting
  <1>4. Len(s) = 8 \/ Len(s) = 28 \/ Len(s) <= 29
    BY <1>2, <1>3
  <1> DEFINE l == Len(s)
  <1> HIDE DEF l
  <1>5. l \in Nat /\ l >= 8 /\ (l = 8 \/ l = 28 \/ l <= 29)
    BY <1>1, <1>4 DEF l
  <1>6. l \in 8 .. 29
    BY <1>5
  <1> QED BY <1>1, <1>6 DEF l

(* context_switch: the stack of the task that is left ...                  *)
LEMMA SwitchedOut ==
  ASSUME NEW s, IsSequence(s), NEW r, r.rflags = Off
  PROVE  LET p == Push(s, <<r.rip>> \o Words(r, SwitchPushes))
         IN  /\ IsSequence(p) /\ Len(p) = 8 + Len(s) /\ p[7] = Off /\ p[8] = r.rip
             /\ Pop(p, 8) = s
  <1> DEFINE W == Words(r, SwitchPushes)
             h == <<r.rip>>
             w == Concat(h, W)
             p == Push(s, w)
             m == Len(s)
  <1>1. W = [k \in 1 .. 7 |-> r[SwitchPushes[k]]]
    BY SwitchOrder DEF Words
  <1>2. IsSequence(W) /\ Len(W) = 7
    <2> DEFINE S == {r[SwitchPushes[k]] : k \in 1 .. 7}
    <2>1. W \in Seq(S) /\ Len(W) = 7
      BY <1>1
    <2> HIDE DEF S, W
    <2> QED BY <2>1 DEF IsSequence
  <1>3. W[1] = Off
    <2>1. SwitchPushes[1] = "rflags"
      BY DEF SwitchPushes
    <2> QED BY <1>1, <2>1
  <1>4. IsSequence(h) /\ Len(h) = 1 /\ h[1] = r.rip
    BY OneElement
  <1>5. m \in Nat
    BY LenNat
  <1> HIDE DEF W, h
  <1>6. IsConcat(w, h, W)
    BY <1>2, <1>4, ConcatIs
  <1> HIDE DEF w
  <1>7. IsSequence(w) /\ Len(w) = 8 /\ w[1] = r.rip /\ w[2] = Off
    BY <1>2, <1>3, <1>4, <1>6 DEF IsConcat
  <1>8. IsPush(p, s, w)
    BY <1>7, PushIs
  <1> HIDE DEF p, m
  <1>9. /\ IsSequence(p) /\ Len(p) = 8 + m /\ \A k \in 1 .. 8 : p[k] = w[8 + 1 - k]
        /\ \A k \in 1 .. m : p[8 + k] = s[k]
    BY <1>7, <1>8 DEF IsPush, m
  <1>10. p[7] = Off /\ p[8] = r.rip
    BY <1>7, <1>9
  <1>11. Pop(p, 8) = s
    <2>1. IsDrop(Pop(p, 8), p, 8)
      BY <1>5, <1>9, PopIs
    <2> DEFINE o == Pop(p, 8)
    <2> HIDE DEF o
    <2>2. IsSequence(o) /\ Len(o) = m /\ \A k \in 1 .. m : o[k] = p[8 + k]
      <3>1. Len(p) - 8 = m
        BY <1>5, <1>9
      <3> QED BY <2>1, <3>1 DEF IsDrop, o
    <2>3. \A k \in 1 .. m : o[k] = s[k]
      BY <1>9, <2>2
    <2>4. o = s
      BY <2>2, <2>3, SameElements DEF m
    <2> QED BY <2>4 DEF o
  <1>12. p = Push(s, <<r.rip>> \o Words(r, SwitchPushes))
    BY DEF p, w, h, W, Concat
  <1> QED BY <1>9, <1>10, <1>11, <1>12 DEF m

(* ... and the registers and stack of the one that goes on.                *)
LEMMA SwitchedIn ==
  ASSUME NEW t, NEW n, NEW s, Waiting(t, n, s), NEW r, r.cs = KCode
  PROVE  LET c == [Loaded(r, s, SwitchPops) EXCEPT !.rip = s[8]]
         IN  DOMAIN c = Regs /\ Running(t, n, c, Pop(s, 8))
  <1> DEFINE l == Loaded(r, s, SwitchPops)
             c == [l EXCEPT !.rip = s[8]]
             b == Pop(s, 8)
  <1>1. /\ DOMAIN l = Regs /\ (\A k \in DOMAIN SwitchPops : l[SwitchPops[k]] = s[k])
        /\ \A q \in Regs : (\A k \in DOMAIN SwitchPops : SwitchPops[k] # q) => l[q] = r[q]
    <2>1. /\ \A k \in DOMAIN SwitchPops : SwitchPops[k] \in Regs
          /\ \A j, k \in DOMAIN SwitchPops : SwitchPops[j] = SwitchPops[k] => j = k
      BY SwitchOrder
    <2> QED BY <2>1, LoadedIs
  <1> HIDE DEF l
  <1>2. l["rflags"] = s[7] /\ l["cs"] = r["cs"]
    <2>1. 7 \in DOMAIN SwitchPops /\ SwitchPops[7] = "rflags"
      BY SwitchOrder
    <2>2. "cs" \in Regs /\ \A k \in DOMAIN SwitchPops : SwitchPops[k] # "cs"
      BY SwitchOrder DEF Regs
    <2> QED BY <1>1, <2>1, <2>2
  <1>3. DOMAIN c = Regs /\ c.rflags = s[7] /\ c.cs = KCode /\ c.rip = s[8]
    BY <1>1, <1>2, OwnIs
  <1> HIDE DEF c
  <1>4. IsSequence(s) /\ Len(s) \in 8 .. 29
    BY WaitingLen
  <1>5. IsDrop(b, s, 8)
    <2> DEFINE m == Len(s)
    <2> HIDE DEF m
    <2>1. m \in 8 .. 29
      BY <1>4 DEF m
    <2>2. 8 \in 0 .. m
      BY <2>1
    <2> QED BY <1>4, <2>2, PopIs DEF m
  <1> HIDE DEF b
  <1>6. IsSequence(b) /\ Len(b) = Len(s) - 8
    BY <1>5 DEF IsDrop
  <1>7. CASE s[7] = On /\ Len(s) = 8 /\ t \in Threads /\ s[8] = entry
    <2>1. b = <<>>
      BY <1>6, <1>7, NoElements
    <2> QED BY <1>3, <1>7, <2>1 DEF Running, Outside, AtStart, c, b, l
  <1>8. CASE s[7] = On /\ Len(s) = 8 /\ t \in UserTasks /\ s[8] = enter_user_mode
    <2>1. b = <<>>
      BY <1>6, <1>8, NoElements
    <2> QED BY <1>3, <1>8, <2>1 DEF Running, Outside, AtStart, c, b, l
  <1>9. CASE s[7] = Off /\ s[8] = InIsr /\ InFrame(t, n, Pop(s, 8))
    BY <1>3, <1>9 DEF Running, c, b, l
  <1>10. CASE s[7] = Off /\ s[8] = InSys /\ Len(s) = 28
    BY <1>3, <1>6, <1>10 DEF Running, c, b, l
  <1> QED BY <1>7, <1>8, <1>9, <1>10 DEF Waiting

-----------------------------------------------------------------------------
(* The registers in a handler.                                             *)
LEMMA HandlerIs ==
  ASSUME NEW place, NEW kept
  PROVE  /\ DOMAIN InHandler(place, kept) = Regs
         /\ InHandler(place, kept).rip = place /\ InHandler(place, kept).cs = KCode
         /\ InHandler(place, kept).rflags = Off
  <1> DEFINE a == AfterC(cpu, kept)
  <1>1. DOMAIN a = Regs
    BY DEF AfterC
  <1> HIDE DEF a
  <1>2. InHandler(place, kept) = [a EXCEPT !.rip = place, !.cs = KCode, !.ss = KData, !.rflags = Off]
    BY DEF InHandler, GateFlags, a
  <1>3. {"rip", "cs", "ss", "rflags"} \subseteq Regs
    BY OwnIs
  <1> QED BY <1>1, <1>2, <1>3

(* The frame syscall_entry makes has twenty words.                         *)
LEMMA SyscallFrame == IsSequence(syscall_entry) /\ Len(syscall_entry) = 20
  <1> DEFINE r == [cpu EXCEPT !.rcx = cpu.rip, !.r11 = cpu.rflags]
             o == Reverse(IsrPushes)
             W == Words(r, o)
             h == <<Num(128), Zero>>
             f == <<r.rcx, UCode, r.r11, r.rsp, UData>>
             a == Concat(W, h)
             w == Concat(a, f)
             e == <<>>
  <1>1. syscall_entry = Push(e, w)
    BY DEF syscall_entry, Concat
  <1>2. Len(IsrPushes) = 13
    BY DEF IsrPushes
  <1>3. DOMAIN o = 1 .. 13
    BY <1>2 DEF Reverse
  <1> HIDE DEF r, o
  <1>4. IsSequence(W) /\ Len(W) = 13
    <2> DEFINE S == {r[o[k]] : k \in 1 .. 13}
    <2>1. W = [k \in 1 .. 13 |-> r[o[k]]]
      BY <1>3 DEF Words
    <2>2. W \in Seq(S) /\ Len(W) = 13
      BY <2>1
    <2> HIDE DEF S, W
    <2> QED BY <2>2 DEF IsSequence
  <1>5. IsSequence(h) /\ Len(h) = 2
    <2> DEFINE x == Num(128)
    <2>1. h = <<x, Zero>>
      OBVIOUS
    <2> HIDE DEF x
    <2>2. <<x, Zero>> \in Seq({x, Zero}) /\ Len(<<x, Zero>>) = 2
      OBVIOUS
    <2> QED BY <2>1, <2>2 DEF IsSequence
  <1>6. IsSequence(f) /\ Len(f) = 5
    <2> DEFINE f1 == r.rcx
               f3 == r.r11
               f4 == r.rsp
    <2>1. f = <<f1, UCode, f3, f4, UData>>
      OBVIOUS
    <2> HIDE DEF f1, f3, f4
    <2>2. <<f1, UCode, f3, f4, UData>> \in Seq({f1, UCode, f3, f4, UData})
          /\ Len(<<f1, UCode, f3, f4, UData>>) = 5
      OBVIOUS
    <2> QED BY <2>1, <2>2 DEF IsSequence
  <1> HIDE DEF W, h, f
  <1>7. IsConcat(a, W, h)
    BY <1>4, <1>5, ConcatIs
  <1> HIDE DEF a
  <1>8. IsSequence(a) /\ Len(a) = 15
    BY <1>4, <1>5, <1>7 DEF IsConcat
  <1>9. IsConcat(w, a, f)
    BY <1>6, <1>8, ConcatIs
  <1> HIDE DEF w
  <1>10. IsSequence(w) /\ Len(w) = 20
    BY <1>6, <1>8, <1>9 DEF IsConcat
  <1>11. IsSequence(e) /\ Len(e) = 0
    BY NoElements
  <1> HIDE DEF e
  <1>12. IsPush(Push(e, w), e, w)
    BY <1>10, <1>11, PushIs
  <1> QED BY <1>1, <1>10, <1>11, <1>12 DEF IsPush

-----------------------------------------------------------------------------
(* Every task is at a point it may be left at or gone on from.             *)
Held(st, r, c, n) ==
  /\ DOMAIN st = Tasks /\ c \in Tasks /\ DOMAIN r = Regs
  /\ Running(c, n[c], r, st[c])
  /\ \A t \in Tasks \ {c} : Waiting(t, n[t], st[t])

(* In a handler at place, its frame on the stack.                          *)
Handling(t, n, place, s) ==
  \/ place = InIsr /\ InFrame(t, n, s)
  \/ place = InSys /\ IsSequence(s) /\ Len(s) = 20

LEMMA HandlingRuns ==
  ASSUME NEW t, NEW n, NEW place, NEW s, Handling(t, n, place, s),
         NEW r, r.rip = place, r.cs = KCode, r.rflags = Off
  PROVE  Running(t, n, r, s) /\ IsSequence(s)
  BY InFrameLen DEF Handling, Running

LEMMA HandlingWaits ==
  ASSUME NEW t, NEW n, NEW place, NEW s, Handling(t, n, place, s),
         NEW p, IsSequence(p), Len(p) = 8 + Len(s), p[7] = Off, p[8] = place, Pop(p, 8) = s
  PROVE  Waiting(t, n, p)
  <1>1. IsSequence(s)
    BY InFrameLen DEF Handling
  <1> DEFINE l == Len(p)
             m == Len(s)
  <1>2. m \in Nat /\ l = 8 + m
    BY <1>1, LenNat
  <1> HIDE DEF l, m
  <1>3. l >= 8
    BY <1>2
  <1>4. Len(p) >= 8
    BY <1>3 DEF l
  <1>5. CASE place = InIsr /\ InFrame(t, n, s)
    BY <1>4, <1>5 DEF Waiting
  <1>6. CASE place = InSys /\ Len(s) = 20
    <2>1. Len(p) = 28
      BY <1>6
    <2> QED BY <1>4, <1>6, <2>1 DEF Waiting
  <1> QED BY <1>5, <1>6 DEF Handling

(* schedule leaves the current task where it can go on, and lets another   *)
(* go on.                                                                  *)
LEMMA ScheduleKeeps ==
  ASSUME Held(stack, cpu, current_task, turn), NEW STATE place, NEW STATE s,
         Handling(current_task, turn[current_task], place, s), schedule(place, s), turn' = turn
  PROVE  Held(stack', cpu', current_task', turn')
  <1>1. PICK next \in Tasks \ (dead' \cup {current_task}), kept \in Untouched :
          context_switch(next, InHandler(place, kept), s)
    BY DEF schedule
  <1> DEFINE r == InHandler(place, kept)
             p == Push(s, <<r.rip>> \o Words(r, SwitchPushes))
             o == stack[next]
             b == Pop(o, 8)
             c == [Loaded(r, o, SwitchPops) EXCEPT !.rip = o[8]]
  <1>2. r.rip = place /\ r.cs = KCode /\ r.rflags = Off
    BY HandlerIs
  <1>3. /\ stack' = [stack EXCEPT ![current_task] = p, ![next] = b]
        /\ cpu' = c /\ current_task' = next
    BY <1>1 DEF context_switch
  <1> HIDE DEF r
  <1>4. IsSequence(s)
    BY <1>2, HandlingRuns
  <1>5. /\ IsSequence(p) /\ Len(p) = 8 + Len(s) /\ p[7] = Off /\ p[8] = r.rip /\ Pop(p, 8) = s
    BY <1>2, <1>4, SwitchedOut
  <1>6. Waiting(next, turn[next], o)
    BY DEF Held
  <1>7. DOMAIN c = Regs /\ Running(next, turn[next], c, b)
    BY <1>2, <1>6, SwitchedIn
  <1> HIDE DEF p, b, c
  <1>8. Waiting(current_task, turn[current_task], p)
    BY <1>2, <1>5, HandlingWaits
  <1>9. /\ DOMAIN stack' = Tasks /\ stack'[current_task] = p /\ stack'[next] = b
        /\ \A t \in Tasks \ {current_task, next} : stack'[t] = stack[t]
    BY <1>1, <1>3 DEF Held
  <1>10. \A t \in Tasks \ {next} : Waiting(t, turn[t], stack'[t])
    <2> TAKE t \in Tasks \ {next}
    <2>1. CASE t = current_task
      BY <1>8, <1>9, <2>1
    <2>2. CASE t # current_task
      BY <1>9, <2>2 DEF Held
    <2> QED BY <2>1, <2>2
  <1> QED BY <1>1, <1>3, <1>7, <1>9, <1>10 DEF Held

(* The same for a handler that goes back to the task it interrupted.       *)
LEMMA StayKeeps ==
  ASSUME Held(stack, cpu, current_task, turn), NEW STATE place, NEW STATE s,
         Handling(current_task, turn[current_task], place, s), Stay(place, s), turn' = turn
  PROVE  Held(stack', cpu', current_task', turn')
  <1>1. PICK kept \in Untouched : cpu' = InHandler(place, kept)
    BY DEF Stay
  <1>2. cpu'.rip = place /\ cpu'.cs = KCode /\ cpu'.rflags = Off /\ DOMAIN cpu' = Regs
    BY <1>1, HandlerIs
  <1>3. Running(current_task, turn[current_task], cpu', s)
    BY <1>2, HandlingRuns
  <1>4. /\ DOMAIN stack' = Tasks /\ stack'[current_task] = s /\ current_task' = current_task
        /\ \A t \in Tasks \ {current_task} : stack'[t] = stack[t]
    BY DEF Stay, Held
  <1> QED BY <1>2, <1>3, <1>4 DEF Held

-----------------------------------------------------------------------------
(* The inductive invariant: besides what the runs check, what each stack   *)
(* holds.                                                                  *)
Stacks == \A t \in Tasks : IsSequence(stack[t]) /\ Len(stack[t]) \in 0 .. 29
UpHeld == mode = "up" => Held(stack, cpu, current_task, turn)
IInv == TypeOK /\ HandledAsRaised /\ Stacks /\ UpHeld

LEMMA HeldStacks ==
  ASSUME NEW st, NEW r, NEW c, NEW n, Held(st, r, c, n), NEW t \in Tasks
  PROVE  IsSequence(st[t]) /\ Len(st[t]) \in 0 .. 29
  <1> DEFINE l == Len(st[t])
  <1> HIDE DEF l
  <1>1. CASE t = c
    <2>1. IsSequence(st[t]) /\ l \in 0 .. 21
      BY <1>1, RunningLen DEF Held, l
    <2>2. l \in 0 .. 29
      BY <2>1
    <2> QED BY <2>1, <2>2 DEF l
  <1>2. CASE t # c
    <2>1. IsSequence(st[t]) /\ l \in 8 .. 29
      BY <1>2, WaitingLen DEF Held, l
    <2>2. l \in 0 .. 29
      BY <2>1
    <2> QED BY <2>1, <2>2 DEF l
  <1> QED BY <1>1, <1>2

(* The hand-made frames of new tasks.                                      *)
LEMMA FreshIs ==
  ASSUME NEW start
  PROVE  /\ IsSequence(FreshFrame(start)) /\ Len(FreshFrame(start)) = 8
         /\ FreshFrame(start)[7] = On /\ FreshFrame(start)[8] = start
  <1> DEFINE w == <<start, On, Zero, Zero, Zero, Zero, Zero, Zero>>
             e == <<>>
             p == Push(e, w)
  <1>1. FreshFrame(start) = p
    BY DEF FreshFrame
  <1>2. w \in Seq({start, On, Zero}) /\ Len(w) = 8 /\ w[1] = start /\ w[2] = On
    OBVIOUS
  <1>3. IsSequence(e) /\ Len(e) = 0
    BY NoElements
  <1> HIDE DEF w, e
  <1>4. IsSequence(w)
    BY <1>2 DEF IsSequence
  <1>5. IsPush(p, e, w)
    BY <1>3, <1>4, PushIs
  <1> HIDE DEF p
  <1>6. IsSequence(p) /\ Len(p) = 8 /\ \A k \in 1 .. 8 : p[k] = w[8 + 1 - k]
    BY <1>2, <1>3, <1>5 DEF IsPush
  <1>7. p[7] = On /\ p[8] = start
    BY <1>2, <1>6
  <1> QED BY <1>1, <1>6, <1>7

LEMMA InitHolds == Init => IInv
  <1> SUFFICES ASSUME Init PROVE IInv
    OBVIOUS
  <1>1. Boot \in Tasks /\ \A t \in Tasks \ {Boot} : t \in UserTasks \/ (t \in Threads /\ t \notin UserTasks)
    BY DEF Tasks
  <1>2. stack[Boot] = OwnStack(Boot) /\ DOMAIN stack = Tasks
    BY <1>1 DEF Init
  <1>3. \A t \in Tasks \ {Boot} :
          stack[t] = FreshFrame(IF t \in UserTasks THEN enter_user_mode ELSE entry)
    BY DEF Init
  <1>4. InOwn(Boot, 0, cpu, stack[Boot])
    BY <1>2 DEF Init, InOwn
  <1>5. \A t \in Tasks \ {Boot} : Waiting(t, 0, stack[t])
    <2> TAKE t \in Tasks \ {Boot}
    <2> DEFINE p == IF t \in UserTasks THEN enter_user_mode ELSE entry
               s == FreshFrame(p)
    <2>1. IsSequence(s) /\ Len(s) = 8 /\ s[7] = On /\ s[8] = p
      BY FreshIs
    <2>2. stack[t] = s
      BY <1>3
    <2> HIDE DEF s
    <2>3. Len(s) >= 8
      <3>1. 8 >= 8
        OBVIOUS
      <3> QED BY <2>1, <3>1
    <2>4. CASE t \in UserTasks
      <3>1. p = enter_user_mode
        BY <2>4
      <3> HIDE DEF p
      <3>2. Waiting(t, 0, s)
        BY <2>1, <2>3, <2>4, <3>1, Zenon DEF Waiting
      <3> QED BY <2>2, <3>2
    <2>5. CASE t \in Threads /\ t \notin UserTasks
      <3>1. p = entry
        BY <2>5
      <3> HIDE DEF p
      <3>2. Waiting(t, 0, s)
        BY <2>1, <2>3, <2>5, <3>1, Zenon DEF Waiting
      <3> QED BY <2>2, <3>2
    <2> QED BY <1>1, <2>4, <2>5
  <1>6. Held(stack, cpu, current_task, turn)
    <2>1. \A t \in Tasks : turn[t] = 0
      BY DEF Init
    <2>2. current_task = Boot /\ DOMAIN cpu = Regs
      BY OwnIs DEF Init
    <2> QED BY <1>1, <1>2, <1>4, <1>5, <2>1, <2>2 DEF Held, Running, Outside
  <1>7. Stacks
    BY <1>6, HeldStacks DEF Stacks
  <1>8. TypeOK
    BY <1>1, <1>2, OwnIs DEF Init, TypeOK
  <1>9. HandledAsRaised
    BY DEF Init, HandledAsRaised
  <1> QED BY <1>6, <1>7, <1>8, <1>9 DEF IInv, UpHeld

(* What holds while the machine is up.                                     *)
LEMMA UpIs ==
  ASSUME IInv, mode = "up"
  PROVE  /\ Held(stack, cpu, current_task, turn) /\ current_task \in Tasks
         /\ turn[current_task] \in {0, 1} /\ seen = raised
         /\ Running(current_task, turn[current_task], cpu, stack[current_task])
  <1>1. seen = raised
    BY DEF IInv, HandledAsRaised
  <1>2. Held(stack, cpu, current_task, turn)
    BY DEF IInv, UpHeld
  <1>3. current_task \in Tasks /\ turn \in [Tasks -> {0, 1}]
    BY DEF IInv, TypeOK
  <1> QED BY <1>1, <1>2, <1>3 DEF Held

(* Outside handlers: with interrupts on, or in one of these places.        *)
LEMMA UpOutside ==
  ASSUME IInv, mode = "up",
         \/ cpu.rflags # Off
         \/ cpu.cs = UCode
         \/ cpu.rip \notin {InIsr, InSys}
  PROVE  Outside(current_task, turn[current_task], cpu, stack[current_task])
  BY UpIs, Distinct DEF Running

(* The current task's stack is s, the others are as they were.             *)
Put(s) == DOMAIN stack' = Tasks /\ \A t \in Tasks : stack'[t] = IF t = current_task THEN s ELSE stack[t]

LEMMA PutIs ==
  ASSUME IInv, NEW STATE s, stack' = [stack EXCEPT ![current_task] = s]
  PROVE  Put(s)
  BY DEF IInv, TypeOK, Put

LEMMA PutSame ==
  ASSUME IInv, stack' = stack
  PROVE  /\ Put(stack[current_task]) /\ IsSequence(stack[current_task])
         /\ Len(stack[current_task]) \in 0 .. 29
  <1>1. Put(stack[current_task])
    BY DEF IInv, TypeOK, Put
  <1> QED BY <1>1 DEF IInv, TypeOK, Stacks

LEMMA OneMoves ==
  ASSUME IInv, mode = "up", mode' = "up", NEW STATE s, NEW STATE n, n \in {0, 1},
         Put(s), turn' = [turn EXCEPT ![current_task] = n],
         current_task' = current_task, dead' = dead, DOMAIN cpu' = Regs, seen' = raised',
         Running(current_task, n, cpu', s)
  PROVE  IInv'
  <1>1. Held(stack, cpu, current_task, turn) /\ current_task \in Tasks
    BY UpIs
  <1>2. TypeOK
    BY DEF IInv
  <1>3. /\ DOMAIN stack' = Tasks /\ stack'[current_task] = s
        /\ \A t \in Tasks \ {current_task} : stack'[t] = stack[t]
    BY <1>1, <1>2 DEF TypeOK, Put
  <1>4. /\ turn' \in [Tasks -> {0, 1}] /\ turn'[current_task] = n
        /\ \A t \in Tasks \ {current_task} : turn'[t] = turn[t]
    BY <1>1, <1>2 DEF TypeOK
  <1>5. Held(stack', cpu', current_task', turn')
    BY <1>1, <1>3, <1>4 DEF Held
  <1>6. Stacks'
    BY <1>5, HeldStacks DEF Stacks
  <1>7. TypeOK'
    BY <1>2, <1>3, <1>4 DEF TypeOK
  <1> QED BY <1>5, <1>6, <1>7 DEF IInv, UpHeld, HandledAsRaised

LEMMA SameTurn ==
  ASSUME IInv, turn' = turn
  PROVE  turn' = [turn EXCEPT ![current_task] = turn[current_task]]
  BY DEF IInv, TypeOK

-----------------------------------------------------------------------------
(* Each action keeps the invariant.                                        *)
LEMMA WorkKeeps == ASSUME IInv, Work PROVE IInv'
  <1> DEFINE t == current_task
             n == 1 - turn[t]
  <1>1. mode = "up" /\ mode' = "up"
    BY DEF Work
  <1>2. turn[t] \in {0, 1}
    BY <1>1, UpIs
  <1>3. n \in {0, 1}
    BY <1>2
  <1>4. /\ cpu' = OwnRegs(t, n) /\ stack' = [stack EXCEPT ![t] = OwnStack(t)]
        /\ turn' = [turn EXCEPT ![t] = n] /\ current_task' = t /\ dead' = dead /\ seen' = raised'
    BY DEF Work
  <1>5. InOwn(t, n, cpu', OwnStack(t)) /\ DOMAIN cpu' = Regs
    BY <1>4, OwnIs DEF InOwn
  <1>6. Running(t, n, cpu', OwnStack(t))
    BY <1>5 DEF Running, Outside
  <1>7. Put(OwnStack(t))
    BY <1>4, PutIs
  <1> QED BY <1>1, <1>3, <1>4, <1>5, <1>6, <1>7, OneMoves

(* An interrupt outside handlers leaves a frame of what it interrupted.    *)
LEMMA Interrupted ==
  ASSUME NEW v, v \in CpuPushesCode <=> v \in ISR_ERRCODE,
         Outside(current_task, turn[current_task], cpu, stack[current_task])
  PROVE  /\ InFrame(current_task, turn[current_task], isr_common_stub(v))
         /\ ReadFrame(isr_common_stub(v)) = Fact(v) /\ isr_common_stub(v)[14] = Num(v)
  <1> DEFINE b == stack[current_task]
             s == isr_common_stub(v)
  <1>1. IsSequence(b) /\ (cpu.cs = UCode => b = <<>>)
    BY OutsideIs
  <1>2. Base = b /\ IsSequence(Base)
    BY <1>1 DEF Base, Ring3
  <1>3. IsFrame(s, cpu, v, Code(v), Rsp, Base)
    BY <1>2, StubIs
  <1>4. cpu.cs = UCode => Rsp = cpu.rsp
    BY DEF Rsp, Ring3
  <1>5. cpu.cs # UCode => Rsp = <<"depth", Len(Base)>>
    BY DEF Rsp, Ring3
  <1> HIDE DEF s
  <1>6. InFrame(current_task, turn[current_task], s)
    BY <1>2, <1>3, <1>4, <1>5 DEF InFrame
  <1>7. ReadFrame(s) = Fact(v)
    BY <1>3, ReadIs
  <1>8. s[14] = Num(v)
    BY <1>3 DEF IsFrame
  <1> QED BY <1>6, <1>7, <1>8 DEF s

LEMMA HeldKeeps ==
  ASSUME IInv, mode' = "up", Held(stack', cpu', current_task', turn'), turn' = turn,
         dead' \subseteq UserTasks, seen' = raised'
  PROVE  IInv'
  <1>1. Stacks'
    BY HeldStacks DEF Stacks
  <1>2. TypeOK'
    BY DEF IInv, TypeOK, Held
  <1> QED BY <1>1, <1>2 DEF IInv, UpHeld, HandledAsRaised

LEMMA InterruptKeeps ==
  ASSUME IInv, NEW v \in Irqs, Interrupt(v)
  PROVE  IInv'
  <1> DEFINE s == isr_common_stub(v)
  <1>1. mode = "up" /\ cpu.rflags # Off /\ mode' = "up" /\ turn' = turn /\ dead' = dead
    BY DEF Interrupt
  <1>2. Outside(current_task, turn[current_task], cpu, stack[current_task])
    BY <1>1, UpOutside
  <1>3. v \in CpuPushesCode <=> v \in ISR_ERRCODE
    BY DEF Irqs, CpuPushesCode, ISR_ERRCODE
  <1>4. InFrame(current_task, turn[current_task], s) /\ ReadFrame(s) = Fact(v)
    BY <1>2, <1>3, Interrupted
  <1>5. seen' = raised'
    BY <1>4 DEF Interrupt
  <1>6. schedule(InIsr, s) \/ Stay(InIsr, s)
    BY DEF Interrupt
  <1>7. Held(stack, cpu, current_task, turn)
    BY <1>1, UpIs
  <1> HIDE DEF s
  <1>8. Handling(current_task, turn[current_task], InIsr, s)
    BY <1>4 DEF Handling
  <1>9. Held(stack', cpu', current_task', turn')
    BY <1>1, <1>6, <1>7, <1>8, ScheduleKeeps, StayKeeps
  <1>10. dead' \subseteq UserTasks
    BY <1>1 DEF IInv, TypeOK
  <1> QED BY <1>1, <1>5, <1>9, <1>10, HeldKeeps

LEMMA SyscallKeeps ==
  ASSUME IInv, NEW op \in Syscalls, Syscall(op)
  PROVE  IInv'
  <1> DEFINE s == syscall_entry
  <1>1. mode = "up" /\ cpu.cs = UCode /\ mode' = "up" /\ turn' = turn /\ dead' = dead \cup Exiting(op)
        /\ raised' = raised /\ seen' = seen
    BY DEF Syscall, Ring3
  <1>2. Outside(current_task, turn[current_task], cpu, stack[current_task])
    BY <1>1, UpOutside
  <1>3. current_task \in UserTasks
    BY <1>1, <1>2, OutsideIs
  <1>4. dead' \subseteq UserTasks
    BY <1>1, <1>3 DEF IInv, TypeOK, Exiting
  <1>5. schedule(InSys, s) \/ Stay(InSys, s)
    BY DEF Syscall
  <1>6. Held(stack, cpu, current_task, turn) /\ seen = raised
    BY <1>1, UpIs
  <1>7. IsSequence(s) /\ Len(s) = 20
    BY SyscallFrame
  <1> HIDE DEF s
  <1>8. Handling(current_task, turn[current_task], InSys, s)
    BY <1>7 DEF Handling
  <1>9. Held(stack', cpu', current_task', turn')
    BY <1>1, <1>5, <1>6, <1>8, ScheduleKeeps, StayKeeps
  <1> QED BY <1>1, <1>4, <1>6, <1>9, HeldKeeps

LEMMA IsrReturnKeeps == ASSUME IInv, IsrReturn PROVE IInv'
  <1> DEFINE t == current_task
             n == turn[t]
             s == stack[t]
             c == iretq(Loaded(cpu, s, IsrPops), Pop(s, 15))
             b == AfterIretq(Pop(s, 15))
  <1>1. mode = "up" /\ cpu.rip = InIsr /\ mode' = "up" /\ current_task' = t /\ turn' = turn /\ dead' = dead
        /\ raised' = raised /\ seen' = seen
    BY DEF IsrReturn
  <1>2. Len(IsrPops) + 2 = 15
    <2>1. Len(IsrPops) = 13
      BY DEF IsrPops
    <2> QED BY <2>1
  <1>3. cpu' = c /\ stack' = [stack EXCEPT ![t] = b]
    BY <1>2 DEF IsrReturn
  <1>4. n \in {0, 1} /\ seen = raised /\ Running(t, n, cpu, s)
    BY <1>1, UpIs
  <1>5. InFrame(t, n, s)
    <2>1. ~Outside(t, n, cpu, s)
      BY <1>1, OutsideIs
    <2>2. InIsr # InSys
      BY Distinct
    <2> QED BY <1>1, <1>4, <2>1, <2>2 DEF Running
  <1>6. Outside(t, n, c, b) /\ DOMAIN c = Regs
    BY <1>5, ReturnOutside
  <1>7. turn' = [turn EXCEPT ![current_task] = n]
    BY <1>1, SameTurn
  <1> HIDE DEF c, b
  <1>8. Running(t, n, cpu', b) /\ DOMAIN cpu' = Regs
    BY <1>3, <1>6 DEF Running
  <1>9. Put(b)
    BY <1>3, PutIs
  <1> QED BY <1>1, <1>4, <1>7, <1>8, <1>9, OneMoves

LEMMA EnterRegsKeeps == ASSUME IInv, EnterRegs PROVE IInv'
  <1> DEFINE t == current_task
             n == turn[t]
             s == stack[t]
  <1>1. mode = "up" /\ cpu.rip = enter_user_mode /\ mode' = "up" /\ current_task' = t /\ turn' = turn
        /\ dead' = dead /\ raised' = raised /\ seen' = seen /\ stack' = stack
    BY DEF EnterRegs
  <1>2. Outside(t, n, cpu, s)
    BY <1>1, UpOutside, Distinct
  <1>3. AtStart(t, cpu, s)
    <2>1. ~InOwn(t, n, cpu, s)
      <3>1. OwnRegs(t, n).rip # enter_user_mode
        BY OwnIs, Distinct DEF KernelPlaces
      <3> QED BY <1>1, <3>1, OwnIs DEF InOwn
    <2> QED BY <1>2, <2>1 DEF Outside
  <1>4. s = <<>> /\ cpu.rflags = On /\ t \in UserTasks /\ cpu.cs = KCode
    <2>1. user_rip(t) # enter_user_mode
      BY Distinct DEF KernelPlaces
    <2> QED BY <1>1, <1>3, <2>1, Distinct DEF AtStart
  <1>5. DOMAIN cpu = Regs
    BY DEF IInv, TypeOK
  <1>6. {"rip", "r9", "r10", "r11", "cs", "rflags"} \subseteq Regs
    BY DEF Regs, Gprs
  <1>7. /\ DOMAIN cpu' = Regs /\ cpu'.rip = InIret /\ cpu'.r9 = user_rip(t)
        /\ cpu'.cs = cpu.cs /\ cpu'.rflags = cpu.rflags
    BY <1>5, <1>6 DEF EnterRegs
  <1>8. AtStart(t, cpu', s)
    BY <1>4, <1>7 DEF AtStart
  <1>9. Running(t, n, cpu', s)
    BY <1>8 DEF Running, Outside
  <1>10. Put(s) /\ turn' = [turn EXCEPT ![current_task] = n]
    BY <1>1, PutSame, SameTurn
  <1>11. n \in {0, 1} /\ seen = raised
    BY <1>1, UpIs
  <1> QED BY <1>1, <1>7, <1>9, <1>10, <1>11, OneMoves

(* A machine that stopped.                                                 *)
LEMMA StoppedKeeps ==
  ASSUME IInv, mode' \in {"panic", "reset", "returned"}, mode' # "reset" => seen' = raised',
         NEW STATE s, IsSequence(s), Len(s) \in 0 .. 29, Put(s),
         DOMAIN cpu' = Regs, current_task' = current_task, turn' = turn, dead' = dead
  PROVE  IInv'
  <1>1. TypeOK /\ Stacks
    BY DEF IInv
  <1>2. DOMAIN stack' = Tasks /\ \A t \in Tasks : stack'[t] = IF t = current_task THEN s ELSE stack[t]
    BY DEF Put
  <1>3. Stacks'
    BY <1>1, <1>2 DEF Stacks
  <1>4. TypeOK'
    BY <1>1, <1>2 DEF TypeOK
  <1>5. mode' # "up"
    OBVIOUS
  <1> QED BY <1>3, <1>4, <1>5 DEF IInv, UpHeld, HandledAsRaised

LEMMA EnterIretKeeps == ASSUME IInv, EnterIret PROVE IInv'
  <1> DEFINE t == current_task
             n == turn[t]
             b == stack[t]
             w == <<UData, cpu.r10, cpu.r11, UCode, cpu.r9>>
             s == Push(b, w)
             c == iretq(cpu, s)
  <1>1. mode = "up" /\ cpu.rip = InIret /\ current_task' = t /\ turn' = turn
        /\ dead' = dead /\ raised' = raised /\ seen' = seen
    BY DEF EnterIret
  <1>2. Outside(t, n, cpu, b)
    BY <1>1, UpOutside, Distinct
  <1>3. AtStart(t, cpu, b)
    <2>1. ~InOwn(t, n, cpu, b)
      <3>1. OwnRegs(t, n).rip # InIret
        BY OwnIs, Distinct DEF KernelPlaces
      <3> QED BY <1>1, <3>1, OwnIs DEF InOwn
    <2> QED BY <1>2, <2>1 DEF Outside
  <1>4. b = <<>> /\ t \in UserTasks /\ cpu.r9 = user_rip(t)
    <2>1. user_rip(t) # InIret
      BY Distinct DEF KernelPlaces
    <2> QED BY <1>1, <1>3, <2>1, Distinct DEF AtStart
  <1>5. /\ cpu' = c /\ stack' = [stack EXCEPT ![t] = AfterIretq(s)]
        /\ mode' = "up"
    BY DEF EnterIret
  <1>6. s[1] = cpu.r9 /\ s[2] = UCode
    <2> DEFINE w2 == cpu.r10
               w3 == cpu.r11
               w5 == cpu.r9
    <2>1. w = <<UData, w2, w3, UCode, w5>>
      OBVIOUS
    <2> HIDE DEF w2, w3, w5
    <2>2. /\ <<UData, w2, w3, UCode, w5>> \in Seq({UData, w2, w3, UCode, w5})
          /\ Len(<<UData, w2, w3, UCode, w5>>) = 5
          /\ <<UData, w2, w3, UCode, w5>>[5] = w5 /\ <<UData, w2, w3, UCode, w5>>[4] = UCode
      OBVIOUS
    <2>3. IsSequence(w) /\ Len(w) = 5 /\ w[5] = w5 /\ w[4] = UCode
      BY <2>1, <2>2 DEF IsSequence
    <2>4. IsSequence(b)
      BY <1>4, NoElements
    <2> HIDE DEF w, b
    <2>5. IsPush(s, b, w)
      BY <2>3, <2>4, PushIs
    <2> HIDE DEF s
    <2>6. \A k \in 1 .. 5 : s[k] = w[5 + 1 - k]
      BY <2>3, <2>5 DEF IsPush
    <2>7. s[1] = w5 /\ s[2] = UCode
      BY <2>3, <2>6
    <2> QED BY <2>7 DEF w5
  <1>7. DOMAIN c = Regs /\ c.rip = s[1] /\ c.cs = s[2]
    BY IretqIs
  <1>8. AfterIretq(s) = <<>>
    BY <1>6 DEF AfterIretq
  <1> HIDE DEF c, s
  <1> DEFINE e == <<>>
  <1>9. IsSequence(e) /\ Len(e) \in 0 .. 29
    BY NoElements
  <1>10. Put(e)
    BY <1>5, <1>8, PutIs
  <1>11. DOMAIN cpu' = Regs /\ cpu'.rip = user_rip(t) /\ cpu'.cs = UCode
    BY <1>4, <1>5, <1>6, <1>7
  <1>12. n \in {0, 1} /\ seen = raised
    BY <1>1, UpIs
  <1>13. turn' = [turn EXCEPT ![current_task] = n]
    BY <1>1, SameTurn
  <1>14. Running(t, n, cpu', e)
    BY <1>4, <1>11, Distinct DEF Running, Outside, AtStart
  <1> HIDE DEF e
  <1>15. mode' = "up" /\ seen' = raised'
    BY <1>1, <1>5, <1>12
  <1> QED BY <1>1, <1>10, <1>11, <1>12, <1>13, <1>14, <1>15, OneMoves

LEMMA ExceptionKeeps ==
  ASSUME IInv, NEW v \in Raised, Exception(v)
  PROVE  IInv'
  <1>1. mode = "up" /\ cpu.cs = UCode /\ cpu' = cpu /\ stack' = stack /\ current_task' = current_task
        /\ turn' = turn /\ dead' = dead
    BY DEF Exception, Ring3
  <1>2. Outside(current_task, turn[current_task], cpu, stack[current_task])
    BY <1>1, UpOutside
  <1>3. v \in CpuPushesCode <=> v \in ISR_ERRCODE
    <2>1. v \in Int /\ v \notin {17, 21, 29, 30}
      BY FramesAssumption
    <2>2. \A k \in 10 .. 14 : k = 10 \/ k = 11 \/ k = 12 \/ k = 13 \/ k = 14
      OBVIOUS
    <2> QED BY <2>1, <2>2 DEF CpuPushesCode, ISR_ERRCODE
  <1>4. ReadFrame(isr_common_stub(v)) = Fact(v)
    BY <1>2, <1>3, Interrupted
  <1>5. mode' \in {"panic", "reset", "returned"}
    BY DEF Exception
  <1>6. mode' # "reset" => seen' = raised'
    BY <1>4 DEF Exception
  <1>7. DOMAIN cpu' = Regs
    BY <1>1 DEF IInv, TypeOK
  <1> DEFINE s == stack[current_task]
  <1>8. Put(s) /\ IsSequence(s) /\ Len(s) \in 0 .. 29
    BY <1>1, PutSame
  <1> HIDE DEF s
  <1> QED BY <1>1, <1>5, <1>6, <1>7, <1>8, StoppedKeeps

LEMMA SyscallReturnKeeps == ASSUME IInv, syscall_return PROVE IInv'
  <1> DEFINE s == stack[current_task]
             e == [s EXCEPT ![16] = Result]
             l == Loaded([cpu EXCEPT !.rax = Result], e, IsrPops)
             p == Pop(e, 15)
  <1>1. mode = "up" /\ mode' = "returned" /\ cpu' = iretq(l, p) /\ stack' = stack
        /\ current_task' = current_task /\ turn' = turn /\ dead' = dead /\ raised' = raised /\ seen' = seen
    BY DEF syscall_return
  <1> HIDE DEF l, p
  <1>2. DOMAIN cpu' = Regs
    BY <1>1, IretqIs
  <1>3. mode' \in {"panic", "reset", "returned"} /\ seen' = raised'
    BY <1>1, UpIs
  <1>4. Put(s) /\ IsSequence(s) /\ Len(s) \in 0 .. 29
    BY <1>1, PutSame
  <1> HIDE DEF s
  <1> QED BY <1>1, <1>2, <1>3, <1>4, StoppedKeeps

LEMMA NextKeeps == IInv /\ [Next]_vars => IInv'
  <1> SUFFICES ASSUME IInv, [Next]_vars PROVE IInv'
    OBVIOUS
  <1>1. CASE Work
    BY <1>1, WorkKeeps
  <1>2. ASSUME NEW v \in Irqs, Interrupt(v) PROVE IInv'
    BY <1>2, InterruptKeeps
  <1>3. CASE IsrReturn
    BY <1>3, IsrReturnKeeps
  <1>4. ASSUME NEW v \in Raised, Exception(v) PROVE IInv'
    BY <1>4, ExceptionKeeps
  <1>5. CASE EnterRegs
    BY <1>5, EnterRegsKeeps
  <1>6. CASE EnterIret
    BY <1>6, EnterIretKeeps
  <1>7. ASSUME NEW op \in Syscalls, Syscall(op) PROVE IInv'
    BY <1>7, SyscallKeeps
  <1>8. CASE syscall_return
    BY <1>8, SyscallReturnKeeps
  <1>9. CASE UNCHANGED vars
    BY <1>9 DEF vars, IInv, TypeOK, HandledAsRaised, Stacks, UpHeld
  <1>10. CASE Halted
    BY <1>9, <1>10 DEF Halted
  <1> QED BY <1>1, <1>2, <1>3, <1>4, <1>5, <1>6, <1>7, <1>8, <1>9, <1>10 DEF Next

LEMMA IInvAlways == Spec => []IInv
  <1> QED BY InitHolds, NextKeeps, PTL DEF Spec

-----------------------------------------------------------------------------
LEMMA ResumesHolds == IInv => Resumes
  <1> SUFFICES ASSUME IInv, mode = "up"
               PROVE  /\ InOwnCode =>
                           /\ \A r \in Regs \ {"r10", "r11", "rsp"} : cpu[r] = Own[r]
                           /\ Ring3 => cpu.rsp = Own.rsp
                           /\ stack[current_task] = OwnStack(current_task)
                      /\ cpu.rip = entry => current_task \in Threads /\ stack[current_task] = <<>>
                      /\ cpu.rip \in {enter_user_mode, InIret} =>
                           /\ current_task \in UserTasks /\ stack[current_task] = <<>>
                           /\ cpu.rip = InIret => cpu.r9 = user_rip(current_task)
    BY DEF Resumes
  <1> DEFINE t == current_task
             n == turn[t]
             b == stack[t]
  <1>1. ASSUME InOwnCode
        PROVE  /\ \A r \in Regs \ {"r10", "r11", "rsp"} : cpu[r] = Own[r]
               /\ Ring3 => cpu.rsp = Own.rsp
               /\ stack[current_task] = OwnStack(current_task)
    <2>1. cpu.rip \notin KernelPlaces /\ cpu.rip # user_rip(t)
      BY <1>1 DEF InOwnCode
    <2>2. Outside(t, n, cpu, b)
      BY <2>1, UpOutside DEF KernelPlaces
    <2>3. InOwn(t, n, cpu, b) /\ (cpu.cs = UCode => t \in UserTasks)
      BY <2>1, <2>2, OutsideIs
    <2> QED BY <2>3 DEF InOwn, Own, Ring3
  <1>2. ASSUME cpu.rip \in {entry, enter_user_mode, InIret} PROVE AtStart(t, cpu, b)
    <2>1. Outside(t, n, cpu, b)
      BY <1>2, UpOutside, Distinct
    <2>2. ~InOwn(t, n, cpu, b)
      <3>1. OwnRegs(t, n).rip \notin {entry, enter_user_mode, InIret}
        BY OwnIs, Distinct DEF KernelPlaces
      <3> QED BY <1>2, <3>1, OwnIs DEF InOwn
    <2> QED BY <2>1, <2>2 DEF Outside
  <1>3. user_rip(t) \notin {entry, enter_user_mode, InIret}
    BY Distinct DEF KernelPlaces
  <1>4. ASSUME cpu.rip = entry PROVE t \in Threads /\ b = <<>>
    BY <1>2, <1>3, <1>4, Distinct DEF AtStart
  <1>5. ASSUME cpu.rip \in {enter_user_mode, InIret}
        PROVE  t \in UserTasks /\ b = <<>> /\ (cpu.rip = InIret => cpu.r9 = user_rip(t))
    BY <1>2, <1>3, <1>5, Distinct DEF AtStart
  <1> QED BY <1>1, <1>4, <1>5

(* A task preempted in its own code goes on with the registers, r10 and r11*)
(* excepted, and the stack it had, whatever ran in between, and a new task *)
(* starts at its entry with its frame used up (switch.s, isr_common_stub,  *)
(* the frames task.c makes): for any number of tasks.                      *)
THEOREM ResumesAlways == Spec => []Resumes
  <1> QED BY IInvAlways, ResumesHolds, PTL

(* isr_handler_c reads the vector, error code and registers the CPU saw,   *)
(* for every interrupt and every exception that does not reset the machine.*)
THEOREM ReadAsRaised == Spec => []HandledAsRaised
  <1>1. IInv => HandledAsRaised
    BY DEF IInv
  <1> QED BY <1>1, IInvAlways, PTL

(* No kernel stack ever holds more than 29 words: handlers do not nest.    *)
THEOREM Bounded == Spec => []StackBounded
  <1>1. IInv => StackBounded
    <2> SUFFICES ASSUME IInv, NEW t \in Tasks PROVE TypeOK /\ Len(stack[t]) <= 1 + 20 + 8
      BY DEF IInv, StackBounded
    <2> DEFINE l == Len(stack[t])
    <2> HIDE DEF l
    <2>1. l \in 0 .. 29
      BY DEF IInv, Stacks, l
    <2>2. l <= 1 + 20 + 8
      BY <2>1
    <2> QED BY <2>2 DEF IInv, l
  <1> QED BY <1>1, IInvAlways, PTL
=============================================================================
