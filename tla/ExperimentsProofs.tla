-------------------------- MODULE ExperimentsProofs --------------------------
(***************************************************************************)
(* The safety properties of Experiments, for all vector sizes, numbers of  *)
(* threads and numbers of runs, wherever a connection or a protocol fails. *)
(*                                                                         *)
(* ExitTells needs to know what is printed while main goes on: all of the  *)
(* calls so far, or fewer if an experiment has failed (Counted).           *)
(* ThreadsInContext needs to know which modulus the main thread has        *)
(* between the calls, and that the team has got it before it computes      *)
(* (Prepared).                                                             *)
(***************************************************************************)
EXTENDS Experiments, FoldProofs

-----------------------------------------------------------------------------
(* The calls of RunExperiment.                                             *)

\* The numbers of threads that calls ask for.
TeamSizes == {1} \cup ToSet(thread_nums)

\* A set of numbers that is not empty has a largest one, which Max is (Threads).
LEMMA MaxIs ==
  ASSUME NEW S \in SUBSET Nat, IsFiniteSet(S), S # {}
  PROVE  Max(S) \in S /\ \A y \in S : Max(S) >= y
  <1> DEFINE Top(s) == \E x \in s : \A y \in s : x >= y
  <1>1. PICK P : P = {s \in SUBSET S : s = {} \/ Top(s)}
    OBVIOUS
  <1>2. {} \in P
    BY <1>1
  <1>3. ASSUME NEW s \in SUBSET S, s # {}, \A x \in s : s \ {x} \in P
        PROVE  s \in P
    <2>1. PICK x \in s : TRUE
      BY <1>3
    <2>2. CASE s \ {x} = {}
      <3>1. x \in Nat /\ \A y \in s : x >= y
        BY <2>2
      <3> QED
        BY <1>1, <3>1
    <2>3. CASE s \ {x} # {}
      <3>1. PICK z \in s \ {x} : \A y \in s \ {x} : z >= y
        BY <1>1, <1>3, <2>1, <2>3
      <3>2. x \in Nat /\ z \in Nat /\ \A y \in s : y \in Nat
        OBVIOUS
      <3>3. CASE x >= z
        <4>1. \A y \in s : x >= y
          BY <3>1, <3>2, <3>3
        <4> QED
          BY <1>1, <4>1
      <3>4. CASE ~ (x >= z)
        <4>1. \A y \in s : z >= y
          BY <3>1, <3>2, <3>4
        <4> QED
          BY <1>1, <3>1, <4>1
      <3> QED
        BY <3>3, <3>4
    <2> QED
      BY <2>2, <2>3
  <1>4. S \in P
    BY <1>2, <1>3, SubsetInduction
  <1>5. \E x \in S : \A y \in S : x >= y
    BY <1>1, <1>4
  <1>6. Max(S) = CHOOSE x \in S : \A y \in S : x >= y
    BY DEF Max
  <1> QED
    BY <1>5, <1>6

\* The threads that the model has are enough for each team (Threads).
LEMMA ThreadsEnough ==
  1 \in Threads /\ \A k \in TeamSizes : k \in Nat \ {0} /\ 1 .. k \subseteq Threads
  <1>1. PICK s \in Seq(Nat \ {0}) : s = thread_nums
    BY ExperimentAssumption
  <1>2. TeamSizes = {1} \cup {s[i] : i \in 1 .. Len(s)}
    BY <1>1 DEF TeamSizes, ToSet
  <1>3. \A k \in TeamSizes : k \in Nat \ {0}
    BY <1>2
  <1>4. IsFiniteSet(TeamSizes)
    <2>1. IsFiniteSet({s[i] : i \in 1 .. Len(s)})
      <3>1. IsFiniteSet(1 .. Len(s))
        BY FS_Interval
      <3>2. PICK f : f = [i \in 1 .. Len(s) |-> s[i]]
        OBVIOUS
      <3>3. PICK T : T = {s[i] : i \in 1 .. Len(s)}
        OBVIOUS
      <3>4. f \in Surjection(1 .. Len(s), T)
        BY <3>2, <3>3 DEF Surjection
      <3> QED
        BY <3>1, <3>3, <3>4, FS_Surjection
    <2>2. IsFiniteSet({1})
      BY FS_Singleton
    <2> QED
      BY <1>2, <2>1, <2>2, FS_Union
  <1>5. PICK m \in TeamSizes : m = Max(TeamSizes) /\ \A k \in TeamSizes : m >= k
    <2>1. TeamSizes \in SUBSET Nat /\ TeamSizes # {}
      BY <1>3 DEF TeamSizes
    <2> QED
      BY <1>4, <2>1, MaxIs
  <1>6. Threads = 1 .. m
    BY <1>5 DEF Threads, TeamSizes
  <1>7. 1 \in TeamSizes
    BY DEF TeamSizes
  <1> QED
    BY <1>3, <1>5, <1>6, <1>7

\* What each of the calls is: its modulus is 0 or what the bit width says.
Calls ==
  {c \in [protocol_name : {"VOLE", "Gilboa"}, size : Nat, bit_width : {32, 60, 64},
          modulus : {0, 32, 60}, num_threads : TeamSizes, measured : BOOLEAN] :
     c.modulus # 0 => c.bit_width = c.modulus}

\* The calls of the last experiment: one modulus for all, and the first call has it.
OneModulus == {c \in Calls : c.modulus \in {0, 60}}
HasModulus == {c \in Calls : c.modulus = 60}

\* Sequences put together: their elements, and the first of them (FlattenSeq).
LEMMA Flat ==
  ASSUME NEW U, NEW F, NEW ss \in Seq(Seq(U)),
         \A k \in 1 .. Len(ss) : ss[k] = <<>> \/ ss[k][1] \in F
  PROVE  /\ FlattenSeq(ss) \in Seq(U)
         /\ FlattenSeq(ss) = <<>> \/ FlattenSeq(ss)[1] \in F
  <1> DEFINE flat(n) == FlattenSeq([i \in 1 .. n |-> ss[i]])
             Right(s) == s \in Seq(U) /\ (s = <<>> \/ s[1] \in F)
  <1>1. PICK P : P = {n \in Nat : n <= Len(ss) => Right(flat(n))}
    OBVIOUS
  <1>2. flat(0) = <<>>
    <2>1. [i \in 1 .. 0 |-> ss[i]] = <<>>
      OBVIOUS
    <2> QED
      BY <2>1, FlattenNothing
  <1>3. 0 \in P
    <2>1. Right(flat(0))
      <3>1. PICK a : a = flat(0)
        OBVIOUS
      <3>2. a = <<>>
        BY <1>2, <3>1
      <3>3. Right(a)
        BY <3>2
      <3> HIDE DEF flat, Right
      <3> QED
        BY <3>1, <3>3
    <2> HIDE DEF Right
    <2> QED
      BY <1>1, <2>1
  <1>4. ASSUME NEW n \in Nat, n \in P PROVE n + 1 \in P
    <2> SUFFICES ASSUME n + 1 <= Len(ss) PROVE Right(flat(n + 1))
      BY <1>1
    <2>1. PICK k \in 1 .. Len(ss) : k = n + 1 /\ k - 1 = n /\ n <= Len(ss)
      OBVIOUS
    <2>2. flat(k) = flat(k - 1) \o ss[k]
      BY FlattenNext
    <2>3. PICK a, b : a = flat(n) /\ b = ss[k]
      OBVIOUS
    <2>4. Right(a) /\ Right(b)
      <3>1. Right(a)
        BY <1>1, <1>4, <2>1, <2>3
      <3> QED
        BY <2>3, <3>1
    <2>5. Right(a \o b)
      <3>1. CASE a = <<>>
        <4>1. a \o b = b
          BY <2>4, <3>1
        <4> QED
          BY <2>4, <4>1
      <3>2. CASE a # <<>>
        <4>1. a \o b \in Seq(U) /\ 1 \in 1 .. Len(a)
          BY <2>4, <3>2
        <4>2. (a \o b)[1] = a[1]
          BY <2>4, <4>1
        <4> QED
          BY <2>4, <3>2, <4>1, <4>2
      <3> QED
        BY <3>1, <3>2
    <2> HIDE DEF Right, flat
    <2> QED
      BY <2>1, <2>2, <2>3, <2>5
  <1>5. Len(ss) \in P
    <2>1. \A n \in Nat : n \in P
      BY <1>3, <1>4, NumberInduction
    <2> QED
      BY <2>1
  <1>6. [i \in 1 .. Len(ss) |-> ss[i]] = ss
    OBVIOUS
  <1>7. Right(flat(Len(ss)))
    <2> HIDE DEF Right
    <2> QED
      BY <1>1, <1>5
  <1> QED
    BY <1>6, <1>7

\* Calls repeated (Repeat).
LEMMA Repeated ==
  ASSUME NEW U, NEW F, NEW s \in Seq(U), s = <<>> \/ s[1] \in F, NEW n \in Nat
  PROVE  Repeat(n, s) \in Seq(U) /\ (Repeat(n, s) = <<>> \/ Repeat(n, s)[1] \in F)
  <1>1. PICK ss : ss = [i \in 1 .. n |-> s]
    OBVIOUS
  <1>2. ss \in Seq(Seq(U)) /\ \A k \in 1 .. Len(ss) : ss[k] = s
    BY <1>1
  <1>3. FlattenSeq(ss) \in Seq(U) /\ (FlattenSeq(ss) = <<>> \/ FlattenSeq(ss)[1] \in F)
    BY <1>2, Flat
  <1> QED
    BY <1>1, <1>3 DEF Repeat

\* The calls of VoleVsGilboaExperiment.
LEMMA VersusCalls ==
  ASSUME NEW measured \in BOOLEAN, NEW runs \in Nat
  PROVE  VoleVsGilboa(measured, runs) \in Seq(Calls)
  <1>1. \A name \in {"VOLE", "Gilboa"}, size \in Nat, bits \in {32, 60, 64}, mod \in {0, 32, 60} :
          bits = mod => Call(name, size, bits, mod, 1, measured) \in Calls
    BY DEF Call, Calls, TeamSizes
  <1>2. \A name \in {"VOLE", "Gilboa"}, size \in Nat, bits \in {32, 60, 64} :
          Call(name, size, bits, 0, 1, measured) \in Calls
    BY DEF Call, Calls, TeamSizes
  <1> DEFINE variants(name, size) ==
        << Call(name, size, 60, 60, 1, measured), Call(name, size, 32, 32, 1, measured),
           Call(name, size, 64, 0, 1, measured), Call(name, size, 32, 0, 1, measured) >>
  <1>3. \A name \in {"VOLE", "Gilboa"}, size \in Nat : variants(name, size) \in Seq(Calls)
    <2> SUFFICES ASSUME NEW name \in {"VOLE", "Gilboa"}, NEW size \in Nat
                 PROVE  variants(name, size) \in Seq(Calls)
      OBVIOUS
    <2>1. PICK a \in Calls, b \in Calls, c \in Calls, d \in Calls :
            /\ a = Call(name, size, 60, 60, 1, measured) /\ b = Call(name, size, 32, 32, 1, measured)
            /\ c = Call(name, size, 64, 0, 1, measured) /\ d = Call(name, size, 32, 0, 1, measured)
      BY <1>1, <1>2
    <2>2. <<a, b, c, d>> \in Seq(Calls)
      OBVIOUS
    <2> QED
      BY <2>1, <2>2
  <1> HIDE DEF variants
  <1>4. PICK n \in Nat : n = Len(sizes) /\ DOMAIN sizes = 1 .. n
    BY ExperimentAssumption
  <1>ss. PICK ss : ss = [i \in DOMAIN sizes |-> variants("VOLE", sizes[i])
                                                \o variants("Gilboa", sizes[i])]
    OBVIOUS
  <1>5. ss \in Seq(Seq(Calls))
    <2>1. \A i \in 1 .. n : sizes[i] \in Nat
      BY <1>4, ExperimentAssumption
    <2>2. \A i \in 1 .. n : ss[i] \in Seq(Calls)
      <3> SUFFICES ASSUME NEW i \in 1 .. n PROVE ss[i] \in Seq(Calls)
        OBVIOUS
      <3>1. PICK a \in Seq(Calls), b \in Seq(Calls) :
              a = variants("VOLE", sizes[i]) /\ b = variants("Gilboa", sizes[i])
        BY <1>3, <2>1
      <3>2. ss[i] = a \o b
        BY <1>4, <1>ss, <3>1
      <3> QED
        BY <3>1, <3>2
    <2> QED
      BY <1>4, <1>ss, <2>2
  <1>6. FlattenSeq(ss) \in Seq(Calls)
    <2>1. \A k \in 1 .. Len(ss) : ss[k] = <<>> \/ ss[k][1] \in {ss[j][1] : j \in 1 .. Len(ss)}
      OBVIOUS
    <2> QED
      BY <1>5, <2>1, Flat
  <1>7. Repeat(runs, FlattenSeq(ss)) \in Seq(Calls)
    <2>1. FlattenSeq(ss) = <<>> \/ FlattenSeq(ss)[1] \in {FlattenSeq(ss)[1]}
      OBVIOUS
    <2> QED
      BY <1>6, <2>1, Repeated
  <1> QED
    BY <1>ss, <1>7 DEF VoleVsGilboa, variants

\* The calls of VoleParallelismExperiment.
LEMMA ParallelCalls ==
  ASSUME NEW runs \in Nat
  PROVE  /\ VoleParallelism(runs) \in Seq(OneModulus)
         /\ VoleParallelism(runs) = <<>> \/ VoleParallelism(runs)[1] \in HasModulus
  <1>1. \A k \in TeamSizes : /\ Call("VOLE", 20, 60, 60, k, FALSE) \in HasModulus
                              /\ Call("VOLE", 20, 64, 0, k, FALSE) \in OneModulus
    BY DEF Call, Calls, HasModulus, OneModulus
  <1>2. PICK n \in Nat : n = Len(thread_nums) /\ DOMAIN thread_nums = 1 .. n
    BY ExperimentAssumption
  <1>ss. PICK ss : ss = [i \in DOMAIN thread_nums |->
                          << Call("VOLE", 20, 60, 60, thread_nums[i], FALSE),
                             Call("VOLE", 20, 64, 0, thread_nums[i], FALSE) >>]
    OBVIOUS
  <1>3. ASSUME NEW i \in 1 .. n
        PROVE  ss[i] \in Seq(OneModulus) /\ ss[i][1] \in HasModulus
    <2>1. thread_nums[i] \in TeamSizes
      BY <1>2 DEF TeamSizes, ToSet
    <2>2. PICK a \in HasModulus, b \in OneModulus :
            /\ a = Call("VOLE", 20, 60, 60, thread_nums[i], FALSE)
            /\ b = Call("VOLE", 20, 64, 0, thread_nums[i], FALSE)
      BY <1>1, <2>1
    <2>3. a \in OneModulus
      BY DEF HasModulus, OneModulus
    <2>4. ss[i] = <<a, b>>
      BY <1>2, <1>ss, <2>2
    <2> QED
      BY <2>3, <2>4
  <1>4. ss \in Seq(Seq(OneModulus)) /\ \A k \in 1 .. Len(ss) : ss[k][1] \in HasModulus
    <2>1. ss = [i \in 1 .. n |-> ss[i]]
      BY <1>2, <1>ss
    <2>2. ss \in Seq(Seq(OneModulus)) /\ Len(ss) = n
      BY <1>3, <2>1
    <2> QED
      BY <1>3, <2>2
  <1>5. /\ FlattenSeq(ss) \in Seq(OneModulus)
        /\ FlattenSeq(ss) = <<>> \/ FlattenSeq(ss)[1] \in HasModulus
    BY <1>4, Flat
  <1>6. /\ Repeat(runs, FlattenSeq(ss)) \in Seq(OneModulus)
        /\ Repeat(runs, FlattenSeq(ss)) = <<>> \/ Repeat(runs, FlattenSeq(ss))[1] \in HasModulus
    BY <1>5, Repeated
  <1> QED
    BY <1>ss, <1>6 DEF VoleParallelism

\* What main calls (Groups).
LEMMA GroupsAre ==
  /\ Len(Groups) = 3 /\ \A g \in 1 .. 3 : Groups[g] \in Seq(Calls)
  /\ \A i \in 1 .. Len(Groups[3]) : Groups[3][i].modulus \in {0, 60}
  /\ Len(Groups[3]) > 0 => Groups[3][1].modulus = 60
  <1>1. num_runs[1] \in Nat /\ num_runs[2] \in Nat /\ num_runs[3] \in Nat
    BY ExperimentAssumption
  <1>2. PICK a \in Seq(Calls), b \in Seq(Calls), c \in Seq(OneModulus) :
          /\ a = VoleVsGilboa(TRUE, num_runs[1]) /\ b = VoleVsGilboa(FALSE, num_runs[2])
          /\ c = VoleParallelism(num_runs[3]) /\ (c = <<>> \/ c[1] \in HasModulus)
    BY <1>1, VersusCalls, ParallelCalls
  <1>3. Groups = <<a, b, c>>
    BY <1>2 DEF Groups
  <1>4. c \in Seq(Calls)
    BY DEF OneModulus
  <1>5. \A i \in 1 .. Len(c) : c[i].modulus \in {0, 60}
    BY DEF OneModulus
  <1>6. Len(c) > 0 => c[1].modulus = 60
    BY <1>2 DEF HasModulus
  <1> QED
    BY <1>3, <1>4, <1>5, <1>6

\* The steps of a call (RunVOLE, RunGilboa).
StepsOf(call) == IF call.protocol_name = "VOLE" THEN RunVOLE ELSE RunGilboa


Kinds == {"restore", "sync", "adapter", "seed", "run"}

\* Steps followed by further steps.
LEMMA Joining ==
  ASSUME NEW a \in Seq(Kinds), NEW b \in Seq(Kinds), NEW r, r = a \o b
  PROVE  /\ r \in Seq(Kinds) /\ Len(r) = Len(a) + Len(b)
         /\ \A i \in 1 .. Len(a) : r[i] = a[i]
         /\ \A i \in 1 .. Len(b), j \in Nat : j = Len(a) + i => r[j] = b[i]
  OBVIOUS

\* One step, and two.
LEMMA Tuples ==
  ASSUME NEW x \in Kinds, NEW y \in Kinds
  PROVE  /\ <<x>> \in Seq(Kinds) /\ Len(<<x>>) = 1 /\ <<x>>[1] = x
         /\ <<x, y>> \in Seq(Kinds) /\ Len(<<x, y>>) = 2
         /\ <<x, y>>[1] = x /\ <<x, y>>[2] = y
  OBVIOUS

\* The kinds are what they say.
LEMMA StepKinds ==
  /\ "restore" \in Kinds /\ "sync" \in Kinds /\ "adapter" \in Kinds /\ "seed" \in Kinds
  /\ "run" \in Kinds
  BY DEF Kinds

\* The steps of RunGilboa, one by one.
LEMMA GilboaStepsAre ==
  /\ RunGilboa \in Seq(Kinds) /\ Len(RunGilboa) = 4
  /\ RunGilboa[1] = "sync" /\ RunGilboa[2] = "adapter" /\ RunGilboa[3] = "sync"
  /\ RunGilboa[4] = "run"
  <1>1. PICK a : a = <<"sync", "adapter">>
    OBVIOUS
  <1>2. PICK b : b = <<"sync", "run">>
    OBVIOUS
  <1>3. a \in Seq(Kinds) /\ Len(a) = 2 /\ a[1] = "sync" /\ a[2] = "adapter"
    BY <1>1, StepKinds, Tuples
  <1>4. b \in Seq(Kinds) /\ Len(b) = 2 /\ b[1] = "sync" /\ b[2] = "run"
    BY <1>2, StepKinds, Tuples
  <1>5. PICK r : r = RunGilboa
    OBVIOUS
  <1>6. r = a \o b
    BY <1>1, <1>2, <1>5 DEF RunGilboa, GilboaCreate
  <1>7. /\ r \in Seq(Kinds) /\ Len(r) = Len(a) + Len(b)
        /\ \A i \in 1 .. Len(a) : r[i] = a[i]
        /\ \A i \in 1 .. Len(b), j \in Nat : j = Len(a) + i => r[j] = b[i]
    <2>1. a \in Seq(Kinds) /\ b \in Seq(Kinds)
      BY <1>3, <1>4
    <2> QED
      BY <1>6, <2>1, Joining
  <1>8. /\ Len(r) = 4 /\ \A i \in 1 .. 2 : r[i] = a[i]
        /\ \A i \in 1 .. 2, j \in Nat : j = 2 + i => r[j] = b[i]
    BY <1>3, <1>4, <1>7
  <1>9. r[1] = a[1] /\ r[2] = a[2] /\ r[3] = b[1] /\ r[4] = b[2]
    BY <1>8
  <1> QED
    BY <1>3, <1>4, <1>5, <1>7, <1>8, <1>9

\* The steps of RunVOLE, one by one.
LEMMA VoleStepsAre ==
  /\ RunVOLE \in Seq(Kinds) /\ Len(RunVOLE) = 9
  /\ RunVOLE[1] = "restore" /\ RunVOLE[2] = "sync" /\ RunVOLE[3] = "adapter"
  /\ RunVOLE[4] = "sync" /\ RunVOLE[5] = "sync" /\ RunVOLE[6] = "adapter"
  /\ RunVOLE[7] = "seed" /\ RunVOLE[8] = "sync" /\ RunVOLE[9] = "run"
  <1>1. PICK a : a = <<"restore">>
    OBVIOUS
  <1>2. PICK b : b = <<"sync", "adapter">>
    OBVIOUS
  <1>3. PICK c : c = <<"sync">>
    OBVIOUS
  <1>4. PICK d : d = <<"seed">>
    OBVIOUS
  <1>5. PICK f : f = <<"sync", "run">>
    OBVIOUS
  <1>6. /\ a \in Seq(Kinds) /\ Len(a) = 1 /\ a[1] = "restore"
        /\ b \in Seq(Kinds) /\ Len(b) = 2 /\ b[1] = "sync" /\ b[2] = "adapter"
        /\ c \in Seq(Kinds) /\ Len(c) = 1 /\ c[1] = "sync"
        /\ d \in Seq(Kinds) /\ Len(d) = 1 /\ d[1] = "seed"
        /\ f \in Seq(Kinds) /\ Len(f) = 2 /\ f[1] = "sync" /\ f[2] = "run"
    BY <1>1, <1>2, <1>3, <1>4, <1>5, StepKinds, Tuples
  <1>7. PICK u : u = c \o b
    OBVIOUS
  <1>8. PICK v : v = u \o d
    OBVIOUS
  <1>9. PICK w : w = a \o b
    OBVIOUS
  <1>10. PICK x : x = w \o v
    OBVIOUS
  <1>11. PICK r : r = x \o f
    OBVIOUS
  <1>12. RunVOLE = r
    BY <1>1, <1>2, <1>3, <1>4, <1>5, <1>7, <1>8, <1>9, <1>10, <1>11
       DEF RunVOLE, OLECreate, GilboaCreate, MPFSSCreate, SPFSSCreate, AllButOneCreate
  <1>13. u \in Seq(Kinds) /\ Len(u) = 3 /\ u[1] = "sync" /\ u[2] = "sync" /\ u[3] = "adapter"
    <2>1. /\ u \in Seq(Kinds) /\ Len(u) = Len(c) + Len(b)
          /\ \A i \in 1 .. Len(c) : u[i] = c[i]
          /\ \A i \in 1 .. Len(b), j \in Nat : j = Len(c) + i => u[j] = b[i]
      <3>1. c \in Seq(Kinds) /\ b \in Seq(Kinds)
        BY <1>6
      <3> QED
        BY <1>7, <3>1, Joining
    <2>2. u[1] = c[1] /\ u[2] = b[1] /\ u[3] = b[2]
      BY <1>6, <2>1
    <2> QED
      BY <1>6, <2>1, <2>2
  <1>14. /\ v \in Seq(Kinds) /\ Len(v) = 4
         /\ v[1] = "sync" /\ v[2] = "sync" /\ v[3] = "adapter" /\ v[4] = "seed"
    <2>1. /\ v \in Seq(Kinds) /\ Len(v) = Len(u) + Len(d)
          /\ \A i \in 1 .. Len(u) : v[i] = u[i]
          /\ \A i \in 1 .. Len(d), j \in Nat : j = Len(u) + i => v[j] = d[i]
      <3>1. u \in Seq(Kinds) /\ d \in Seq(Kinds)
        BY <1>6, <1>13
      <3> QED
        BY <1>8, <3>1, Joining
    <2>2. v[1] = u[1] /\ v[2] = u[2] /\ v[3] = u[3] /\ v[4] = d[1]
      BY <1>6, <1>13, <2>1
    <2> QED
      BY <1>6, <1>13, <2>1, <2>2
  <1>15. w \in Seq(Kinds) /\ Len(w) = 3 /\ w[1] = "restore" /\ w[2] = "sync" /\ w[3] = "adapter"
    <2>1. /\ w \in Seq(Kinds) /\ Len(w) = Len(a) + Len(b)
          /\ \A i \in 1 .. Len(a) : w[i] = a[i]
          /\ \A i \in 1 .. Len(b), j \in Nat : j = Len(a) + i => w[j] = b[i]
      <3>1. a \in Seq(Kinds) /\ b \in Seq(Kinds)
        BY <1>6
      <3> QED
        BY <1>9, <3>1, Joining
    <2>2. w[1] = a[1] /\ w[2] = b[1] /\ w[3] = b[2]
      BY <1>6, <2>1
    <2> QED
      BY <1>6, <2>1, <2>2
  <1>16. /\ x \in Seq(Kinds) /\ Len(x) = 7
         /\ x[1] = "restore" /\ x[2] = "sync" /\ x[3] = "adapter" /\ x[4] = "sync" /\ x[5] = "sync"
         /\ x[6] = "adapter" /\ x[7] = "seed"
    <2>1. /\ x \in Seq(Kinds) /\ Len(x) = Len(w) + Len(v)
          /\ \A i \in 1 .. Len(w) : x[i] = w[i]
          /\ \A i \in 1 .. Len(v), j \in Nat : j = Len(w) + i => x[j] = v[i]
      <3>1. w \in Seq(Kinds) /\ v \in Seq(Kinds)
        BY <1>14, <1>15
      <3> QED
        BY <1>10, <3>1, Joining
    <2>2. x[1] = w[1] /\ x[2] = w[2] /\ x[3] = w[3]
      BY <1>15, <2>1
    <2>3. x[4] = v[1] /\ x[5] = v[2] /\ x[6] = v[3] /\ x[7] = v[4]
      BY <1>14, <1>15, <2>1
    <2> QED
      BY <1>14, <1>15, <2>1, <2>2, <2>3
  <1>17. /\ r \in Seq(Kinds) /\ Len(r) = 9 /\ \A i \in 1 .. 7 : r[i] = x[i]
         /\ r[8] = "sync" /\ r[9] = "run"
    <2>1. /\ r \in Seq(Kinds) /\ Len(r) = Len(x) + Len(f)
          /\ \A i \in 1 .. Len(x) : r[i] = x[i]
          /\ \A i \in 1 .. Len(f), j \in Nat : j = Len(x) + i => r[j] = f[i]
      <3>1. x \in Seq(Kinds) /\ f \in Seq(Kinds)
        BY <1>6, <1>16
      <3> QED
        BY <1>11, <3>1, Joining
    <2>2. r[8] = f[1] /\ r[9] = f[2]
      BY <1>6, <1>16, <2>1
    <2> QED
      BY <1>6, <1>16, <2>1, <2>2
  <1> QED
    BY <1>12, <1>16, <1>17

\* Which step may follow, and where the first and the last ones are.
LEMMA StepsAre ==
  ASSUME NEW call \in Calls, NEW s \in 1 .. Len(StepsOf(call))
  PROVE  /\ StepsOf(call)[s] # "run" => s + 1 \in 1 .. Len(StepsOf(call))
         /\ StepsOf(call)[s] = "run" /\ call.protocol_name = "VOLE" => s > 1
         /\ StepsOf(call)[s] # "restore" /\ call.protocol_name = "VOLE" => s > 1
         /\ StepsOf(call)[s] = "restore" => s = 1 /\ call.protocol_name = "VOLE"
         /\ StepsOf(call)[s] = "seed" => s = 7
  <1>1. PICK r : r = StepsOf(call)
    OBVIOUS
  <1>2. CASE call.protocol_name = "VOLE"
    <2>1. r = RunVOLE
      BY <1>1, <1>2 DEF StepsOf
    <2> QED
      BY <1>1, <1>2, <2>1, VoleStepsAre
  <1>3. CASE call.protocol_name # "VOLE"
    <2>1. r = RunGilboa
      BY <1>1, <1>3 DEF StepsOf
    <2> QED
      BY <1>1, <1>3, <2>1, GilboaStepsAre
  <1> QED
    BY <1>2, <1>3

-----------------------------------------------------------------------------
(* The inductive invariant: what is true of each end, and of the seed on   *)
(* the way.                                                                *)

Stages == {"start", "connecting", "connected", "orphaned", "crashed", "exited 0", "exited 1"}

\* In a channel with the peer, and on the way to it or in it.
Joined(st) == st \in {"connected", "orphaned"}
InCall(st) == st \in {"connecting", "connected", "orphaned"}

\* Which call an end is in, or which one comes next.
Placed(st, g, p) ==
  /\ st \in Stages /\ g \in 1 .. 4 /\ p \in Nat \ {0}
  /\ g = 4 => p = 1
  /\ g # 4 => p <= Len(Groups[g]) + 1
  /\ InCall(st) => g # 4 /\ p <= Len(Groups[g])

\* Which step of the call.
Stepped(st, g, p, s) ==
  /\ s \in Nat
  /\ Joined(st) => s \in 1 .. Len(StepsOf(Groups[g][p]))

\* The main thread has the modulus of the call, in the last experiment between
\* the calls too, and the team has it once VOLE's first step is over.
Prepared(st, g, p, s, moduli) ==
  /\ moduli \in [Threads -> {0, 32, 60}]
  /\ g = 3 /\ p > 1 => moduli[1] = 60
  /\ InCall(st) /\ Groups[g][p].modulus # 0 => moduli[1] = Groups[g][p].modulus
  /\ Joined(st) /\ Groups[g][p].modulus # 0 /\ Groups[g][p].protocol_name = "VOLE" /\ s > 1 =>
       \A t \in 1 .. Groups[g][p].num_threads : moduli[t] = Groups[g][p].modulus

\* How many calls there are before each experiment.
Before == <<0, Len(Groups[1]), Len(Groups[1]) + Len(Groups[2]), Total>>

\* All of the calls so far are printed, or fewer if an experiment has failed.
Counted(st, g, p, results, n) ==
  /\ results \in Seq({"ok", "error"}) /\ g = Len(results) + 1 /\ n \in Nat
  /\ Contains(results, "error") => n < Before[g] + p - 1
  /\ ~ Contains(results, "error") => n = Before[g] + p - 1
  /\ st = "exited 0" => n = Total
  /\ st = "exited 1" => n < Total

EndInv(st, g, p, s, moduli, results, n) ==
  /\ Placed(st, g, p) /\ Stepped(st, g, p, s) /\ Prepared(st, g, p, s, moduli)
  /\ Counted(st, g, p, results, n)

\* The higher ID is sent one seed in each call.
OneSeed == wire \in 0 .. 1 /\ (Joined(stage[0]) /\ step[0] <= 7 => wire = 0)

Arrays ==
  /\ stage \in [Ends -> Stages] /\ group \in [Ends -> Nat] /\ position \in [Ends -> Nat]
  /\ step \in [Ends -> Nat] /\ context \in [Ends -> [Threads -> {0, 32, 60}]]
  /\ statuses \in [Ends -> Seq({"ok", "error"})] /\ printed \in [Ends -> Nat]

EndsInv ==
  \A e \in Ends : EndInv(stage[e], group[e], position[e], step[e], context[e], statuses[e],
                         printed[e])

Inv == Arrays /\ EndsInv /\ OneSeed

-----------------------------------------------------------------------------
(* One end: what its invariant becomes.                                    *)

\* The call that an end is in, as a value.
LEMMA CallIs ==
  ASSUME NEW g \in 1 .. 3, NEW p \in 1 .. Len(Groups[g])
  PROVE  /\ Groups[g][p] \in Calls
         /\ Groups[g][p].modulus \in {0, 32, 60}
         /\ Groups[g][p].num_threads \in Nat \ {0}
         /\ 1 .. Groups[g][p].num_threads \subseteq Threads
         /\ Groups[g][p].modulus # 0 => Groups[g][p].bit_width = Groups[g][p].modulus
         /\ g = 3 => Groups[g][p].modulus \in {0, 60}
         /\ g = 3 /\ p = 1 => Groups[g][p].modulus = 60
  <1>1. PICK r \in Seq(Calls) : r = Groups[g]
    BY GroupsAre
  <1>2. r[p] \in Calls
    BY <1>1
  <1>3. PICK c \in Calls : c = Groups[g][p]
    BY <1>1, <1>2
  <1>4. c.modulus \in {0, 32, 60} /\ c.num_threads \in TeamSizes /\ (c.modulus # 0 => c.bit_width = c.modulus)
    BY DEF Calls
  <1>5. c.num_threads \in Nat \ {0} /\ 1 .. c.num_threads \subseteq Threads
    BY <1>4, ThreadsEnough
  <1>6. g = 3 => c.modulus \in {0, 60}
    BY <1>3, GroupsAre
  <1>7. g = 3 /\ p = 1 => c.modulus = 60
    BY <1>3, GroupsAre
  <1> QED
    BY <1>3, <1>4, <1>5, <1>6, <1>7

\* The calls before an experiment (Before).
LEMMA BeforeIs ==
  /\ Total \in Nat /\ Before[1] = 0 /\ Before[4] = Total
  /\ \A g \in 1 .. 3 : /\ Len(Groups[g]) \in Nat /\ Before[g] \in Nat
                       /\ Before[g + 1] = Before[g] + Len(Groups[g])
  <1>1. PICK a \in Nat, b \in Nat, c \in Nat :
          a = Len(Groups[1]) /\ b = Len(Groups[2]) /\ c = Len(Groups[3])
    <2>1. PICK x \in Seq(Calls), y \in Seq(Calls), z \in Seq(Calls) :
            x = Groups[1] /\ y = Groups[2] /\ z = Groups[3]
      BY GroupsAre
    <2> QED
      BY <2>1
  <1>2. Total = a + b + c
    BY <1>1 DEF Total
  <1>3. Before = <<0, a, a + b, a + b + c>>
    BY <1>1, <1>2 DEF Before
  <1>4. Before[1] = 0 /\ Before[2] = a /\ Before[3] = a + b /\ Before[4] = a + b + c
    BY <1>3
  <1>5. ASSUME NEW g \in 1 .. 3
        PROVE  /\ Len(Groups[g]) \in Nat /\ Before[g] \in Nat
               /\ Before[g + 1] = Before[g] + Len(Groups[g])
    <2>0. PICK h : h = g + 1
      OBVIOUS
    <2>1. CASE g = 1
      <3>1. h = 2 /\ Len(Groups[g]) = a /\ Before[g] = 0 /\ Before[h] = a
        BY <1>1, <1>4, <2>0, <2>1
      <3> QED
        BY <2>0, <3>1
    <2>2. CASE g = 2
      <3>1. h = 3
        BY <2>0, <2>2
      <3>2. Len(Groups[g]) = b /\ Before[g] = a /\ Before[h] = a + b
        BY <1>1, <1>4, <2>2, <3>1
      <3> QED
        BY <2>0, <3>2
    <2>3. CASE g = 3
      <3>1. h = 4
        BY <2>0, <2>3
      <3>2. Len(Groups[g]) = c /\ Before[g] = a + b /\ Before[h] = a + b + c
        BY <1>1, <1>4, <2>3, <3>1
      <3> QED
        BY <2>0, <3>2
    <2> QED
      BY <2>1, <2>2, <2>3
  <1> QED
    BY <1>2, <1>4, <1>5

\* Results with one more (Contains).
LEMMA OneMoreResult ==
  ASSUME NEW results \in Seq({"ok", "error"}), NEW r \in {"ok", "error"}
  PROVE  /\ Append(results, r) \in Seq({"ok", "error"})
         /\ Len(Append(results, r)) = Len(results) + 1
         /\ Contains(Append(results, "error"), "error")
         /\ Contains(Append(results, "ok"), "error") <=> Contains(results, "error")
  <1>1. \A x \in {"ok", "error"} :
          /\ Append(results, x) \in Seq({"ok", "error"})
          /\ Len(Append(results, x)) = Len(results) + 1
          /\ Append(results, x)[Len(results) + 1] = x
          /\ \A i \in 1 .. Len(results) : Append(results, x)[i] = results[i]
    OBVIOUS
  <1>2. \A q \in Seq({"ok", "error"}) : Contains(q, "error") <=> \E i \in 1 .. Len(q) : q[i] = "error"
    BY DEF Contains
  <1>3. Contains(Append(results, "error"), "error")
    <2>1. PICK q \in Seq({"ok", "error"}) : /\ q = Append(results, "error")
                                             /\ Len(q) = Len(results) + 1 /\ q[Len(q)] = "error"
      BY <1>1
    <2>2. Len(q) \in 1 .. Len(q)
      BY <2>1
    <2> QED
      BY <1>2, <2>1, <2>2
  <1>4. Contains(Append(results, "ok"), "error") <=> Contains(results, "error")
    <2>1. PICK q \in Seq({"ok", "error"}) :
            /\ q = Append(results, "ok") /\ Len(q) = Len(results) + 1 /\ q[Len(q)] = "ok"
            /\ \A i \in 1 .. Len(results) : q[i] = results[i]
      BY <1>1
    <2>2. Contains(q, "error") <=> \E i \in 1 .. Len(q) : q[i] = "error"
      BY <1>2
    <2>3. Contains(results, "error") <=> \E i \in 1 .. Len(results) : results[i] = "error"
      BY <1>2
    <2>4. ASSUME NEW i \in 1 .. Len(q), q[i] = "error" PROVE i \in 1 .. Len(results)
      BY <2>1, <2>4
    <2>5. 1 .. Len(results) \subseteq 1 .. Len(q)
      BY <2>1
    <2> QED
      BY <2>1, <2>2, <2>3, <2>4, <2>5
  <1> QED
    BY <1>1, <1>3, <1>4

\* Inside a call, which one it is and which step.
LEMMA EndInCall ==
  ASSUME NEW st, NEW g, NEW p, NEW s, NEW moduli, NEW results, NEW n,
         EndInv(st, g, p, s, moduli, results, n), InCall(st)
  PROVE  /\ g \in 1 .. 3 /\ p \in 1 .. Len(Groups[g]) /\ s \in Nat
         /\ Joined(st) => s \in 1 .. Len(StepsOf(Groups[g][p]))
         /\ moduli \in [Threads -> {0, 32, 60}] /\ (g = 3 /\ p > 1 => moduli[1] = 60)
         /\ Groups[g][p].modulus # 0 => moduli[1] = Groups[g][p].modulus
  <1>1. g \in 1 .. 4 /\ g # 4 /\ p \in Nat \ {0} /\ p <= Len(Groups[g])
    BY DEF EndInv, Placed
  <1>2. g \in 1 .. 3
    BY <1>1
  <1>3. PICK l \in Nat : l = Len(Groups[g])
    BY <1>2, BeforeIs
  <1>4. p \in 1 .. Len(Groups[g])
    BY <1>1, <1>3
  <1>5. s \in Nat /\ (Joined(st) => s \in 1 .. Len(StepsOf(Groups[g][p])))
    BY DEF EndInv, Stepped
  <1>6. /\ moduli \in [Threads -> {0, 32, 60}] /\ (g = 3 /\ p > 1 => moduli[1] = 60)
        /\ Groups[g][p].modulus # 0 => moduli[1] = Groups[g][p].modulus
    BY DEF EndInv, Prepared
  <1> QED
    BY <1>2, <1>4, <1>5, <1>6

\* zz_p::init and connecting (StartCall).
LEMMA EndStarts ==
  ASSUME NEW g \in 1 .. 3, NEW p, NEW s, NEW moduli, NEW results, NEW n, NEW new,
         EndInv("start", g, p, s, moduli, results, n), p <= Len(Groups[g]),
         new = IF Groups[g][p].modulus # 0 /\ (g < 3 \/ p = 1)
               THEN [moduli EXCEPT ![1] = Groups[g][p].modulus] ELSE moduli
  PROVE  EndInv("connecting", g, p, s, new, results, n)
  <1>1. /\ Placed("start", g, p) /\ s \in Nat /\ Counted("start", g, p, results, n)
        /\ moduli \in [Threads -> {0, 32, 60}] /\ (g = 3 /\ p > 1 => moduli[1] = 60)
    BY DEF EndInv, Stepped, Prepared
  <1>2. p \in 1 .. Len(Groups[g])
    BY <1>1, BeforeIs DEF Placed
  <1>3. PICK m \in {0, 32, 60} : m = Groups[g][p].modulus
    BY <1>2, CallIs
  <1>4. (g = 3 => m \in {0, 60}) /\ (g = 3 /\ p = 1 => m = 60)
    BY <1>2, <1>3, CallIs
  <1>5. 1 \in Threads
    BY ThreadsEnough
  <1>6. new \in [Threads -> {0, 32, 60}]
    BY <1>1, <1>3
  <1>7. CASE m # 0 /\ (g < 3 \/ p = 1)
    <2>1. new[1] = m
      BY <1>1, <1>3, <1>5, <1>7
    <2>2. g = 3 /\ p > 1 => new[1] = 60
      BY <1>2, <1>7
    <2>3. Prepared("connecting", g, p, s, new)
      BY <1>3, <1>6, <2>1, <2>2 DEF Prepared, InCall, Joined
    <2> QED
      BY <1>1, <1>2, <2>3 DEF EndInv, Placed, Stepped, Counted, Stages, InCall, Joined
  <1>8. CASE ~ (m # 0 /\ (g < 3 \/ p = 1))
    <2>1. new = moduli
      BY <1>3, <1>8
    <2>2. m # 0 => new[1] = m
      <3>1. m # 0 => g = 3 /\ p > 1
        BY <1>2, <1>8
      <3> QED
        BY <1>1, <1>4, <2>1, <3>1
    <2>3. Prepared("connecting", g, p, s, new)
      BY <1>1, <1>3, <2>1, <2>2 DEF Prepared, InCall, Joined
    <2> QED
      BY <1>1, <1>2, <2>3 DEF EndInv, Placed, Stepped, Counted, Stages, InCall, Joined
  <1> QED
    BY <1>7, <1>8

\* Both ends are connected (Connect).
LEMMA EndConnects ==
  ASSUME NEW g, NEW p, NEW s, NEW moduli, NEW results, NEW n,
         EndInv("connecting", g, p, s, moduli, results, n)
  PROVE  EndInv("connected", g, p, 1, moduli, results, n)
  <1>1. g \in 1 .. 3 /\ p \in 1 .. Len(Groups[g])
    BY EndInCall DEF InCall
  <1>2. 1 \in 1 .. Len(StepsOf(Groups[g][p]))
    <2>1. PICK r : r = StepsOf(Groups[g][p])
      OBVIOUS
    <2>2. r = RunVOLE \/ r = RunGilboa
      BY <2>1 DEF StepsOf
    <2>3. Len(r) = 9 \/ Len(r) = 4
      BY <2>2, VoleStepsAre, GilboaStepsAre
    <2>4. 1 \in 1 .. Len(r)
      BY <2>3
    <2> QED
      BY <2>1, <2>4
  <1> QED
    BY <1>1, <1>2 DEF EndInv, Placed, Stepped, Prepared, Counted, Stages, InCall, Joined

\* A step that is neither the first one of VOLE nor the last one (Advance).
LEMMA EndAdvances ==
  ASSUME NEW st, NEW g, NEW p, NEW s, NEW moduli, NEW results, NEW n,
         EndInv(st, g, p, s, moduli, results, n), Joined(st),
         StepsOf(Groups[g][p])[s] \notin {"run", "restore"}
  PROVE  EndInv(st, g, p, s + 1, moduli, results, n)
  <1>1. g \in 1 .. 3 /\ p \in 1 .. Len(Groups[g]) /\ s \in Nat /\ s \in 1 .. Len(StepsOf(Groups[g][p]))
    BY EndInCall DEF InCall, Joined
  <1>2. PICK c \in Calls : c = Groups[g][p]
    BY <1>1, CallIs
  <1>3. s + 1 \in 1 .. Len(StepsOf(c)) /\ (c.protocol_name = "VOLE" => s > 1)
    BY <1>1, <1>2, StepsAre
  <1>4. Stepped(st, g, p, s + 1)
    BY <1>1, <1>2, <1>3 DEF Stepped
  <1>5. Prepared(st, g, p, s + 1, moduli)
    BY <1>1, <1>2, <1>3 DEF EndInv, Prepared
  <1> QED
    BY <1>4, <1>5 DEF EndInv

\* Setting the modulus of the team (Restore).
LEMMA EndRestores ==
  ASSUME NEW st, NEW g, NEW p, NEW s, NEW moduli, NEW results, NEW n, NEW new,
         EndInv(st, g, p, s, moduli, results, n), Joined(st),
         StepsOf(Groups[g][p])[s] = "restore",
         new = IF Groups[g][p].modulus # 0
               THEN [t \in Threads |-> IF t \in 1 .. Groups[g][p].num_threads
                                       THEN moduli[1] ELSE moduli[t]]
               ELSE moduli
  PROVE  EndInv(st, g, p, s + 1, new, results, n)
  <1>1. /\ g \in 1 .. 3 /\ p \in 1 .. Len(Groups[g]) /\ s \in Nat
        /\ s \in 1 .. Len(StepsOf(Groups[g][p]))
        /\ moduli \in [Threads -> {0, 32, 60}] /\ (g = 3 /\ p > 1 => moduli[1] = 60)
        /\ Groups[g][p].modulus # 0 => moduli[1] = Groups[g][p].modulus
    BY EndInCall DEF InCall, Joined
  <1>2. PICK c \in Calls : c = Groups[g][p]
    BY <1>1, CallIs
  <1>3. s + 1 \in 1 .. Len(StepsOf(c)) /\ s = 1
    BY <1>1, <1>2, StepsAre
  <1>4. Stepped(st, g, p, s + 1)
    BY <1>1, <1>2, <1>3 DEF Stepped
  <1>5. PICK k \in Nat \ {0} : k = c.num_threads /\ 1 .. k \subseteq Threads
    BY <1>1, <1>2, CallIs
  <1>6. 1 \in Threads /\ 1 \in 1 .. k
    BY <1>5, ThreadsEnough
  <1>7. CASE c.modulus # 0
    <2>1. new = [t \in Threads |-> IF t \in 1 .. k THEN moduli[1] ELSE moduli[t]]
      BY <1>2, <1>5, <1>7
    <2>2. new \in [Threads -> {0, 32, 60}] /\ \A t \in 1 .. k : new[t] = moduli[1]
      BY <1>1, <1>5, <1>6, <2>1
    <2>3. new[1] = moduli[1]
      BY <1>6, <2>2
    <2>4. moduli[1] = c.modulus
      BY <1>1, <1>2, <1>7
    <2>5. Prepared(st, g, p, s + 1, new)
      BY <1>1, <1>2, <1>5, <2>2, <2>3, <2>4 DEF Prepared
    <2> QED
      BY <1>4, <2>5 DEF EndInv
  <1>8. CASE c.modulus = 0
    <2>1. new = moduli
      BY <1>2, <1>8
    <2>2. Prepared(st, g, p, s + 1, new)
      BY <1>1, <1>2, <1>8, <2>1 DEF Prepared
    <2> QED
      BY <1>4, <2>2 DEF EndInv
  <1> QED
    BY <1>7, <1>8

\* An end returns an error (Fail).
LEMMA EndFails ==
  ASSUME NEW st, NEW g, NEW p, NEW s, NEW moduli, NEW results, NEW n,
         EndInv(st, g, p, s, moduli, results, n), Joined(st)
  PROVE  EndInv("start", g + 1, 1, s, moduli, Append(results, "error"), n)
  <1>1. /\ g \in 1 .. 3 /\ p \in 1 .. Len(Groups[g]) /\ s \in Nat /\ n \in Nat
        /\ moduli \in [Threads -> {0, 32, 60}]
        /\ results \in Seq({"ok", "error"}) /\ g = Len(results) + 1
        /\ n <= Before[g] + p - 1
    <2>1. g \in 1 .. 3 /\ p \in 1 .. Len(Groups[g])
      BY EndInCall DEF InCall, Joined
    <2>2. PICK x \in Nat : x = Before[g]
      BY <2>1, BeforeIs
    <2>3. n \in Nat /\ (n < x + p - 1 \/ n = x + p - 1)
      BY <2>2 DEF EndInv, Counted
    <2>4. n <= x + p - 1
      BY <2>1, <2>3
    <2> QED
      BY <2>1, <2>2, <2>4 DEF EndInv, Stepped, Prepared, Counted
  <1>h. PICK h \in Nat : h = g + 1
    BY <1>1
  <1>2. PICK l \in Nat, x \in Nat : /\ l = Len(Groups[g]) /\ x = Before[g]
                                    /\ Before[h] = x + l
    BY <1>1, <1>h, BeforeIs
  <1>3. n < x + l
    BY <1>1, <1>2
  <1>4. PICK q \in Seq({"ok", "error"}) : /\ q = Append(results, "error") /\ h = Len(q) + 1
                                           /\ Contains(q, "error")
    BY <1>1, <1>h, OneMoreResult
  <1>5. n < Before[h] + 1 - 1
    BY <1>1, <1>2, <1>3
  <1>6. Counted("start", h, 1, q, n)
    BY <1>1, <1>4, <1>5 DEF Counted
  <1>7. Placed("start", h, 1)
    <2>1. h \in 1 .. 4
      BY <1>1, <1>h
    <2>2. h # 4 => 1 <= Len(Groups[h]) + 1
      <3> SUFFICES ASSUME h # 4 PROVE 1 <= Len(Groups[h]) + 1
        OBVIOUS
      <3>1. h \in 1 .. 3
        BY <2>1
      <3>2. Len(Groups[h]) \in Nat
        BY <3>1, BeforeIs
      <3> QED
        BY <3>2
    <2> QED
      BY <2>1, <2>2 DEF Placed, Stages, InCall
  <1>8. Stepped("start", h, 1, s) /\ Prepared("start", h, 1, s, moduli)
    BY <1>1, <1>h DEF Stepped, Prepared, InCall, Joined
  <1> QED
    BY <1>h, <1>4, <1>6, <1>7, <1>8 DEF EndInv

\* The peer leaves the channel (Fail), and the end gives up (LosePeer).
LEMMA EndIsLeft ==
  ASSUME NEW g, NEW p, NEW s, NEW moduli, NEW results, NEW n
  PROVE  /\ EndInv("connected", g, p, s, moduli, results, n) =>
              EndInv("orphaned", g, p, s, moduli, results, n)
         /\ EndInv("orphaned", g, p, s, moduli, results, n) =>
              EndInv("crashed", g, p, s, moduli, results, n)
  BY DEF EndInv, Placed, Stepped, Prepared, Counted, Stages, InCall, Joined

\* A result is printed (Run).
LEMMA EndRuns ==
  ASSUME NEW g, NEW p, NEW s, NEW moduli, NEW results, NEW n,
         EndInv("connected", g, p, s, moduli, results, n)
  PROVE  EndInv("start", g, p + 1, s, moduli, results, n + 1)
  <1>1. /\ g \in 1 .. 3 /\ p \in 1 .. Len(Groups[g]) /\ s \in Nat /\ n \in Nat
        /\ moduli \in [Threads -> {0, 32, 60}] /\ (g = 3 /\ p > 1 => moduli[1] = 60)
        /\ Groups[g][p].modulus # 0 => moduli[1] = Groups[g][p].modulus
        /\ results \in Seq({"ok", "error"}) /\ g = Len(results) + 1
    <2>1. n \in Nat /\ results \in Seq({"ok", "error"}) /\ g = Len(results) + 1
      BY DEF EndInv, Counted
    <2> QED
      BY <2>1, EndInCall DEF InCall
  <1>2. PICK x \in Nat, l \in Nat : x = Before[g] /\ l = Len(Groups[g])
    BY <1>1, BeforeIs
  <1>3. /\ Contains(results, "error") => n + 1 < x + (p + 1) - 1
        /\ ~ Contains(results, "error") => n + 1 = x + (p + 1) - 1
    <2>1. /\ Contains(results, "error") => n < x + p - 1
          /\ ~ Contains(results, "error") => n = x + p - 1
      BY <1>2 DEF EndInv, Counted
    <2>2. p \in Int /\ x \in Int /\ n \in Int
      BY <1>1
    <2>3. /\ n < x + p - 1 => n + 1 < x + (p + 1) - 1
          /\ n = x + p - 1 => n + 1 = x + (p + 1) - 1
      BY <2>2
    <2> QED
      BY <2>1, <2>3
  <1>4. Counted("start", g, p + 1, results, n + 1)
    BY <1>1, <1>2, <1>3 DEF Counted
  <1>5. Placed("start", g, p + 1)
    <2>1. p + 1 \in Nat \ {0} /\ p + 1 <= l + 1
      BY <1>1, <1>2
    <2> QED
      BY <1>1, <1>2, <2>1 DEF Placed, Stages, InCall
  <1>6. g = 3 => moduli[1] = 60
    <2>1. CASE p = 1
      BY <1>1, <2>1, CallIs
    <2>2. CASE p > 1
      BY <1>1, <2>2
    <2> QED
      BY <1>1, <2>1, <2>2
  <1>7. Stepped("start", g, p + 1, s) /\ Prepared("start", g, p + 1, s, moduli)
    BY <1>1, <1>6 DEF Stepped, Prepared, InCall, Joined
  <1> QED
    BY <1>4, <1>5, <1>7 DEF EndInv

\* An experiment of main returns (GroupDone).
LEMMA EndFinishesGroup ==
  ASSUME NEW g, NEW p, NEW s, NEW moduli, NEW results, NEW n,
         EndInv("start", g, p, s, moduli, results, n), g <= 3, p > Len(Groups[g])
  PROVE  EndInv("start", g + 1, 1, s, moduli, Append(results, "ok"), n)
  <1>1. /\ g \in 1 .. 3 /\ p \in Nat /\ s \in Nat /\ n \in Nat /\ p <= Len(Groups[g]) + 1
        /\ moduli \in [Threads -> {0, 32, 60}]
        /\ results \in Seq({"ok", "error"}) /\ g = Len(results) + 1
    BY DEF EndInv, Placed, Stepped, Prepared, Counted
  <1>h. PICK h \in Nat : h = g + 1
    BY <1>1
  <1>2. PICK l \in Nat, x \in Nat : /\ l = Len(Groups[g]) /\ x = Before[g]
                                    /\ Before[h] = x + l
    BY <1>1, <1>h, BeforeIs
  <1>3. p = l + 1
    BY <1>1, <1>2
  <1>4. /\ Contains(results, "error") => n < x + l
        /\ ~ Contains(results, "error") => n = x + l
    <2>1. /\ Contains(results, "error") => n < x + p - 1
          /\ ~ Contains(results, "error") => n = x + p - 1
      BY <1>2 DEF EndInv, Counted
    <2> QED
      BY <1>2, <1>3, <2>1
  <1>5. PICK q \in Seq({"ok", "error"}) :
          /\ q = Append(results, "ok") /\ h = Len(q) + 1
          /\ Contains(q, "error") <=> Contains(results, "error")
    BY <1>1, <1>h, OneMoreResult
  <1>6. Before[h] + 1 - 1 = x + l
    BY <1>2
  <1>7. Counted("start", h, 1, q, n)
    BY <1>1, <1>4, <1>5, <1>6 DEF Counted
  <1>8. Placed("start", h, 1)
    <2>1. h \in 1 .. 4
      BY <1>1, <1>h
    <2>2. h # 4 => 1 <= Len(Groups[h]) + 1
      <3> SUFFICES ASSUME h # 4 PROVE 1 <= Len(Groups[h]) + 1
        OBVIOUS
      <3>1. h \in 1 .. 3
        BY <2>1
      <3>2. Len(Groups[h]) \in Nat
        BY <3>1, BeforeIs
      <3> QED
        BY <3>2
    <2> QED
      BY <2>1, <2>2 DEF Placed, Stages, InCall
  <1>9. Stepped("start", h, 1, s) /\ Prepared("start", h, 1, s, moduli)
    BY <1>1, <1>h DEF Stepped, Prepared, InCall, Joined
  <1> QED
    BY <1>h, <1>5, <1>7, <1>8, <1>9 DEF EndInv

\* main returns (Exit).
LEMMA EndExits ==
  ASSUME NEW g, NEW p, NEW s, NEW moduli, NEW results, NEW n,
         EndInv("start", g, p, s, moduli, results, n), g > 3
  PROVE  /\ Contains(results, "error") => EndInv("exited 1", g, p, s, moduli, results, n)
         /\ ~ Contains(results, "error") => EndInv("exited 0", g, p, s, moduli, results, n)
  <1>1. g \in 1 .. 4 /\ (g = 4 => p = 1) /\ n \in Nat
    BY DEF EndInv, Placed, Counted
  <1>2. g = 4 /\ p = 1
    BY <1>1
  <1>3. PICK x \in Nat : x = Total /\ x = Before[g]
    BY <1>2, BeforeIs
  <1>4. x + p - 1 = x
    BY <1>2
  <1>5. /\ Contains(results, "error") => n < x
        /\ ~ Contains(results, "error") => n = x
    BY <1>3, <1>4 DEF EndInv, Counted
  <1>6. /\ Contains(results, "error") => Counted("exited 1", g, p, results, n)
        /\ ~ Contains(results, "error") => Counted("exited 0", g, p, results, n)
    BY <1>3, <1>5 DEF EndInv, Counted
  <1>7. \A st \in {"exited 0", "exited 1"} :
          Placed(st, g, p) /\ Stepped(st, g, p, s) /\ Prepared(st, g, p, s, moduli)
    BY DEF EndInv, Placed, Stepped, Prepared, Stages, InCall, Joined
  <1> QED
    BY <1>6, <1>7 DEF EndInv

-----------------------------------------------------------------------------
(* The actions.                                                            *)

\* An end at a step, by the values of its state (At).
LEMMA AtMeans ==
  ASSUME NEW e \in Ends, NEW what
  PROVE  At(e, what) <=> /\ Joined(stage[e])
                         /\ StepsOf(Groups[group[e]][position[e]])[step[e]] = what
  BY DEF At, Steps, Current, StepsOf, Joined

\* No call has started yet.
LEMMA InitInv == Init => Inv
  <1> SUFFICES ASSUME Init PROVE Inv
    OBVIOUS
  <1>1. /\ \A e \in Ends : /\ stage[e] = "start" /\ group[e] = 1 /\ position[e] = 1 /\ step[e] = 1
                           /\ context[e] = [t \in Threads |-> 0] /\ statuses[e] = <<>>
                           /\ printed[e] = 0
        /\ wire = 0 /\ 0 \in Ends
    BY DEF Init, Ends
  <1>2. PICK moduli : moduli = [t \in Threads |-> 0]
    OBVIOUS
  <1>3. moduli \in [Threads -> {0, 32, 60}]
    BY <1>2
  <1>4. Arrays
    <2>1. \A e \in Ends : context[e] \in [Threads -> {0, 32, 60}]
      BY <1>1, <1>2, <1>3
    <2> QED
      BY <2>1 DEF Init, Arrays, Stages
  <1>5. PICK none \in Seq({"ok", "error"}) : none = <<>> /\ Len(none) = 0 /\ ~ Contains(none, "error")
    <2>1. <<>> \in Seq({"ok", "error"}) /\ Len(<<>>) = 0
      OBVIOUS
    <2>2. ~ Contains(<<>>, "error")
      BY DEF Contains
    <2> QED
      BY <2>1, <2>2
  <1>6. EndInv("start", 1, 1, 1, moduli, none, 0)
    <2>1. Placed("start", 1, 1)
      <3>1. Len(Groups[1]) \in Nat
        BY BeforeIs
      <3>2. 1 <= Len(Groups[1]) + 1
        BY <3>1
      <3> QED
        BY <3>2 DEF Placed, Stages, InCall
    <2>2. Stepped("start", 1, 1, 1) /\ Prepared("start", 1, 1, 1, moduli)
      BY <1>3 DEF Stepped, Prepared, InCall, Joined
    <2>3. Counted("start", 1, 1, none, 0)
      <3>1. Before[1] + 1 - 1 = 0
        BY BeforeIs
      <3> QED
        BY <1>5, <3>1 DEF Counted
    <2> QED
      BY <2>1, <2>2, <2>3 DEF EndInv
  <1>7. EndsInv
    BY <1>1, <1>2, <1>5, <1>6 DEF EndsInv
  <1>8. OneSeed
    BY <1>1 DEF OneSeed
  <1> QED
    BY <1>4, <1>7, <1>8 DEF Inv

\* No seed is sent or received, and no call starts.
LEMMA SeedKept ==
  ASSUME Inv, wire' = wire, stage'[0] \in {"connected", "orphaned"} => Joined(stage[0]),
         step'[0] = step[0] \/ step'[0] = step[0] + 1
  PROVE  OneSeed'
  <1>1. step[0] \in Nat /\ wire \in 0 .. 1 /\ (Joined(stage[0]) /\ step[0] <= 7 => wire = 0)
    BY DEF Inv, Arrays, OneSeed, Ends
  <1>2. step'[0] <= 7 => step[0] <= 7
    BY <1>1
  <1> QED
    BY <1>1, <1>2 DEF OneSeed, Joined

\* Steps that an end takes inside a call (Advance).
LEMMA AdvancesInv ==
  ASSUME Inv, NEW S \in SUBSET Ends, Advance(S),
         \A e \in S : \E what : At(e, what) /\ what \notin {"run", "restore"},
         UNCHANGED <<stage, group, position, context, statuses, printed>>
  PROVE  Arrays' /\ EndsInv' /\ (step'[0] = step[0] \/ step'[0] = step[0] + 1)
  <1>1. \A e \in Ends : step'[e] = IF e \in S THEN step[e] + 1 ELSE step[e]
    BY DEF Advance
  <1>2. step' \in [Ends -> Nat]
    BY DEF Advance, Inv, Arrays
  <1>3. Arrays'
    BY <1>2 DEF Inv, Arrays
  <1>4. ASSUME NEW e \in Ends
        PROVE  EndInv(stage[e], group[e], position[e], step'[e], context[e], statuses[e], printed[e])
    <2>1. EndInv(stage[e], group[e], position[e], step[e], context[e], statuses[e], printed[e])
      BY DEF Inv, EndsInv
    <2>2. CASE e \in S
      <3>1. PICK what : At(e, what) /\ what \notin {"run", "restore"}
        BY <2>2
      <3>2. /\ Joined(stage[e])
            /\ StepsOf(Groups[group[e]][position[e]])[step[e]] \notin {"run", "restore"}
        BY <3>1, AtMeans
      <3> QED
        BY <1>1, <2>1, <2>2, <3>2, EndAdvances
    <2>3. CASE e \notin S
      BY <1>1, <2>1, <2>3
    <2> QED
      BY <2>2, <2>3
  <1>5. EndsInv'
    BY <1>4 DEF EndsInv
  <1>6. 0 \in Ends
    BY DEF Ends
  <1> QED
    BY <1>1, <1>3, <1>5, <1>6

\* An end takes up the next call, perhaps with another modulus.
LEMMA StartCallInv ==
  ASSUME Inv, NEW x \in Ends, StartCall(x)
  PROVE  Inv'
  <1>1. /\ stage[x] = "start" /\ group[x] <= Len(Groups) /\ position[x] <= Len(Groups[group[x]])
        /\ stage' = [stage EXCEPT ![x] = "connecting"]
        /\ UNCHANGED <<group, position, step, statuses, printed, wire>>
    BY DEF StartCall
  <1>2. EndInv("start", group[x], position[x], step[x], context[x], statuses[x], printed[x])
    BY <1>1 DEF Inv, EndsInv
  <1>3. group[x] \in 1 .. 3
    <2>1. group[x] \in 1 .. 4 /\ group[x] <= 3
      BY <1>1, <1>2, GroupsAre DEF EndInv, Placed
    <2> QED
      BY <2>1
  <1>4. PICK c : c = Groups[group[x]][position[x]]
    OBVIOUS
  <1>5. PICK new : new = IF c.modulus # 0 /\ (group[x] < 3 \/ position[x] = 1)
                         THEN [context[x] EXCEPT ![1] = c.modulus] ELSE context[x]
    OBVIOUS
  <1>6. EndInv("connecting", group[x], position[x], step[x], new, statuses[x], printed[x])
    BY <1>1, <1>2, <1>3, <1>4, <1>5, EndStarts
  <1>7. context' = [context EXCEPT ![x] = new]
    <2>1. context \in [Ends -> [Threads -> {0, 32, 60}]]
      BY DEF Inv, Arrays
    <2>2. context' = IF c.modulus # 0 /\ (group[x] < 3 \/ position[x] = 1)
                     THEN [context EXCEPT ![x][1] = c.modulus] ELSE context
      BY <1>4 DEF StartCall, Current, InitModulus
    <2> QED
      BY <1>5, <2>1, <2>2
  <1>8. new \in [Threads -> {0, 32, 60}]
    BY <1>6 DEF EndInv, Prepared
  <1>9. Arrays'
    BY <1>1, <1>7, <1>8 DEF Inv, Arrays, Stages
  <1>10. /\ stage'[x] = "connecting" /\ context'[x] = new
         /\ \A e \in Ends : e # x => stage'[e] = stage[e] /\ context'[e] = context[e]
    BY <1>1, <1>7 DEF Inv, Arrays
  <1>11. EndsInv'
    BY <1>1, <1>6, <1>10 DEF Inv, EndsInv
  <1>12. OneSeed'
    <2>1. stage'[0] \in {"connected", "orphaned"} => Joined(stage[0])
      BY <1>10 DEF Joined, Ends
    <2> QED
      BY <1>1, <2>1, SeedKept
  <1> QED
    BY <1>9, <1>11, <1>12 DEF Inv

\* Both ends enter their calls at the first step.
LEMMA ConnectInv ==
  ASSUME Inv, Connect
  PROVE  Inv'
  <1>1. \A e \in Ends : stage[e] = "connecting" /\ stage'[e] = "connected" /\ step'[e] = 1
    BY DEF Connect
  <1>2. Arrays'
    BY DEF Connect, Inv, Arrays, Stages
  <1>3. EndsInv'
    <2> SUFFICES ASSUME NEW e \in Ends
                 PROVE  EndInv("connected", group[e], position[e], 1, context[e], statuses[e],
                               printed[e])
      BY <1>1 DEF Connect, EndsInv
    <2>1. EndInv("connecting", group[e], position[e], step[e], context[e], statuses[e], printed[e])
      BY <1>1 DEF Inv, EndsInv
    <2> QED
      BY <2>1, EndConnects
  <1>4. OneSeed'
    BY DEF Connect, OneSeed
  <1> QED
    BY <1>2, <1>3, <1>4 DEF Inv

\* Both ends take a step that is neither the first of RunVOLE nor the last.
LEMMA SyncInv ==
  ASSUME Inv, Sync
  PROVE  Inv'
  <1>1. /\ Ends \in SUBSET Ends /\ Advance(Ends) /\ wire' = wire /\ stage' = stage
        /\ \A e \in Ends : \E what : At(e, what) /\ what \notin {"run", "restore"}
    BY DEF Sync, Both
  <1>2. UNCHANGED <<stage, group, position, context, statuses, printed>>
    BY DEF Sync
  <1>3. Arrays' /\ EndsInv' /\ (step'[0] = step[0] \/ step'[0] = step[0] + 1)
    BY <1>1, <1>2, AdvancesInv
  <1>4. OneSeed'
    BY <1>1, <1>3, SeedKept DEF Joined
  <1> QED
    BY <1>3, <1>4 DEF Inv

\* The threads of an end get the modulus of its main thread.
LEMMA RestoreInv ==
  ASSUME Inv, NEW x \in Ends, Restore(x)
  PROVE  Inv'
  <1>1. /\ At(x, "restore") /\ Advance({x})
        /\ UNCHANGED <<stage, group, position, statuses, printed, wire>>
    BY DEF Restore
  <1>2. PICK c : c = Groups[group[x]][position[x]]
    OBVIOUS
  <1>3. PICK new : new = IF c.modulus # 0
                         THEN [t \in Threads |-> IF t \in 1 .. c.num_threads
                                                 THEN context[x][1] ELSE context[x][t]]
                         ELSE context[x]
    OBVIOUS
  <1>4. EndInv(stage[x], group[x], position[x], step[x], context[x], statuses[x], printed[x])
    BY DEF Inv, EndsInv
  <1>5. Joined(stage[x]) /\ StepsOf(c)[step[x]] = "restore"
    BY <1>1, <1>2, AtMeans
  <1>6. EndInv(stage[x], group[x], position[x], step[x] + 1, new, statuses[x], printed[x])
    BY <1>2, <1>3, <1>4, <1>5, EndRestores
  <1>7. context' = [context EXCEPT ![x] = new]
    <2>1. context \in [Ends -> [Threads -> {0, 32, 60}]]
      BY DEF Inv, Arrays
    <2>2. context' = IF c.modulus # 0
                     THEN [context EXCEPT ![x] = [t \in Threads |->
                             IF t \in 1 .. c.num_threads THEN context[x][1] ELSE context[x][t]]]
                     ELSE context
      BY <1>2 DEF Restore, Current, Team
    <2> QED
      BY <1>3, <2>1, <2>2
  <1>8. new \in [Threads -> {0, 32, 60}]
    BY <1>6 DEF EndInv, Prepared
  <1>9. step' \in [Ends -> Nat] /\ step'[x] = step[x] + 1 /\ \A e \in Ends : e # x => step'[e] = step[e]
    BY <1>1 DEF Advance, Inv, Arrays
  <1>10. Arrays'
    BY <1>1, <1>7, <1>8, <1>9 DEF Inv, Arrays
  <1>11. context'[x] = new /\ \A e \in Ends : e # x => context'[e] = context[e]
    BY <1>7 DEF Inv, Arrays
  <1>12. EndsInv'
    BY <1>1, <1>6, <1>9, <1>11 DEF Inv, EndsInv
  <1>13. OneSeed'
    <2>1. step'[0] = step[0] \/ step'[0] = step[0] + 1
      BY <1>9 DEF Ends
    <2> QED
      BY <1>1, <2>1, SeedKept DEF Joined
  <1> QED
    BY <1>10, <1>12, <1>13 DEF Inv

\* Some ends fail, each of them inside a call.
LEMMA FailInv ==
  ASSUME Inv, NEW S \in SUBSET Ends, Fail(S), \A e \in S : Joined(stage[e])
  PROVE  Inv'
  <1>1. UNCHANGED <<step, context, printed, wire>>
    BY DEF Fail
  <1>2. \A e \in Ends :
          IF e \in S
          THEN /\ stage'[e] = "start" /\ group'[e] = group[e] + 1 /\ position'[e] = 1
               /\ statuses'[e] = Append(statuses[e], "error")
          ELSE /\ stage'[e] = IF stage[e] = "connected" THEN "orphaned" ELSE stage[e]
               /\ group'[e] = group[e] /\ position'[e] = position[e] /\ statuses'[e] = statuses[e]
    <2>1. ASSUME NEW e \in Ends, e \in S
          PROVE  /\ stage'[e] = "start" /\ group'[e] = group[e] + 1 /\ position'[e] = 1
                 /\ statuses'[e] = Append(statuses[e], "error")
      <3>1. stage'[e] = "start"
        BY <2>1 DEF Fail
      <3>2. group'[e] = group[e] + 1 /\ position'[e] = 1
        BY <2>1 DEF Fail
      <3>3. statuses'[e] = Append(statuses[e], "error")
        BY <2>1 DEF Fail
      <3> QED
        BY <3>1, <3>2, <3>3
    <2>2. ASSUME NEW e \in Ends, e \notin S
          PROVE  /\ stage'[e] = IF stage[e] = "connected" THEN "orphaned" ELSE stage[e]
                 /\ group'[e] = group[e] /\ position'[e] = position[e] /\ statuses'[e] = statuses[e]
      <3>1. CASE stage[e] = "connected"
        BY <2>2, <3>1 DEF Fail
      <3>2. CASE stage[e] # "connected"
        BY <2>2, <3>2 DEF Fail
      <3> QED
        BY <3>1, <3>2
    <2> QED
      BY <2>1, <2>2
  <1>3. Arrays'
    <2>1. stage' \in [Ends -> Stages]
      <3>1. \A e \in Ends : stage'[e] \in Stages
        BY <1>2 DEF Inv, Arrays, Stages
      <3> QED
        BY <3>1 DEF Fail
    <2>2. group' \in [Ends -> Nat] /\ position' \in [Ends -> Nat]
      <3>1. \A e \in Ends : group[e] \in Nat /\ position[e] \in Nat
        BY DEF Inv, Arrays
      <3>2. \A e \in Ends : group[e] + 1 \in Nat
        BY <3>1
      <3>3. group' \in [Ends -> Nat]
        BY <3>1, <3>2 DEF Fail
      <3>4. position' \in [Ends -> Nat]
        BY <3>1 DEF Fail
      <3> QED
        BY <3>3, <3>4
    <2>3. statuses' \in [Ends -> Seq({"ok", "error"})]
      <3>1. \A e \in Ends : statuses'[e] \in Seq({"ok", "error"})
        <4> SUFFICES ASSUME NEW e \in Ends PROVE statuses'[e] \in Seq({"ok", "error"})
          OBVIOUS
        <4>1. statuses[e] \in Seq({"ok", "error"})
          BY DEF Inv, Arrays
        <4>2. Append(statuses[e], "error") \in Seq({"ok", "error"})
          BY <4>1, OneMoreResult
        <4> QED
          BY <1>2, <4>1, <4>2
      <3> QED
        BY <3>1 DEF Fail
    <2> QED
      BY <1>1, <2>1, <2>2, <2>3 DEF Inv, Arrays
  <1>4. ASSUME NEW e \in Ends
        PROVE  EndInv(stage'[e], group'[e], position'[e], step[e], context[e], statuses'[e],
                      printed[e])
    <2>1. EndInv(stage[e], group[e], position[e], step[e], context[e], statuses[e], printed[e])
      BY DEF Inv, EndsInv
    <2>2. CASE e \in S
      <3>1. EndInv("start", group[e] + 1, 1, step[e], context[e], Append(statuses[e], "error"),
                   printed[e])
        BY <2>1, <2>2, EndFails
      <3>2. /\ stage'[e] = "start" /\ group'[e] = group[e] + 1 /\ position'[e] = 1
            /\ statuses'[e] = Append(statuses[e], "error")
        BY <1>2, <2>2
      <3> QED
        BY <3>1, <3>2
    <2>3. CASE e \notin S
      <3>1. /\ stage'[e] = IF stage[e] = "connected" THEN "orphaned" ELSE stage[e]
            /\ group'[e] = group[e] /\ position'[e] = position[e] /\ statuses'[e] = statuses[e]
        BY <1>2, <2>3
      <3>2. CASE stage[e] = "connected"
        BY <2>1, <3>1, <3>2, EndIsLeft
      <3>3. CASE stage[e] # "connected"
        BY <2>1, <3>1, <3>3
      <3> QED
        BY <3>2, <3>3
    <2> QED
      BY <2>2, <2>3
  <1>5. EndsInv'
    BY <1>1, <1>4 DEF EndsInv
  <1>6. OneSeed'
    <2>1. stage'[0] \in {"connected", "orphaned"} => Joined(stage[0])
      <3>1. 0 \in Ends
        BY DEF Ends
      <3> QED
        BY <1>2, <3>1 DEF Joined
    <2> QED
      BY <1>1, <2>1, SeedKept
  <1> QED
    BY <1>3, <1>5, <1>6 DEF Inv

\* Both ends go on, or some of them fail.
LEMMA AdapterInv ==
  ASSUME Inv, Adapter
  PROVE  Inv'
  <1>1. \A e \in Ends : At(e, "adapter")
    BY DEF Adapter, Both
  <1>2. CASE Advance(Ends) /\ UNCHANGED <<stage, group, position, context, statuses, printed, wire>>
    <2>1. \A e \in Ends : \E what : At(e, what) /\ what \notin {"run", "restore"}
      BY <1>1
    <2>2. Arrays' /\ EndsInv' /\ (step'[0] = step[0] \/ step'[0] = step[0] + 1)
      BY <1>2, <2>1, AdvancesInv
    <2>3. OneSeed'
      BY <1>2, <2>2, SeedKept DEF Joined
    <2> QED
      BY <2>2, <2>3 DEF Inv
  <1>3. ASSUME NEW S \in SUBSET Ends, Fail(S) PROVE Inv'
    <2>1. \A e \in S : Joined(stage[e])
      BY <1>1, AtMeans
    <2> QED
      BY <1>3, <2>1, FailInv
  <1> QED
    BY <1>2, <1>3 DEF Adapter

\* One end goes on, or fails.
LEMMA LocalAdapterInv ==
  ASSUME Inv, NEW x \in Ends, LocalAdapter(x)
  PROVE  Inv'
  <1>1. At(x, "adapter") /\ {x} \in SUBSET Ends
    BY DEF LocalAdapter
  <1>2. CASE Advance({x}) /\ UNCHANGED <<stage, group, position, context, statuses, printed, wire>>
    <2>1. \A e \in {x} : \E what : At(e, what) /\ what \notin {"run", "restore"}
      BY <1>1
    <2>2. Arrays' /\ EndsInv' /\ (step'[0] = step[0] \/ step'[0] = step[0] + 1)
      BY <1>1, <1>2, <2>1, AdvancesInv
    <2>3. OneSeed'
      BY <1>2, <2>2, SeedKept DEF Joined
    <2> QED
      BY <2>2, <2>3 DEF Inv
  <1>3. CASE Fail({x})
    <2>1. \A e \in {x} : Joined(stage[e])
      BY <1>1, AtMeans
    <2> QED
      BY <1>1, <1>3, <2>1, FailInv
  <1> QED
    BY <1>2, <1>3 DEF LocalAdapter

\* Which step of the call exchanges the seed.
LEMMA SeedStep ==
  ASSUME Inv, NEW x \in Ends, At(x, "seed")
  PROVE  step[x] = 7
  <1>1. EndInv(stage[x], group[x], position[x], step[x], context[x], statuses[x], printed[x])
    BY DEF Inv, EndsInv
  <1>2. Joined(stage[x]) /\ StepsOf(Groups[group[x]][position[x]])[step[x]] = "seed"
    BY AtMeans
  <1>3. /\ group[x] \in 1 .. 3 /\ position[x] \in 1 .. Len(Groups[group[x]])
        /\ step[x] \in 1 .. Len(StepsOf(Groups[group[x]][position[x]]))
    BY <1>1, <1>2, EndInCall DEF InCall, Joined
  <1>4. PICK c \in Calls : c = Groups[group[x]][position[x]]
    BY <1>3, CallIs
  <1> QED
    BY <1>2, <1>3, <1>4, StepsAre

\* The lower ID is at its only step that sends a seed.
LEMMA SendSeedInv ==
  ASSUME Inv, NEW x \in Ends, SendSeed(x)
  PROVE  Inv'
  <1>1. /\ At(x, "seed") /\ {x} \in SUBSET Ends /\ Advance({x}) /\ wire' = wire + 1
        /\ UNCHANGED <<stage, group, position, context, statuses, printed>>
    BY DEF SendSeed
  <1>2. x = 0
    BY DEF SendSeed, SendsSeed, Peer, Ends
  <1>3. \A e \in {x} : \E what : At(e, what) /\ what \notin {"run", "restore"}
    BY <1>1
  <1>4. Arrays' /\ EndsInv'
    BY <1>1, <1>3, AdvancesInv
  <1>5. step[0] = 7 /\ Joined(stage[0]) /\ 0 \in Ends
    BY <1>1, <1>2, SeedStep, AtMeans
  <1>6. wire = 0
    BY <1>5 DEF Inv, OneSeed
  <1>7. step'[0] = 8
    BY <1>1, <1>2, <1>5 DEF Advance
  <1>8. OneSeed'
    BY <1>1, <1>6, <1>7 DEF OneSeed
  <1> QED
    BY <1>4, <1>8 DEF Inv

\* The seed on the way is taken.
LEMMA ReceiveSeedInv ==
  ASSUME Inv, NEW x \in Ends, ReceiveSeed(x)
  PROVE  Inv'
  <1>1. /\ At(x, "seed") /\ {x} \in SUBSET Ends /\ Advance({x}) /\ wire > 0 /\ wire' = wire - 1
        /\ UNCHANGED <<stage, group, position, context, statuses, printed>>
    BY DEF ReceiveSeed
  <1>2. \A e \in {x} : \E what : At(e, what) /\ what \notin {"run", "restore"}
    BY <1>1
  <1>3. Arrays' /\ EndsInv'
    BY <1>1, <1>2, AdvancesInv
  <1>4. wire' = 0
    BY <1>1 DEF Inv, OneSeed
  <1>5. OneSeed'
    BY <1>4 DEF OneSeed
  <1> QED
    BY <1>3, <1>5 DEF Inv

\* Both ends print a result, or some of them fail.
LEMMA RunInv ==
  ASSUME Inv, Run
  PROVE  Inv'
  <1>1. \A e \in Ends : stage[e] = "connected"
    BY DEF Run, Both
  <1>2. ASSUME NEW S \in SUBSET Ends, Fail(S) PROVE Inv'
    <2>1. \A e \in S : Joined(stage[e])
      BY <1>1 DEF Joined
    <2> QED
      BY <1>2, <2>1, FailInv
  <1>3. CASE /\ stage' = [e \in Ends |-> "start"]
             /\ position' = [e \in Ends |-> position[e] + 1]
             /\ printed' = [e \in Ends |-> printed[e] + 1]
             /\ UNCHANGED <<group, step, context, statuses, wire>>
    <2>1. Arrays'
      <3>1. stage' \in [Ends -> Stages]
        BY <1>3 DEF Stages
      <3>2. position' \in [Ends -> Nat] /\ printed' \in [Ends -> Nat]
        <4>1. \A e \in Ends : position[e] \in Nat /\ printed[e] \in Nat
          BY DEF Inv, Arrays
        <4>2. \A e \in Ends : position[e] + 1 \in Nat /\ printed[e] + 1 \in Nat
          BY <4>1
        <4> QED
          BY <1>3, <4>2
      <3> QED
        BY <1>3, <3>1, <3>2 DEF Inv, Arrays
    <2>2. ASSUME NEW e \in Ends
          PROVE  EndInv("start", group[e], position[e] + 1, step[e], context[e], statuses[e],
                        printed[e] + 1)
      <3>1. EndInv("connected", group[e], position[e], step[e], context[e], statuses[e], printed[e])
        BY <1>1 DEF Inv, EndsInv
      <3> QED
        BY <3>1, EndRuns
    <2>3. EndsInv'
      BY <1>3, <2>2 DEF EndsInv
    <2>4. OneSeed'
      BY <1>3 DEF Inv, OneSeed, Ends, Joined
    <2> QED
      BY <2>1, <2>3, <2>4 DEF Inv
  <1> QED
    BY <1>2, <1>3 DEF Run

\* An end that has been left gives up.
LEMMA LosePeerInv ==
  ASSUME Inv, NEW x \in Ends, LosePeer(x)
  PROVE  Inv'
  <1>1. /\ stage[x] = "orphaned" /\ stage' = [stage EXCEPT ![x] = "crashed"]
        /\ UNCHANGED <<group, position, step, context, statuses, printed, wire>>
    BY DEF LosePeer
  <1>2. Arrays'
    BY <1>1 DEF Inv, Arrays, Stages
  <1>3. stage'[x] = "crashed" /\ \A e \in Ends : e # x => stage'[e] = stage[e]
    BY <1>1 DEF Inv, Arrays
  <1>4. EndInv("crashed", group[x], position[x], step[x], context[x], statuses[x], printed[x])
    <2>1. EndInv("orphaned", group[x], position[x], step[x], context[x], statuses[x], printed[x])
      BY <1>1 DEF Inv, EndsInv
    <2> QED
      BY <2>1, EndIsLeft
  <1>5. EndsInv'
    BY <1>1, <1>3, <1>4 DEF Inv, EndsInv
  <1>6. OneSeed'
    <2>1. stage'[0] \in {"connected", "orphaned"} => Joined(stage[0])
      BY <1>3 DEF Joined, Ends
    <2> QED
      BY <1>1, <2>1, SeedKept
  <1> QED
    BY <1>2, <1>5, <1>6 DEF Inv

\* An experiment of main is over, with all of its calls made.
LEMMA GroupDoneInv ==
  ASSUME Inv, NEW x \in Ends, GroupDone(x)
  PROVE  Inv'
  <1>1. /\ stage[x] = "start" /\ group[x] <= 3 /\ position[x] > Len(Groups[group[x]])
        /\ group' = [group EXCEPT ![x] = group[x] + 1] /\ position' = [position EXCEPT ![x] = 1]
        /\ statuses' = [statuses EXCEPT ![x] = Append(statuses[x], "ok")]
        /\ UNCHANGED <<stage, step, context, printed, wire>>
    BY GroupsAre DEF GroupDone
  <1>2. EndInv("start", group[x], position[x], step[x], context[x], statuses[x], printed[x])
    BY <1>1 DEF Inv, EndsInv
  <1>3. EndInv("start", group[x] + 1, 1, step[x], context[x], Append(statuses[x], "ok"), printed[x])
    BY <1>1, <1>2, EndFinishesGroup
  <1>4. Append(statuses[x], "ok") \in Seq({"ok", "error"})
    BY <1>3 DEF EndInv, Counted
  <1>5. Arrays'
    BY <1>1, <1>4 DEF Inv, Arrays
  <1>6. /\ group'[x] = group[x] + 1 /\ position'[x] = 1 /\ statuses'[x] = Append(statuses[x], "ok")
        /\ \A e \in Ends : e # x => /\ group'[e] = group[e] /\ position'[e] = position[e]
                                    /\ statuses'[e] = statuses[e]
    BY <1>1 DEF Inv, Arrays
  <1>7. EndsInv'
    <2>1. ASSUME NEW e \in Ends
          PROVE  EndInv(stage[e], group'[e], position'[e], step[e], context[e], statuses'[e],
                        printed[e])
      <3>1. CASE e = x
        BY <1>1, <1>3, <1>6, <3>1
      <3>2. CASE e # x
        BY <1>6, <3>2 DEF Inv, EndsInv
      <3> QED
        BY <3>1, <3>2
    <2> QED
      BY <1>1, <2>1 DEF EndsInv
  <1>8. OneSeed'
    BY <1>1, SeedKept DEF Joined
  <1> QED
    BY <1>5, <1>7, <1>8 DEF Inv

\* main returns after the last experiment.
LEMMA ExitInv ==
  ASSUME Inv, NEW x \in Ends, Exit(x)
  PROVE  Inv'
  <1>1. /\ stage[x] = "start" /\ group[x] > 3
        /\ UNCHANGED <<group, position, step, context, statuses, printed, wire>>
    BY GroupsAre DEF Exit
  <1>2. PICK new \in {"exited 0", "exited 1"} :
          /\ stage' = [stage EXCEPT ![x] = new]
          /\ EndInv(new, group[x], position[x], step[x], context[x], statuses[x], printed[x])
    <2>1. EndInv("start", group[x], position[x], step[x], context[x], statuses[x], printed[x])
      BY <1>1 DEF Inv, EndsInv
    <2>2. /\ Contains(statuses[x], "error") =>
               EndInv("exited 1", group[x], position[x], step[x], context[x], statuses[x], printed[x])
          /\ ~ Contains(statuses[x], "error") =>
               EndInv("exited 0", group[x], position[x], step[x], context[x], statuses[x], printed[x])
      BY <1>1, <2>1, EndExits
    <2>3. CASE Contains(statuses[x], "error")
      BY <2>2, <2>3 DEF Exit, AnyError
    <2>4. CASE ~ Contains(statuses[x], "error")
      BY <2>2, <2>4 DEF Exit, AnyError
    <2> QED
      BY <2>3, <2>4
  <1>3. Arrays'
    BY <1>1, <1>2 DEF Inv, Arrays, Stages
  <1>4. stage'[x] = new /\ \A e \in Ends : e # x => stage'[e] = stage[e]
    BY <1>2 DEF Inv, Arrays
  <1>5. EndsInv'
    BY <1>1, <1>2, <1>4 DEF Inv, EndsInv
  <1>6. OneSeed'
    <2>1. stage'[0] \in {"connected", "orphaned"} => Joined(stage[0])
      BY <1>2, <1>4 DEF Joined, Ends
    <2> QED
      BY <1>1, <2>1, SeedKept
  <1> QED
    BY <1>3, <1>5, <1>6 DEF Inv

\* A step that changes nothing.
LEMMA StutterInv ==
  ASSUME Inv, UNCHANGED vars
  PROVE  Inv'
  <1>1. Arrays'
    BY DEF Inv, Arrays, vars
  <1>2. EndsInv'
    BY DEF Inv, EndsInv, vars
  <1>3. OneSeed'
    BY DEF Inv, OneSeed, vars
  <1> QED
    BY <1>1, <1>2, <1>3 DEF Inv

\* The invariant holds throughout.
THEOREM Invariance == Spec => []Inv
  <1>1. Init => Inv
    BY InitInv
  <1>2. Inv /\ [Next]_vars => Inv'
    <2> SUFFICES ASSUME Inv, [Next]_vars PROVE Inv'
      OBVIOUS
    <2>1. CASE Connect
      BY <2>1, ConnectInv
    <2>2. CASE Sync
      BY <2>2, SyncInv
    <2>3. CASE Adapter
      BY <2>3, AdapterInv
    <2>4. CASE Run
      BY <2>4, RunInv
    <2>5. ASSUME NEW e \in Ends, Step(e) PROVE Inv'
      BY <2>5, StartCallInv, RestoreInv, LocalAdapterInv, SendSeedInv, ReceiveSeedInv,
         GroupDoneInv, ExitInv DEF Step
    <2>6. ASSUME NEW e \in Ends, LosePeer(e) PROVE Inv'
      BY <2>6, LosePeerInv
    <2>7. CASE UNCHANGED vars
      BY <2>7, StutterInv
    <2> QED
      BY <2>1, <2>2, <2>3, <2>4, <2>5, <2>6, <2>7 DEF Next
  <1> QED
    BY <1>1, <1>2, PTL DEF Spec

\* TypeOK holds: an end that is in a channel is at a step of a call of main's, and
\* never is more than one seed on the way.
THEOREM TypeCorrect == Spec => []TypeOK
  <1>1. Inv => TypeOK
    <2> SUFFICES ASSUME Inv PROVE TypeOK
      OBVIOUS
    <2>1. stage \in [Ends -> {"start", "connecting", "connected", "orphaned", "crashed",
                              "exited 0", "exited 1"}]
      BY DEF Inv, Arrays, Stages
    <2>2. ASSUME NEW e \in Ends
          PROVE  /\ group[e] = Len(statuses[e]) + 1
                 /\ stage[e] \in {"connected", "orphaned"} =>
                      position[e] \in DOMAIN Groups[group[e]] /\ step[e] \in DOMAIN Steps(e)
                 /\ context[e] \in [Threads -> {0, 32, 60}]
      <3>1. EndInv(stage[e], group[e], position[e], step[e], context[e], statuses[e], printed[e])
        BY DEF Inv, EndsInv
      <3>2. group[e] = Len(statuses[e]) + 1 /\ context[e] \in [Threads -> {0, 32, 60}]
        BY <3>1 DEF EndInv, Prepared, Counted
      <3>3. ASSUME stage[e] \in {"connected", "orphaned"}
            PROVE  position[e] \in DOMAIN Groups[group[e]] /\ step[e] \in DOMAIN Steps(e)
        <4>1. /\ group[e] \in 1 .. 3 /\ position[e] \in 1 .. Len(Groups[group[e]])
              /\ step[e] \in 1 .. Len(StepsOf(Groups[group[e]][position[e]]))
          BY <3>1, <3>3, EndInCall DEF InCall, Joined
        <4>2. PICK calls \in Seq(Calls) : calls = Groups[group[e]]
          BY <4>1, GroupsAre
        <4>3. position[e] \in DOMAIN Groups[group[e]]
          BY <4>1, <4>2
        <4>4. PICK kinds \in Seq(Kinds) : kinds = StepsOf(Groups[group[e]][position[e]])
          BY VoleStepsAre, GilboaStepsAre DEF StepsOf
        <4>5. Steps(e) = kinds
          BY <4>4 DEF Steps, StepsOf, Current
        <4>6. step[e] \in DOMAIN Steps(e)
          BY <4>1, <4>4, <4>5
        <4> QED
          BY <4>3, <4>6
      <3> QED
        BY <3>2, <3>3
    <2>3. wire \in 0 .. 1
      BY DEF Inv, OneSeed
    <2> QED
      BY <2>1, <2>2, <2>3 DEF TypeOK
  <1> QED
    BY <1>1, Invariance, PTL

\* Whenever a protocol runs over a prime field, all of its threads have the modulus
\* of the bit width that is printed, for all sizes, teams and numbers of runs.
THEOREM AllThreadsInContext == Spec => []ThreadsInContext
  <1>1. Inv => ThreadsInContext
    <2> SUFFICES ASSUME Inv, NEW e \in Ends, At(e, "run"), Current(e).modulus # 0,
                        NEW t \in 1 .. (IF Current(e).protocol_name = "VOLE"
                                        THEN Current(e).num_threads ELSE 1)
                 PROVE  context[e][t] = Current(e).bit_width
      BY DEF ThreadsInContext
    <2>1. EndInv(stage[e], group[e], position[e], step[e], context[e], statuses[e], printed[e])
      BY DEF Inv, EndsInv
    <2>2. Joined(stage[e]) /\ StepsOf(Groups[group[e]][position[e]])[step[e]] = "run"
      BY AtMeans
    <2>3. /\ group[e] \in 1 .. 3 /\ position[e] \in 1 .. Len(Groups[group[e]])
          /\ step[e] \in 1 .. Len(StepsOf(Groups[group[e]][position[e]]))
      BY <2>1, <2>2, EndInCall DEF InCall, Joined
    <2>4. PICK c \in Calls : c = Groups[group[e]][position[e]] /\ c = Current(e)
      BY <2>3, CallIs DEF Current
    <2>5. c.bit_width = c.modulus
      BY <2>4 DEF Calls
    <2>6. CASE c.protocol_name = "VOLE"
      <3>1. step[e] > 1
        BY <2>2, <2>3, <2>4, <2>6, StepsAre
      <3>2. t \in 1 .. c.num_threads
        BY <2>4, <2>6
      <3>3. context[e][t] = c.modulus
        BY <2>1, <2>2, <2>4, <2>6, <3>1, <3>2 DEF EndInv, Prepared
      <3> QED
        BY <2>4, <2>5, <3>3
    <2>7. CASE c.protocol_name # "VOLE"
      <3>1. t = 1
        BY <2>4, <2>7
      <3>2. context[e][1] = c.modulus
        BY <2>1, <2>2, <2>4 DEF EndInv, Prepared, InCall, Joined
      <3> QED
        BY <2>4, <2>5, <3>1, <3>2
    <2> QED
      BY <2>6, <2>7
  <1> QED
    BY <1>1, Invariance, PTL

\* The exit code tells whether all results have been printed, whichever calls fail.
THEOREM ExitCodeTells == Spec => []ExitTells
  <1>1. Inv => ExitTells
    BY DEF Inv, EndsInv, EndInv, Counted, ExitTells
  <1> QED
    BY <1>1, Invariance, PTL

================================================================
