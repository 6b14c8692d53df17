-------------------------- MODULE CodeGeneratorProofs --------------------------
(***************************************************************************)
(* The safety properties and the types of CodeGenerator, for all types,    *)
(* sizes and seeds, and whatever AES makes of a key and a nonce.           *)
(*                                                                         *)
(* GeneratorsAgree relates two ends that are at different places.  It is   *)
(* inductive once it says how: there is one trace of iterations from the   *)
(* seed, and each end stands at a place of it (SameTrace).  WordsFresh     *)
(* needs to know which words a generator has handed out: the halves of the *)
(* blocks from the seed's nonce on, in order (Stream).                     *)
(***************************************************************************)
EXTENDS CodeGenerator, FoldProofs

Labels == {"seed", "elements", "rows", "indices", "done", "refused", "threw"}

Shaped ==
  /\ input \in Inputs
  /\ pc \in [Ends -> Labels]
  /\ DOMAIN rng = Ends /\ DOMAIN drawn = Ends /\ DOMAIN random_elements = Ends
  /\ DOMAIN code_generator_ = Ends
  /\ entries \in [Ends -> Nat]
  /\ \A e \in Ends : \E S : random_elements[e] \in Seq(S)
  /\ channel = <<>> \/ \E s \in Seeds : channel = <<s>>

\* What an end has while it waits for the seed, and between its two loops.
Places ==
  /\ pc[0] = "seed" => pc[1] = "seed" /\ channel = <<>>
  /\ \A e \in Ends :
       /\ pc[e] = "seed" =>
            /\ drawn[e] = <<>> /\ random_elements[e] = <<>> /\ code_generator_[e] = <<>>
            /\ entries[e] = 0
       /\ pc[e] = "elements" => entries[e] = 0
       /\ pc[e] = "rows" => Len(random_elements[e]) = count

-----------------------------------------------------------------------------
(* The trace of iterations, from a seed, of an end whose build takes the   *)
(* words of an element in the order high.                                  *)

NumEntries(in) == kCodeGeneratorNonzeros * in.output_size

Begin(in, s) ==
  [rng |-> AES!Create(s, NumEntries(in)), elements |-> <<>>, generator |-> <<>>,
   entries |-> 0]

Halves(high, first, second) ==
  IF high THEN {k + half : k \in first} \cup second ELSE {k + half : k \in second} \cup first

WithElement(in, high, x) ==
  LET one == AES!Next(x.rng)
  IN  [rng |-> AES!Next(one),
       elements |-> Append(x.elements, FromUint128(in.T,
                      Halves(high, Value(x.rng, AES!Result(x.rng)),
                                   Value(one, AES!Result(one))))),
       generator |-> x.generator, entries |-> x.entries]

WithRow(in, x) ==
  LET word == Value(x.rng, AES!Result(x.rng))
      position == <<Dist(word, in.vole_seed_size), x.entries \div kCodeGeneratorNonzeros>>
      hit == Accepted(word, in.vole_seed_size)
  IN  [rng |-> AES!Next(x.rng), elements |-> x.elements,
       generator |-> IF hit
                       THEN [p \in DOMAIN x.generator \cup {position} |->
                               IF p = position THEN x.elements[x.entries + 1]
                               ELSE x.generator[p]]
                       ELSE x.generator,
       entries |-> IF hit THEN x.entries + 1 ELSE x.entries]

Iteration(in, high, x) ==
  IF Len(x.elements) < NumEntries(in) THEN WithElement(in, high, x) ELSE WithRow(in, x)

Trace(in, high, s, n, t) ==
  /\ t[1] = Begin(in, s)
  /\ \A i \in 1 .. n - 1 : /\ t[i].entries # NumEntries(in)
                           /\ t[i + 1] = Iteration(in, high, t[i])

\* An end stands at x; its rng is the one of the code generator until it is filled.
Stands(e, x) ==
  /\ x.elements = random_elements[e] /\ x.generator = code_generator_[e]
  /\ x.entries = entries[e]
  /\ pc[e] \in {"elements", "rows"} => x.rng = rng[e]

SameTrace ==
  pc[0] # "seed" /\ highFirst[0] = highFirst[1] =>
    \E s \in Seeds, n \in Nat \ {0} : \E t :
      /\ Trace(input, highFirst[0], s, n, t)
      /\ channel = <<>> \/ channel = <<s>>
      /\ \A e \in Ends : pc[e] # "seed" => \E k \in 1 .. n : Stands(e, t[k])

AgreeInv == Shaped /\ Places /\ SameTrace

-----------------------------------------------------------------------------
\* The number of entries is a number (count, of the model).
LEMMA NumEntriesType ==
  ASSUME NEW in \in Inputs
  PROVE  NumEntries(in) \in Nat
  BY CodeAssumption DEF NumEntries

\* A trace may be followed by an iteration of its element k, unless that one has
\* all entries: the next element is there already, or it is added.
LEMMA Extend ==
  ASSUME NEW in, NEW high, NEW s, NEW n \in Nat \ {0}, NEW t, Trace(in, high, s, n, t),
         NEW k \in 1 .. n, t[k].entries # NumEntries(in)
  PROVE  \E m \in Nat \ {0} : \E u :
           /\ Trace(in, high, s, m, u)
           /\ n <= m /\ \A i \in 1 .. n : u[i] = t[i]
           /\ k + 1 \in 1 .. m /\ u[k + 1] = Iteration(in, high, t[k])
<1>1. CASE k < n
  <2>1. k \in 1 .. n - 1 /\ k + 1 \in 1 .. n
    BY <1>1
  <2>2. t[k + 1] = Iteration(in, high, t[k])
    BY <2>1 DEF Trace
  <2>3. n \in Nat \ {0} /\ n <= n /\ \A i \in 1 .. n : t[i] = t[i]
    OBVIOUS
  <2> QED
    BY <2>1, <2>2, <2>3
<1>2. CASE k = n
  <2> DEFINE y == Iteration(in, high, t[n])
             u == [i \in 1 .. n + 1 |-> IF i <= n THEN t[i] ELSE y]
  <2>1. \A i \in 1 .. n : u[i] = t[i]
    OBVIOUS
  <2>2. u[n + 1] = y
    OBVIOUS
  <2>3. \A i \in 1 .. n : u[i].entries # NumEntries(in)
    BY <1>2, <2>1 DEF Trace
  <2>4. \A i \in 1 .. n - 1 : u[i + 1] = Iteration(in, high, u[i])
    <3> TAKE i \in 1 .. n - 1
    <3>1. i \in 1 .. n /\ i + 1 \in 1 .. n
      OBVIOUS
    <3>2. t[i + 1] = Iteration(in, high, t[i])
      BY DEF Trace
    <3> HIDE DEF u
    <3> QED
      BY <2>1, <3>1, <3>2
  <2>5. u[n + 1] = Iteration(in, high, u[n])
    BY <2>1, <2>2
  <2>6. u[1] = Begin(in, s)
    BY <2>1 DEF Trace
  <2> HIDE DEF u
  <2>7. Trace(in, high, s, n + 1, u)
    <3>1. SUFFICES ASSUME NEW i \in 1 .. n
                   PROVE  u[i + 1] = Iteration(in, high, u[i])
      BY <2>3, <2>6 DEF Trace
    <3> QED
      BY <2>4, <2>5
  <2> QED
    BY <1>2, <2>1, <2>2, <2>7
<1> QED
  BY <1>1, <1>2

\* An end that has all entries stands at the end of the trace.
LEMMA Complete ==
  ASSUME NEW in, NEW high, NEW s, NEW n \in Nat \ {0}, NEW t, Trace(in, high, s, n, t),
         NEW k \in 1 .. n, t[k].entries = NumEntries(in)
  PROVE  k = n
  BY DEF Trace

-----------------------------------------------------------------------------
\* What a step of an end does to the trace: an iteration (SampleElement and
\* SampleRow), and nothing in the other steps of an end that has the seed.
LEMMA TraceIteration ==
  ASSUME Shaped, SameTrace, NEW e \in Ends,
         pc[e] \in {"elements", "rows"}, entries[e] # count, pc[0] # "seed",
         input' = input, highFirst' = highFirst, channel' = channel, pc' = pc,
         \A o \in Ends \ {e} :
           /\ rng'[o] = rng[o] /\ random_elements'[o] = random_elements[o]
           /\ code_generator_'[o] = code_generator_[o] /\ entries'[o] = entries[o],
         ASSUME NEW x, Stands(e, x)
         PROVE  LET y == Iteration(input, highFirst[e], x)
                IN  /\ y.elements = random_elements'[e]
                    /\ y.generator = code_generator_'[e]
                    /\ y.entries = entries'[e] /\ y.rng = rng'[e]
  PROVE  SameTrace'
<1>1. SUFFICES ASSUME highFirst[0] = highFirst[1]
               PROVE  \E s \in Seeds, n \in Nat \ {0} : \E t :
                        /\ Trace(input, highFirst[0], s, n, t)
                        /\ channel = <<>> \/ channel = <<s>>
                        /\ \A o \in Ends : pc[o] # "seed" =>
                             \E k \in 1 .. n : Stands(o, t[k])'
  BY DEF SameTrace, Stands
<1>2. PICK s \in Seeds, n \in Nat \ {0} : \E t :
        /\ Trace(input, highFirst[0], s, n, t)
        /\ channel = <<>> \/ channel = <<s>>
        /\ \A o \in Ends : pc[o] # "seed" => \E k \in 1 .. n : Stands(o, t[k])
  BY <1>1 DEF SameTrace
<1>3. PICK t :
        /\ Trace(input, highFirst[0], s, n, t)
        /\ channel = <<>> \/ channel = <<s>>
        /\ \A o \in Ends : pc[o] # "seed" => \E k \in 1 .. n : Stands(o, t[k])
  BY <1>2
<1>4. PICK k \in 1 .. n : Stands(e, t[k])
  BY <1>3
<1>5. t[k].entries # NumEntries(input)
  BY <1>4 DEF Stands, NumEntries, count
<1>6. highFirst[e] = highFirst[0] /\ Trace(input, highFirst[0], s, n, t)
  BY <1>1, <1>3 DEF Ends
<1>7. PICK m \in Nat \ {0} : \E u :
        /\ Trace(input, highFirst[0], s, m, u)
        /\ n <= m /\ \A i \in 1 .. n : u[i] = t[i]
        /\ k + 1 \in 1 .. m /\ u[k + 1] = Iteration(input, highFirst[0], t[k])
  BY <1>5, <1>6, Extend
<1>8. PICK u :
        /\ Trace(input, highFirst[0], s, m, u)
        /\ n <= m /\ \A i \in 1 .. n : u[i] = t[i]
        /\ k + 1 \in 1 .. m /\ u[k + 1] = Iteration(input, highFirst[0], t[k])
  BY <1>7
<1>9. Stands(e, u[k + 1])'
  <2> DEFINE y == Iteration(input, highFirst[e], t[k])
  <2>1. /\ y.elements = random_elements'[e] /\ y.generator = code_generator_'[e]
        /\ y.entries = entries'[e] /\ y.rng = rng'[e]
    BY <1>4
  <2>2. u[k + 1] = y
    BY <1>6, <1>8
  <2> HIDE DEF y
  <2> QED
    BY <2>1, <2>2 DEF Stands
<1>10. ASSUME NEW o \in Ends \ {e}, pc[o] # "seed"
       PROVE  \E j \in 1 .. m : Stands(o, u[j])'
  <2>1. PICK j \in 1 .. n : Stands(o, t[j])
    BY <1>3, <1>10
  <2>2. j \in 1 .. m /\ u[j] = t[j]
    BY <1>8
  <2> QED
    BY <2>1, <2>2 DEF Stands
<1> QED
  BY <1>3, <1>8, <1>9, <1>10

\* Both ends stay where they are on the trace.
LEMMA TraceStays ==
  ASSUME Shaped, SameTrace, pc[0] # "seed",
         input' = input, highFirst' = highFirst, channel' = channel,
         random_elements' = random_elements, code_generator_' = code_generator_,
         entries' = entries,
         \A e \in Ends :
           /\ pc'[e] # "seed" => pc[e] # "seed"
           /\ pc'[e] \in {"elements", "rows"} =>
                pc[e] \in {"elements", "rows"} /\ rng'[e] = rng[e]
  PROVE  SameTrace'
<1>1. ASSUME NEW e \in Ends, NEW x, Stands(e, x)
      PROVE  Stands(e, x)'
  BY <1>1 DEF Stands
<1>2. SUFFICES ASSUME highFirst[0] = highFirst[1]
               PROVE  \E s \in Seeds, n \in Nat \ {0} : \E t :
                        /\ Trace(input, highFirst[0], s, n, t)
                        /\ channel = <<>> \/ channel = <<s>>
                        /\ \A o \in Ends : pc'[o] # "seed" =>
                             \E k \in 1 .. n : Stands(o, t[k])'
  BY DEF SameTrace, Stands
<1>3. PICK s \in Seeds, n \in Nat \ {0} : \E t :
        /\ Trace(input, highFirst[0], s, n, t)
        /\ channel = <<>> \/ channel = <<s>>
        /\ \A o \in Ends : pc[o] # "seed" => \E k \in 1 .. n : Stands(o, t[k])
  BY <1>2 DEF SameTrace
<1> QED
  BY <1>1, <1>3

-----------------------------------------------------------------------------
\* Before any step: both ends wait for the seed, with nothing drawn or filled.
LEMMA AgreeInit == Init => AgreeInv
<1> SUFFICES ASSUME Init
             PROVE  AgreeInv
  OBVIOUS
<1>1. Shaped
  <2>1. \A e \in Ends : random_elements[e] \in Seq({})
    BY DEF Init
  <2> QED
    BY <2>1 DEF Init, Shaped, Labels, Ends
<1>2. Places
  BY DEF Init, Places, Ends
<1>3. SameTrace
  BY DEF Init, SameTrace, Ends
<1> QED
  BY <1>1, <1>2, <1>3 DEF AgreeInv

\* A list of one element has nothing after it.
LEMMA TailOne ==
  ASSUME NEW S, NEW s \in S
  PROVE  Tail(<<s>>) = <<>>
  OBVIOUS

\* Every step keeps the shapes; an end appends one element at a time.
LEMMA ShapedNext == AgreeInv /\ [Next]_vars => Shaped'
<1> SUFFICES ASSUME AgreeInv, [Next]_vars
             PROVE  Shaped'
  OBVIOUS
<1> USE DEF AgreeInv
<1>1. ASSUME SendSeed
      PROVE  Shaped'
  BY <1>1 DEF SendSeed, Shaped, Goto, AfterCreate, Labels, Ends
<1>2. ASSUME ReceiveSeed
      PROVE  Shaped'
  <2>1. channel' = <<>>
    BY <1>2, TailOne DEF ReceiveSeed, Shaped
  <2>2. pc' \in [Ends -> Labels]
    BY <1>2 DEF ReceiveSeed, Shaped, Goto, AfterCreate, Labels, Ends
  <2>3. /\ UNCHANGED <<input, drawn, random_elements, code_generator_, entries>>
        /\ DOMAIN rng' = DOMAIN rng
    BY <1>2 DEF ReceiveSeed
  <2> QED
    BY <2>1, <2>2, <2>3 DEF Shaped
<1>3. ASSUME NEW e \in Ends, SampleElement(e)
      PROVE  Shaped'
  <2> DEFINE new == random_elements'[e][Len(random_elements'[e])]
  <2>1. PICK x : random_elements' = [random_elements EXCEPT ![e] = Append(@, x)]
    BY <1>3 DEF SampleElement
  <2>2. PICK S : random_elements[e] \in Seq(S)
    BY DEF Shaped
  <2>3. random_elements'[e] \in Seq(S \cup {x})
    <3>1. random_elements[e] \in Seq(S \cup {x})
      BY <2>2
    <3>2. random_elements'[e] = Append(random_elements[e], x)
      BY <2>1 DEF Shaped
    <3> QED
      BY <3>1, <3>2
  <2>4. \A o \in Ends : \E R : random_elements'[o] \in Seq(R)
    <3>1. \A o \in Ends \ {e} : random_elements'[o] = random_elements[o]
      BY <2>1 DEF Shaped
    <3> QED
      BY <2>3, <3>1 DEF Shaped
  <2>5. /\ UNCHANGED <<input, channel, pc, code_generator_, entries>>
        /\ DOMAIN rng' = DOMAIN rng /\ DOMAIN drawn' = DOMAIN drawn
    BY <1>3 DEF SampleElement
  <2>6. DOMAIN random_elements' = Ends
    BY <2>1 DEF Shaped
  <2> QED
    BY <2>4, <2>5, <2>6 DEF Shaped
<1>4. ASSUME NEW e \in Ends, ElementsSampled(e)
      PROVE  Shaped'
  BY <1>4 DEF ElementsSampled, Shaped, Goto, Labels
<1>5. ASSUME NEW e \in Ends, SampleRow(e)
      PROVE  Shaped'
  <2>1. /\ UNCHANGED <<input, channel, pc, random_elements>>
        /\ DOMAIN rng' = DOMAIN rng /\ DOMAIN drawn' = DOMAIN drawn
        /\ DOMAIN code_generator_' = DOMAIN code_generator_
    BY <1>5 DEF SampleRow
  <2>2. entries' = entries \/ entries' = [entries EXCEPT ![e] = @ + 1]
    BY <1>5 DEF SampleRow
  <2>3. entries' \in [Ends -> Nat]
    BY <2>2 DEF Shaped
  <2> QED
    BY <2>1, <2>3 DEF Shaped
<1>6. ASSUME NEW e \in Ends, Filled(e)
      PROVE  Shaped'
  BY <1>6 DEF Filled, Shaped, Goto, Labels
<1>7. ASSUME NEW e \in Ends, SampleIndex(e)
      PROVE  Shaped'
  BY <1>7 DEF SampleIndex, Shaped
<1>8. ASSUME NEW e \in Ends, IndicesSampled(e)
      PROVE  Shaped'
  BY <1>8 DEF IndicesSampled, Shaped, Goto, Labels
<1>9. ASSUME NEW e \in Ends, Throw(e)
      PROVE  Shaped'
  BY <1>9 DEF Throw, Shaped, Goto, Labels
<1>10. CASE UNCHANGED vars
  BY <1>10 DEF vars, Shaped
<1> QED
  BY <1>1, <1>2, <1>3, <1>4, <1>5, <1>6, <1>7, <1>8, <1>9, <1>10 DEF Next, Step

\* Every step keeps Places.
LEMMA PlacesNext == AgreeInv /\ [Next]_vars => Places'
<1> SUFFICES ASSUME AgreeInv, [Next]_vars
             PROVE  Places'
  OBVIOUS
<1> USE DEF AgreeInv
<1>1. ASSUME SendSeed
      PROVE  Places'
  BY <1>1 DEF SendSeed, Shaped, Places, Goto, AfterCreate, Ends
<1>2. ASSUME ReceiveSeed
      PROVE  Places'
  <2>1. /\ UNCHANGED <<input, drawn, random_elements, code_generator_, entries>>
        /\ pc[0] # "seed" /\ pc' = [pc EXCEPT ![1] = AfterCreate]
        /\ AfterCreate \in {"elements", "refused"}
    BY <1>2 DEF ReceiveSeed, Goto, AfterCreate, Places
  <2>2. \A e \in Ends : pc'[e] = IF e = 1 THEN AfterCreate ELSE pc[e]
    BY <2>1 DEF Shaped
  <2>3. entries[1] = 0 /\ random_elements[1] = <<>>
    BY <1>2 DEF ReceiveSeed, Places, Ends
  <2>4. count' = count
    BY <2>1 DEF count
  <2> QED
    BY <2>1, <2>2, <2>3, <2>4 DEF Places, Ends
<1>3. ASSUME NEW e \in Ends, SampleElement(e)
      PROVE  Places'
  <2>1. /\ UNCHANGED <<input, channel, pc, code_generator_, entries>> /\ pc[e] = "elements"
        /\ \A o \in Ends \ {e} :
             random_elements'[o] = random_elements[o] /\ drawn'[o] = drawn[o]
    BY <1>3 DEF SampleElement, Shaped
  <2>2. count' = count
    BY <2>1 DEF count
  <2> QED
    BY <2>1, <2>2 DEF Places, Shaped
<1>4. ASSUME NEW e \in Ends, ElementsSampled(e)
      PROVE  Places'
  BY <1>4 DEF ElementsSampled, Shaped, Places, Goto, Ends, count
<1>5. ASSUME NEW e \in Ends, SampleRow(e)
      PROVE  Places'
  <2>1. /\ UNCHANGED <<input, channel, pc, random_elements>> /\ pc[e] = "rows"
        /\ \A o \in Ends \ {e} :
             /\ code_generator_'[o] = code_generator_[o] /\ drawn'[o] = drawn[o]
             /\ entries'[o] = entries[o]
    BY <1>5 DEF SampleRow, Shaped
  <2>2. count' = count
    BY <2>1 DEF count
  <2> QED
    BY <2>1, <2>2 DEF Places, Shaped
<1>6. ASSUME NEW e \in Ends, Filled(e)
      PROVE  Places'
  BY <1>6 DEF Filled, Shaped, Places, Goto, Ends, count
<1>7. ASSUME NEW e \in Ends, SampleIndex(e)
      PROVE  Places'
  BY <1>7 DEF SampleIndex, Shaped, Places, Ends, count
<1>8. ASSUME NEW e \in Ends, IndicesSampled(e)
      PROVE  Places'
  BY <1>8 DEF IndicesSampled, Shaped, Places, Goto, Ends, count
<1>9. ASSUME NEW e \in Ends, Throw(e)
      PROVE  Places'
  BY <1>9 DEF Throw, Shaped, Places, Goto, Ends, count
<1>10. CASE UNCHANGED vars
  BY <1>10 DEF vars, Places, count
<1> QED
  BY <1>1, <1>2, <1>3, <1>4, <1>5, <1>6, <1>7, <1>8, <1>9, <1>10 DEF Next, Step

\* SampleElement is the first kind of iteration of the trace.
LEMMA ElementOnTrace ==
  ASSUME AgreeInv, NEW e \in Ends, SampleElement(e)
  PROVE  SameTrace'
<1> USE DEF AgreeInv
<1>1. /\ pc[e] = "elements" /\ Len(random_elements[e]) < count
      /\ UNCHANGED <<input, highFirst, channel, pc, code_generator_, entries>>
      /\ rng' = [rng EXCEPT ![e] = AES!Next(AES!Next(rng[e]))]
      /\ random_elements' = [random_elements EXCEPT ![e] =
           Append(@, FromUint128(input.T,
             MakeUint128(e, Value(rng[e], AES!Result(rng[e])),
                            Value(AES!Next(rng[e]), AES!Result(AES!Next(rng[e]))))))]
  BY DEF SampleElement
<1>2. pc[0] # "seed"
  BY <1>1 DEF Places, Ends
<1>3. entries[e] # count
  <2>1. PICK S : random_elements[e] \in Seq(S)
    BY DEF Shaped
  <2>2. Len(random_elements[e]) \in Nat
    BY <2>1
  <2>3. count \in Nat
    BY NumEntriesType DEF count, NumEntries, Shaped
  <2> QED
    BY <1>1, <2>2, <2>3 DEF Places
<1>4. \A o \in Ends \ {e} :
        /\ rng'[o] = rng[o] /\ random_elements'[o] = random_elements[o]
        /\ code_generator_'[o] = code_generator_[o] /\ entries'[o] = entries[o]
  BY <1>1 DEF Shaped
<1>5. ASSUME NEW x, Stands(e, x)
      PROVE  LET y == Iteration(input, highFirst[e], x)
             IN  /\ y.elements = random_elements'[e]
                 /\ y.generator = code_generator_'[e]
                 /\ y.entries = entries'[e] /\ y.rng = rng'[e]
  <2>1. /\ x.elements = random_elements[e] /\ x.generator = code_generator_[e]
        /\ x.entries = entries[e] /\ x.rng = rng[e]
    BY <1>1, <1>5 DEF Stands
  <2>2. Iteration(input, highFirst[e], x) = WithElement(input, highFirst[e], x)
    BY <1>1, <2>1 DEF Iteration, NumEntries, count
  <2>3. \A a, b : MakeUint128(e, a, b) = Halves(highFirst[e], a, b)
    BY DEF MakeUint128, Halves
  <2>4. rng'[e] = AES!Next(AES!Next(rng[e]))
    BY <1>1 DEF Shaped
  <2>5. random_elements'[e] = Append(random_elements[e], FromUint128(input.T,
          Halves(highFirst[e], Value(rng[e], AES!Result(rng[e])),
                 Value(AES!Next(rng[e]), AES!Result(AES!Next(rng[e]))))))
    BY <1>1, <2>3 DEF Shaped
  <2> QED
    BY <1>1, <2>1, <2>2, <2>4, <2>5 DEF WithElement
<1> QED
  BY <1>1, <1>2, <1>3, <1>4, <1>5, TraceIteration

\* SampleRow, the second kind, whether the word is accepted or rejected.
LEMMA RowOnTrace ==
  ASSUME AgreeInv, NEW e \in Ends, SampleRow(e)
  PROVE  SameTrace'
<1> USE DEF AgreeInv
<1> DEFINE word == Value(rng[e], AES!Result(rng[e]))
           position == <<Dist(word, input.vole_seed_size),
                         entries[e] \div kCodeGeneratorNonzeros>>
           hit == Accepted(word, input.vole_seed_size)
           filled == [p \in DOMAIN code_generator_[e] \cup {position} |->
                        IF p = position THEN random_elements[e][entries[e] + 1]
                        ELSE code_generator_[e][p]]
<1>1. /\ pc[e] = "rows" /\ entries[e] < count
      /\ UNCHANGED <<input, highFirst, channel, pc, random_elements>>
      /\ rng' = [rng EXCEPT ![e] = AES!Next(@)]
      /\ IF hit
           THEN /\ code_generator_' = [code_generator_ EXCEPT ![e] = filled]
                /\ entries' = [entries EXCEPT ![e] = @ + 1]
           ELSE UNCHANGED <<code_generator_, entries>>
  BY DEF SampleRow
<1>2. pc[0] # "seed"
  BY <1>1 DEF Places, Ends
<1>3. entries[e] # count /\ ~(Len(random_elements[e]) < count)
  <2>1. count \in Nat
    BY NumEntriesType DEF count, NumEntries, Shaped
  <2> QED
    BY <1>1, <2>1 DEF Places, Shaped
<1>4. \A o \in Ends \ {e} :
        /\ rng'[o] = rng[o] /\ random_elements'[o] = random_elements[o]
        /\ code_generator_'[o] = code_generator_[o] /\ entries'[o] = entries[o]
  <2> HIDE DEF hit, filled
  <2> QED
    BY <1>1 DEF Shaped
<1>5. ASSUME NEW x, Stands(e, x)
      PROVE  LET y == Iteration(input, highFirst[e], x)
             IN  /\ y.elements = random_elements'[e]
                 /\ y.generator = code_generator_'[e]
                 /\ y.entries = entries'[e] /\ y.rng = rng'[e]
  <2>1. /\ x.elements = random_elements[e] /\ x.generator = code_generator_[e]
        /\ x.entries = entries[e] /\ x.rng = rng[e]
    BY <1>1, <1>5 DEF Stands
  <2>2. Iteration(input, highFirst[e], x) = WithRow(input, x)
    BY <1>3, <2>1 DEF Iteration, NumEntries, count
  <2>3. WithRow(input, x) =
          [rng |-> AES!Next(rng[e]), elements |-> random_elements[e],
           generator |-> IF hit THEN filled ELSE code_generator_[e],
           entries |-> IF hit THEN entries[e] + 1 ELSE entries[e]]
    BY <2>1 DEF WithRow
  <2> HIDE DEF hit, filled
  <2>4. /\ rng'[e] = AES!Next(rng[e]) /\ random_elements'[e] = random_elements[e]
        /\ code_generator_'[e] = IF hit THEN filled ELSE code_generator_[e]
        /\ entries'[e] = IF hit THEN entries[e] + 1 ELSE entries[e]
    BY <1>1 DEF Shaped
  <2> QED
    BY <2>2, <2>3, <2>4
<1> QED
  BY <1>1, <1>2, <1>3, <1>4, <1>5, TraceIteration

\* SendSeed begins a trace with the seed that the lower ID sends.
LEMMA SendOnTrace ==
  ASSUME AgreeInv, SendSeed
  PROVE  SameTrace'
<1> USE DEF AgreeInv
<1>1. PICK s \in Seeds : /\ channel' = <<s>>
                         /\ rng' = [rng EXCEPT ![0] = AES!Create(s, count)]
  BY DEF SendSeed
<1>2. UNCHANGED <<input, highFirst, random_elements, code_generator_, entries>>
  BY DEF SendSeed
<1>3. pc[0] = "seed" /\ pc[1] = "seed" /\ pc'[1] = "seed"
  BY DEF SendSeed, Goto, Shaped, Places, Ends
<1>4. PICK b : b = Begin(input, s)
  OBVIOUS
<1>5. PICK t : t = [i \in 1 .. 1 |-> b]
  OBVIOUS
<1>6. t[1] = b /\ Trace(input, highFirst[0], s, 1, t)
  BY <1>4, <1>5 DEF Trace
<1>7. Stands(0, b)'
  <2>1. random_elements[0] = <<>> /\ code_generator_[0] = <<>> /\ entries[0] = 0
    BY <1>3 DEF Places, Ends
  <2>2. rng'[0] = AES!Create(s, count)
    BY <1>1 DEF Shaped, Ends
  <2>3. /\ b.elements = <<>> /\ b.generator = <<>> /\ b.entries = 0
        /\ b.rng = AES!Create(s, count)
    BY <1>4 DEF Begin, NumEntries, count
  <2> QED
    BY <1>2, <2>1, <2>2, <2>3 DEF Stands
<1>8. \A o \in Ends : pc'[o] # "seed" => \E k \in 1 .. 1 : Stands(o, t[k])'
  <2>1. Stands(0, t[1])'
    BY <1>6, <1>7
  <2> QED
    BY <1>3, <2>1 DEF Ends
<1>9. /\ Trace(input, highFirst[0], s, 1, t)'
      /\ channel' = <<s>>
  BY <1>1, <1>2, <1>6
<1> QED
  BY <1>8, <1>9 DEF SameTrace

\* The seed that ReceiveSeed takes is the one the trace began with.
LEMMA ReceiveOnTrace ==
  ASSUME AgreeInv, ReceiveSeed
  PROVE  SameTrace'
<1> USE DEF AgreeInv
<1>1. UNCHANGED <<input, highFirst, random_elements, code_generator_, entries>>
  BY DEF ReceiveSeed
<1>2. pc[1] = "seed" /\ channel # <<>> /\ pc[0] # "seed" /\ pc'[0] = pc[0]
  BY DEF ReceiveSeed, Goto, Shaped, Places, Ends
<1>3. SUFFICES ASSUME highFirst[0] = highFirst[1]
               PROVE  \E s \in Seeds, n \in Nat \ {0} : \E t :
                        /\ Trace(input, highFirst[0], s, n, t)
                        /\ channel' = <<>> \/ channel' = <<s>>
                        /\ \A o \in Ends : pc'[o] # "seed" =>
                             \E k \in 1 .. n : Stands(o, t[k])'
  BY <1>1 DEF SameTrace
<1>4. PICK s \in Seeds, n \in Nat \ {0} : \E t :
        /\ Trace(input, highFirst[0], s, n, t)
        /\ channel = <<>> \/ channel = <<s>>
        /\ \A o \in Ends : pc[o] # "seed" => \E k \in 1 .. n : Stands(o, t[k])
  BY <1>2, <1>3 DEF SameTrace
<1>5. PICK t :
        /\ Trace(input, highFirst[0], s, n, t)
        /\ channel = <<>> \/ channel = <<s>>
        /\ \A o \in Ends : pc[o] # "seed" => \E k \in 1 .. n : Stands(o, t[k])
  BY <1>4
<1>6. channel' = <<>> /\ Head(channel) = s
  <2>1. channel = <<s>>
    BY <1>2, <1>5
  <2> QED
    BY <2>1, TailOne DEF ReceiveSeed
<1>7. Stands(1, t[1])'
  <2>1. random_elements[1] = <<>> /\ code_generator_[1] = <<>> /\ entries[1] = 0
    BY <1>2 DEF Places, Ends
  <2>2. rng'[1] = AES!Create(s, count)
    BY <1>6 DEF ReceiveSeed, Shaped, Ends
  <2>3. /\ t[1].elements = <<>> /\ t[1].generator = <<>> /\ t[1].entries = 0
        /\ t[1].rng = AES!Create(s, count)
    BY <1>5 DEF Trace, Begin, NumEntries, count
  <2> QED
    BY <1>1, <2>1, <2>2, <2>3 DEF Stands
<1>8. \E k \in 1 .. n : Stands(0, t[k])'
  <2>1. PICK k \in 1 .. n : Stands(0, t[k])
    BY <1>2, <1>5 DEF Ends
  <2>2. rng'[0] = rng[0]
    BY DEF ReceiveSeed, Shaped, Ends
  <2>3. Stands(0, t[k])'
    BY <1>1, <1>2, <2>1, <2>2 DEF Stands
  <2> QED
    BY <2>3
<1>9. 1 \in 1 .. n
  OBVIOUS
<1> QED
  BY <1>5, <1>6, <1>7, <1>8, <1>9 DEF Ends

\* The other steps leave both ends where they stand.
LEMMA OtherOnTrace ==
  ASSUME AgreeInv, NEW e \in Ends,
         \/ ElementsSampled(e) \/ Filled(e) \/ SampleIndex(e) \/ IndicesSampled(e)
         \/ Throw(e)
  PROVE  SameTrace'
<1> USE DEF AgreeInv
<1>1. UNCHANGED <<input, highFirst, channel, random_elements, code_generator_, entries>>
  BY DEF ElementsSampled, Filled, SampleIndex, IndicesSampled, Throw
<1>2. pc[e] # "seed" /\ pc[0] # "seed"
  <2>1. pc[e] # "seed"
    BY DEF ElementsSampled, Filled, SampleIndex, IndicesSampled, Throw
  <2> QED
    BY <2>1 DEF Places, Ends
<1>3. \A o \in Ends :
        /\ pc'[o] # "seed" => pc[o] # "seed"
        /\ pc'[o] \in {"elements", "rows"} =>
             pc[o] \in {"elements", "rows"} /\ rng'[o] = rng[o]
  <2>1. CASE ElementsSampled(e)
    BY <2>1 DEF ElementsSampled, Goto, Shaped
  <2>2. CASE Filled(e)
    BY <2>2 DEF Filled, Goto, Shaped
  <2>3. CASE SampleIndex(e)
    BY <2>3 DEF SampleIndex, Shaped
  <2>4. CASE IndicesSampled(e)
    BY <2>4 DEF IndicesSampled, Goto, Shaped
  <2>5. CASE Throw(e)
    BY <2>5 DEF Throw, Goto, Shaped
  <2> QED
    BY <2>1, <2>2, <2>3, <2>4, <2>5
<1> QED
  BY <1>1, <1>2, <1>3, TraceStays

\* Every step keeps both ends on one trace.
LEMMA SameTraceNext == AgreeInv /\ [Next]_vars => SameTrace'
<1> SUFFICES ASSUME AgreeInv, [Next]_vars
             PROVE  SameTrace'
  OBVIOUS
<1>1. CASE SendSeed
  BY <1>1, SendOnTrace
<1>2. CASE ReceiveSeed
  BY <1>2, ReceiveOnTrace
<1>3. ASSUME NEW e \in Ends, Step(e)
      PROVE  SameTrace'
  <2>1. CASE SampleElement(e)
    BY <2>1, ElementOnTrace
  <2>2. CASE SampleRow(e)
    BY <2>2, RowOnTrace
  <2>3. CASE \/ ElementsSampled(e) \/ Filled(e) \/ SampleIndex(e) \/ IndicesSampled(e)
             \/ Throw(e)
    BY <2>3, OtherOnTrace
  <2> QED
    BY <1>3, <2>1, <2>2, <2>3 DEF Step
<1>4. CASE UNCHANGED vars
  <2>1. \A e \in Ends : \A x : Stands(e, x)' <=> Stands(e, x)
    BY <1>4 DEF vars, Stands
  <2>2. UNCHANGED <<input, highFirst, channel, pc>>
    BY <1>4 DEF vars
  <2> QED
    BY <2>1, <2>2 DEF AgreeInv, SameTrace
<1> QED
  BY <1>1, <1>2, <1>3, <1>4 DEF Next

\* At all times both ends stand on one trace, if their builds agree.
THEOREM AgreeInvariance == Spec => []AgreeInv
<1>1. AgreeInv /\ [Next]_vars => AgreeInv'
  BY ShapedNext, PlacesNext, SameTraceNext DEF AgreeInv
<1> QED
  BY <1>1, AgreeInit, PTL DEF Spec

\* Both ends fill the same code generator from the seed of PrecomputeCommon, for
\* every seed, all that AES may return and every order of their steps.
THEOREM SameGenerator == Spec => []GeneratorsAgree
<1>1. AgreeInv => GeneratorsAgree
  <2>1. SUFFICES ASSUME AgreeInv, highFirst[0] = highFirst[1],
                        \A e \in Ends : entries[e] = count /\ pc[e] # "seed"
                 PROVE  code_generator_[0] = code_generator_[1]
    BY DEF GeneratorsAgree
  <2>2. PICK s \in Seeds, n \in Nat \ {0} : \E t :
          /\ Trace(input, highFirst[0], s, n, t)
          /\ \A e \in Ends : pc[e] # "seed" => \E k \in 1 .. n : Stands(e, t[k])
    BY <2>1 DEF AgreeInv, SameTrace, Ends
  <2>3. PICK t :
          /\ Trace(input, highFirst[0], s, n, t)
          /\ \A e \in Ends : pc[e] # "seed" => \E k \in 1 .. n : Stands(e, t[k])
    BY <2>2
  <2>4. Trace(input, highFirst[0], s, n, t)
    BY <2>3
  <2>5. ASSUME NEW e \in Ends
        PROVE  code_generator_[e] = t[n].generator
    <3>1. PICK k \in 1 .. n : Stands(e, t[k])
      BY <2>1, <2>3
    <3>2. t[k].entries = NumEntries(input)
      BY <2>1, <3>1 DEF Stands, NumEntries, count
    <3>3. k = n
      BY <2>4, <3>2, Complete
    <3> QED
      BY <3>1, <3>3 DEF Stands
  <2> QED
    BY <2>5 DEF Ends
<1> QED
  BY <1>1, AgreeInvariance, PTL

-----------------------------------------------------------------------------
(* The words that a generator hands out.                                   *)

Generator(g) ==
  /\ DOMAIN g = {"key", "nonce_", "counter_", "elements_used_", "buffer_"}
  /\ g.nonce_ \in 0 .. NumNonces - 1 /\ g.counter_ \in Nat
  /\ g.buffer_ \in Seq(AES!Word) /\ Len(g.buffer_) >= 2
  /\ g.elements_used_ \in 0 .. Len(g.buffer_)

\* The i-th word after a seed whose nonce is first.
WordAt(first, i) == <<(first + (i - 1) \div 2) % NumNonces, (i - 1) % 2>>

\* d are the words that g, with a buffer of even size, has handed out so far; the
\* buffer holds the words up to the last one that is encrypted.
Stream(first, g, d) ==
  /\ g.counter_ <= kReseedInterval
  /\ g.nonce_ = (first + g.counter_) % NumNonces
  /\ Len(d) = 2 * g.counter_ - Len(g.buffer_) + g.elements_used_
  /\ \A i \in 1 .. Len(d) : d[i] = WordAt(first, i)
  /\ g.counter_ > 0 =>
       \A j \in 1 .. Len(g.buffer_) :
         g.buffer_[j] = WordAt(first, 2 * g.counter_ - Len(g.buffer_) + j)

InStream(g, d) ==
  Len(g.buffer_) % 2 = 0 => \E first \in 0 .. NumNonces - 1 : Stream(first, g, d)

WordsInv ==
  \A e \in Ends :
    Generator(rng[e]) /\ drawn[e] \in Seq(AES!Word) /\ InStream(rng[e], drawn[e])

-----------------------------------------------------------------------------
\* Numbers below 2n, modulo n.
LEMMA Modulo ==
  ASSUME NEW n \in Nat \ {0}
  PROVE  /\ \A x \in 0 .. n - 1 : x % n = x
         /\ \A x \in n .. 2 * n - 1 : x % n = x - n
<1>1. \A x \in 0 .. n - 1 : x % n = x
  OBVIOUS
<1>2. ASSUME NEW x \in n .. 2 * n - 1
      PROVE  x % n = x - n
  <2>1. x = n * (x \div n) + (x % n) /\ (x % n) \in 0 .. n - 1 /\ (x \div n) \in Int
    OBVIOUS
  <2>2. PICK q \in Int, r \in 0 .. n - 1 : x = n * q + r /\ r = x % n
    BY <2>1
  <2>3. q = 1
    <3>1. ~(q <= 0)
      <4>1. q <= 0 => n * q <= 0
        OBVIOUS
      <4> QED
        BY <2>2, <4>1
    <3>2. ~(q >= 2)
      <4>1. q >= 2 => n * q >= 2 * n
        OBVIOUS
      <4> QED
        BY <2>2, <4>1
    <3> QED
      BY <3>1, <3>2
  <2> QED
    BY <2>2, <2>3
<1> QED
  BY <1>1, <1>2

\* The words up to the reseed interval are different: the nonces do not come round.
LEMMA WordsDiffer ==
  ASSUME NEW first \in 0 .. NumNonces - 1,
         NEW i \in 1 .. 2 * kReseedInterval, NEW j \in 1 .. 2 * kReseedInterval,
         WordAt(first, i) = WordAt(first, j)
  PROVE  i = j
<1> DEFINE a == (i - 1) \div 2
           b == (j - 1) \div 2
<1>1. a \in 0 .. kReseedInterval - 1 /\ b \in 0 .. kReseedInterval - 1
  BY CodeAssumption
<1>2. i - 1 = 2 * a + ((i - 1) % 2) /\ j - 1 = 2 * b + ((j - 1) % 2)
  OBVIOUS
<1>3. (first + a) % NumNonces = (first + b) % NumNonces /\ (i - 1) % 2 = (j - 1) % 2
  BY DEF WordAt
<1> HIDE DEF a, b
<1>4. a = b
  <2>1. NumNonces \in Nat \ {0} /\ kReseedInterval <= NumNonces
    BY CodeAssumption
  <2>2. PICK x \in first .. first + NumNonces - 1 : x = first + a
    <3>1. a \in 0 .. NumNonces - 1
      BY <1>1, <2>1, CodeAssumption
    <3>2. first + a \in first .. first + NumNonces - 1
      BY <2>1, <3>1
    <3> QED
      BY <3>2
  <2>3. PICK y \in first .. first + NumNonces - 1 : y = first + b
    <3>1. b \in 0 .. NumNonces - 1
      BY <1>1, <2>1, CodeAssumption
    <3>2. first + b \in first .. first + NumNonces - 1
      BY <2>1, <3>1
    <3> QED
      BY <3>2
  <2>4. x % NumNonces = y % NumNonces
    BY <1>3, <2>2, <2>3
  <2>5. ASSUME NEW z \in first .. first + NumNonces - 1
        PROVE  z % NumNonces = IF z < NumNonces THEN z ELSE z - NumNonces
    <3>1. CASE z < NumNonces
      <4>1. z \in 0 .. NumNonces - 1
        BY <2>1, <3>1
      <4> QED
        BY <2>1, <3>1, <4>1, Modulo
    <3>2. CASE ~(z < NumNonces)
      <4>1. z \in NumNonces .. 2 * NumNonces - 1
        BY <2>1, <3>2
      <4>2. z % NumNonces = z - NumNonces
        BY <2>1, <4>1, Modulo
      <4> QED
        BY <3>2, <4>2
    <3> QED
      BY <3>1, <3>2
  <2>6. PICK m, k : m = x % NumNonces /\ k = y % NumNonces
    OBVIOUS
  <2>7. /\ m = IF x < NumNonces THEN x ELSE x - NumNonces
        /\ k = IF y < NumNonces THEN y ELSE y - NumNonces
        /\ m = k
    BY <2>4, <2>5, <2>6
  <2>8. x = y
    BY <2>1, <2>7
  <2> QED
    BY <1>1, <2>2, <2>3, <2>8
<1> QED
  BY <1>2, <1>3, <1>4

\* A new generator has handed out nothing.
LEMMA CreateStream ==
  ASSUME NEW s, s.nonce \in 0 .. NumNonces - 1, NEW size \in Nat
  PROVE  LET g == AES!Create(s, size)
         IN  Generator(g) /\ InStream(g, <<>>)
<1> DEFINE n == AES!BufferSize(size)
           buffer == [i \in 1 .. n |-> AES!Blank]
           g == AES!Create(s, size)
<1>1. n \in Nat /\ n >= 2
  BY DEF AES!BufferSize
<1>2. buffer \in Seq(AES!Word) /\ Len(buffer) = n
  BY <1>1 DEF AES!Word
<1> HIDE DEF n, buffer
<1>3. g = [key |-> s.key, nonce_ |-> s.nonce, counter_ |-> 0,
           elements_used_ |-> Len(buffer), buffer_ |-> buffer]
  <2> DEFINE blank == [key |-> s.key, nonce_ |-> s.nonce, counter_ |-> 0,
                       elements_used_ |-> 0, buffer_ |-> buffer]
  <2>1. g = AES!seed(blank, s)
    BY DEF AES!Create, buffer, n
  <2>2. AES!seed(blank, s) = [blank EXCEPT !.key = s.key, !.nonce_ = s.nonce,
                                !.counter_ = 0, !.elements_used_ = Len(buffer)]
    BY DEF AES!seed
  <2> QED
    BY <2>1, <2>2
<1> HIDE DEF g
<1>4. Generator(g)
  BY <1>1, <1>2, <1>3 DEF Generator
<1>5. s.nonce = (s.nonce + 0) % NumNonces
  <2>1. s.nonce + 0 = s.nonce /\ NumNonces \in Nat \ {0}
    BY CodeAssumption
  <2>2. s.nonce % NumNonces = s.nonce
    BY <2>1, Modulo
  <2> QED
    BY <2>1, <2>2
<1>6. Stream(s.nonce, g, <<>>)
  BY <1>1, <1>2, <1>3, <1>5, CodeAssumption DEF Stream
<1> QED
  BY <1>4, <1>6 DEF InStream, g

\* The nonce after c blocks, and b more of them.
LEMMA AddNonces ==
  ASSUME NEW first \in 0 .. NumNonces - 1, NEW c \in Nat, NEW b \in Nat, c + b <= NumNonces
  PROVE  (((first + c) % NumNonces) + b) % NumNonces = (first + c + b) % NumNonces
<1>1. NumNonces \in Nat \ {0}
  BY CodeAssumption
<1>2. CASE first + c < NumNonces
  <2>1. PICK x \in 0 .. NumNonces - 1 : x = first + c
    BY <1>1, <1>2
  <2>2. x % NumNonces = x
    BY <1>1, <2>1, Modulo
  <2> QED
    BY <2>1, <2>2
<1>3. CASE first + c >= NumNonces
  <2>1. PICK x \in NumNonces .. 2 * NumNonces - 1 : x = first + c
    BY <1>1, <1>3
  <2>2. x % NumNonces = x - NumNonces
    BY <1>1, <2>1, Modulo
  <2>3. x - NumNonces + b \in 0 .. NumNonces - 1
    BY <1>1, <2>1
  <2>4. PICK y \in 0 .. NumNonces - 1 : y = x - NumNonces + b
    BY <2>3
  <2>5. PICK z \in NumNonces .. 2 * NumNonces - 1 : z = x + b
    BY <1>1, <2>1, <2>4
  <2>6. y % NumNonces = y /\ z % NumNonces = z - NumNonces
    BY <1>1, Modulo
  <2>7. y = z - NumNonces
    BY <1>1, <2>4, <2>5
  <2>8. y % NumNonces = z % NumNonces
    BY <2>6, <2>7
  <2>9. (first + c) % NumNonces = x - NumNonces /\ first + c + b = z
    BY <2>1, <2>2, <2>5
  <2> QED
    BY <2>4, <2>8, <2>9
<1> QED
  BY <1>2, <1>3, <1>1

\* Filling the buffer of a generator of which all words are used.
LEMMA RefillStream ==
  ASSUME NEW g, Generator(g), g.elements_used_ = Len(g.buffer_),
         AES!Refill(g).counter_ <= kReseedInterval,
         NEW d \in Seq(AES!Word), InStream(g, d)
  PROVE  LET r == AES!Refill(g)
         IN  /\ Generator(r) /\ r.elements_used_ = 0 /\ Len(r.buffer_) = Len(g.buffer_)
             /\ InStream(r, d)
<1>1. PICK n \in Nat : n = Len(g.buffer_) /\ n >= 2 /\ DOMAIN g.buffer_ = 1 .. n
  BY DEF Generator
<1>2. PICK b \in Nat : b = n \div 2 /\ 2 * b <= n /\ (n % 2 = 0 => n = 2 * b)
  OBVIOUS
<1>3. PICK filled :
        filled = [i \in 1 .. n |->
                    IF i <= 2 * b
                      THEN <<(g.nonce_ + (i - 1) \div 2) % NumNonces, (i - 1) % 2>>
                      ELSE g.buffer_[i]]
  OBVIOUS
<1> DEFINE r == AES!Refill(g)
<1>4. /\ DOMAIN r = {"key", "nonce_", "counter_", "elements_used_", "buffer_"}
      /\ r.buffer_ = filled /\ r.nonce_ = (g.nonce_ + b) % NumNonces
      /\ r.elements_used_ = 0 /\ r.counter_ = g.counter_ + b
  BY <1>1, <1>2, <1>3 DEF AES!Refill, AES!num_blocks, Generator
<1>5. r.counter_ <= kReseedInterval
  OBVIOUS
<1> HIDE DEF r
<1>6. filled \in Seq(AES!Word) /\ Len(filled) = n
  <2>1. ASSUME NEW i \in 1 .. n
        PROVE  filled[i] \in AES!Word
    <3>1. g.buffer_[i] \in AES!Word
      BY <1>1 DEF Generator
    <3>2. PICK h \in Nat, w \in {0, 1} : h = (i - 1) \div 2 /\ w = (i - 1) % 2
      OBVIOUS
    <3>3. ((g.nonce_ + h) % NumNonces) \in 0 .. NumNonces - 1
      BY CodeAssumption DEF Generator
    <3> QED
      BY <1>3, <3>1, <3>2, <3>3 DEF AES!Word
  <2>2. filled \in [1 .. n -> AES!Word]
    BY <1>3, <2>1
  <2> QED
    BY <2>2
<1>7. Generator(r)
  <2>1. ((g.nonce_ + b) % NumNonces) \in 0 .. NumNonces - 1
    BY CodeAssumption DEF Generator
  <2>2. g.counter_ + b \in Nat
    BY DEF Generator
  <2> QED
    BY <1>1, <1>4, <1>6, <2>1, <2>2 DEF Generator
<1>8. InStream(r, d)
  <2>1. SUFFICES ASSUME n % 2 = 0
                 PROVE  \E first \in 0 .. NumNonces - 1 : Stream(first, r, d)
    BY <1>4, <1>6 DEF InStream
  <2>2. PICK first \in 0 .. NumNonces - 1 : Stream(first, g, d)
    BY <1>1, <2>1 DEF InStream
  <2>3. n = 2 * b
    BY <1>2, <2>1
  <2>4. PICK c \in Nat : c = g.counter_
    BY DEF Generator
  <2>5. c + b <= kReseedInterval /\ r.counter_ = c + b
    BY <1>4, <1>5, <2>4
  <2>6. c + b <= NumNonces
    BY <2>5, CodeAssumption
  <2>7. g.nonce_ = (first + c) % NumNonces
    BY <2>2, <2>4 DEF Stream
  <2>8. r.nonce_ = (first + r.counter_) % NumNonces
    <3>1. (((first + c) % NumNonces) + b) % NumNonces = (first + c + b) % NumNonces
      BY <2>6, AddNonces
    <3>2. PICK k \in Nat : k = c + b
      OBVIOUS
    <3>3. first + c + b = first + k
      BY <3>2
    <3> QED
      BY <1>4, <2>5, <2>7, <3>1, <3>2, <3>3
  <2>9. Len(d) = 2 * r.counter_ - n + r.elements_used_
    <3>1. Len(d) = 2 * c - n + n
      BY <1>1, <2>2, <2>4 DEF Stream
    <3> QED
      BY <1>4, <2>3, <2>5, <3>1
  <2>10. ASSUME NEW j \in 1 .. n
         PROVE  r.buffer_[j] = WordAt(first, 2 * r.counter_ - n + j)
    <3>1. PICK h \in Nat, w \in {0, 1} : h = (j - 1) \div 2 /\ w = (j - 1) % 2
      OBVIOUS
    <3>2. h < b
      BY <2>3, <3>1
    <3>3. r.buffer_[j] = <<(g.nonce_ + h) % NumNonces, w>>
      BY <1>3, <1>4, <2>3, <3>1
    <3>4. c + h <= NumNonces
      BY <2>6, <3>2, CodeAssumption
    <3>5. (((first + c) % NumNonces) + h) % NumNonces = (first + c + h) % NumNonces
      BY <3>4, AddNonces
    <3>6. PICK i \in Nat : i = 2 * c + j /\ i = 2 * r.counter_ - n + j
      BY <2>3, <2>5
    <3>7. (i - 1) \div 2 = c + h /\ (i - 1) % 2 = w
      BY <3>1, <3>6
    <3>8. WordAt(first, i) = <<(first + (c + h)) % NumNonces, w>>
      BY <3>7 DEF WordAt
    <3>9. PICK k \in Nat : k = first + (c + h) /\ k = first + c + h
      OBVIOUS
    <3> QED
      BY <2>7, <3>3, <3>5, <3>6, <3>8, <3>9
  <2>11. Len(r.buffer_) = n
    BY <1>4, <1>6
  <2> QED
    BY <1>5, <2>8, <2>9, <2>10, <2>11, <2>2 DEF Stream
<1> QED
  BY <1>1, <1>4, <1>6, <1>7, <1>8 DEF r

\* A list with one more element.
LEMMA AppendedWord ==
  ASSUME NEW S, NEW d \in Seq(S), NEW x \in S
  PROVE  /\ Append(d, x) \in Seq(S) /\ Len(Append(d, x)) = Len(d) + 1
         /\ Append(d, x)[Len(d) + 1] = x
         /\ \A i \in 1 .. Len(d) : Append(d, x)[i] = d[i]
  BY AppendProperties

\* Taking the next word of a buffer.
LEMMA TakeStream ==
  ASSUME NEW g, Generator(g), g.elements_used_ < Len(g.buffer_),
         NEW d \in Seq(AES!Word), InStream(g, d)
  PROVE  LET word == g.buffer_[g.elements_used_ + 1]
             taken == [g EXCEPT !.elements_used_ = @ + 1]
         IN  word \in AES!Word /\ Generator(taken) /\ InStream(taken, Append(d, word))
<1>1. PICK u \in Nat, n \in Nat :
        u = g.elements_used_ /\ n = Len(g.buffer_) /\ u < n /\ n >= 2
  BY DEF Generator
<1>2. u + 1 \in 1 .. Len(g.buffer_)
  BY <1>1
<1>3. PICK word \in AES!Word : word = g.buffer_[u + 1]
  BY <1>2 DEF Generator
<1>4. PICK taken : taken = [g EXCEPT !.elements_used_ = u + 1]
  OBVIOUS
<1>5. /\ DOMAIN taken = DOMAIN g /\ taken.elements_used_ = u + 1
      /\ taken.nonce_ = g.nonce_ /\ taken.counter_ = g.counter_ /\ taken.buffer_ = g.buffer_
  BY <1>4 DEF Generator
<1>6. Generator(taken)
  BY <1>1, <1>5 DEF Generator
<1>7. InStream(taken, Append(d, word))
  <2>1. SUFFICES ASSUME NEW first \in 0 .. NumNonces - 1, Stream(first, g, d)
                 PROVE  Stream(first, taken, Append(d, word))
    BY <1>5 DEF InStream
  <2>2. PICK c \in Nat : c = g.counter_
    BY DEF Generator
  <2>3. PICK k \in Nat : k = Len(d) /\ k = 2 * c - n + u
    BY <1>1, <2>1, <2>2 DEF Stream
  <2>4. c > 0
    BY <1>1, <2>2, <2>3
  <2>5. word = WordAt(first, k + 1)
    <3>1. u + 1 \in 1 .. n
      BY <1>1
    <3>2. g.buffer_[u + 1] = WordAt(first, 2 * c - n + (u + 1))
      BY <1>1, <2>1, <2>2, <2>4, <3>1 DEF Stream
    <3>3. 2 * c - n + (u + 1) = k + 1
      BY <2>3
    <3> QED
      BY <1>3, <3>2, <3>3
  <2>6. PICK more \in Seq(AES!Word) : more = Append(d, word)
    BY <1>3, AppendedWord
  <2>7. /\ Len(more) = k + 1 /\ more[k + 1] = word
        /\ \A i \in 1 .. k : more[i] = d[i]
    <3>1. /\ Len(more) = Len(d) + 1 /\ more[Len(d) + 1] = word
          /\ \A i \in 1 .. Len(d) : more[i] = d[i]
      BY <1>3, <2>6, AppendedWord
    <3> QED
      BY <2>3, <3>1
  <2>8. \A i \in 1 .. Len(more) : more[i] = WordAt(first, i)
    <3> TAKE i \in 1 .. Len(more)
    <3>1. CASE i = k + 1
      BY <2>5, <2>7, <3>1
    <3>2. CASE i \in 1 .. k
      BY <2>1, <2>3, <2>7, <3>2 DEF Stream
    <3> QED
      BY <2>7, <3>1, <3>2
  <2>9. Len(more) = 2 * taken.counter_ - Len(taken.buffer_) + taken.elements_used_
    <3>1. /\ taken.counter_ = c /\ Len(taken.buffer_) = n /\ taken.elements_used_ = u + 1
          /\ Len(more) = k + 1
      BY <1>1, <1>5, <2>2, <2>7
    <3>2. k = 2 * c - n + u
      BY <2>3
    <3>3. k + 1 = 2 * c - n + (u + 1)
      <4>1. c \in Nat /\ k \in Nat /\ n \in Nat /\ u \in Nat
        BY <1>1, <2>2, <2>3
      <4> QED
        BY <3>2, <4>1
    <3> QED
      BY <3>1, <3>3
  <2> QED
    BY <1>5, <2>1, <2>6, <2>8, <2>9 DEF Stream
<1> QED
  BY <1>1, <1>3, <1>4, <1>6, <1>7

\* A call of a generator that does not throw.
LEMMA NextStream ==
  ASSUME NEW g, Generator(g), ~AES!Throws(g), NEW d \in Seq(AES!Word), InStream(g, d)
  PROVE  /\ AES!Result(g) \in AES!Word /\ Generator(AES!Next(g))
         /\ InStream(AES!Next(g), Append(d, AES!Result(g)))
<1>1. PICK r : r = AES!Ready(g)
  OBVIOUS
<1>2. Generator(r) /\ r.elements_used_ < Len(r.buffer_) /\ InStream(r, d)
  <2>1. CASE g.elements_used_ >= Len(g.buffer_)
    <3>1. g.elements_used_ = Len(g.buffer_)
      BY <2>1 DEF Generator
    <3>2. r = AES!Refill(g)
      BY <1>1, <2>1 DEF AES!Ready
    <3>3. PICK f : f = AES!Refill(g)
      OBVIOUS
    <3>4. f.counter_ <= kReseedInterval
      <4>1. ~(f.counter_ > kReseedInterval)
        BY <1>1, <2>1, <3>2, <3>3 DEF AES!Throws
      <4>2. f.counter_ \in Int
        <5>1. f.counter_ = g.counter_ + Len(g.buffer_) \div 2
          BY <3>3 DEF AES!Refill, AES!num_blocks, Generator
        <5> QED
          BY <5>1 DEF Generator
      <4> QED
        BY <4>1, <4>2, CodeAssumption
    <3>5. Generator(f) /\ f.elements_used_ = 0 /\ Len(f.buffer_) = Len(g.buffer_) /\ InStream(f, d)
      BY <3>1, <3>3, <3>4, RefillStream
    <3> QED
      BY <3>2, <3>3, <3>5 DEF Generator
  <2>2. CASE ~(g.elements_used_ >= Len(g.buffer_))
    BY <1>1, <2>2 DEF AES!Ready, Generator
  <2> QED
    BY <2>1, <2>2
<1>3. /\ AES!Result(g) = r.buffer_[r.elements_used_ + 1]
      /\ AES!Next(g) = [r EXCEPT !.elements_used_ = @ + 1]
  BY <1>1 DEF AES!Result, AES!Next
<1> QED
  BY <1>2, <1>3, TakeStream

-----------------------------------------------------------------------------
\* Nothing has been drawn from the generators before the first step.
LEMMA WordsInit == Init => WordsInv
<1> SUFFICES ASSUME Init, NEW e \in Ends
             PROVE  Generator(rng[e]) /\ drawn[e] \in Seq(AES!Word)
                    /\ InStream(rng[e], drawn[e])
  BY DEF WordsInv
<1>1. PICK s : s = [key |-> 0, nonce |-> 0]
  OBVIOUS
<1>2. s.nonce \in 0 .. NumNonces - 1
  BY <1>1, CodeAssumption
<1>3. rng[e] = AES!Create(s, 2) /\ drawn[e] = <<>>
  BY <1>1 DEF Init, NoRng
<1> QED
  BY <1>2, <1>3, CreateStream

\* Every step draws the next word, two of them, or starts with a new seed.
LEMMA WordsNext == AgreeInv /\ WordsInv /\ [Next]_vars => WordsInv'
<1> SUFFICES ASSUME AgreeInv, WordsInv, [Next]_vars
             PROVE  WordsInv'
  OBVIOUS
<1> DEFINE Same(o) == rng'[o] = rng[o] /\ drawn'[o] = drawn[o]
           Ok(g, d) == Generator(g) /\ d \in Seq(AES!Word) /\ InStream(g, d)
<1>0. SUFFICES ASSUME NEW e \in Ends
               PROVE  Same(e) \/ Ok(rng'[e], drawn'[e])
  BY DEF WordsInv
<1>1. Ok(rng[e], drawn[e])
  BY DEF WordsInv
<1>2. Shaped /\ Places
  BY DEF AgreeInv
<1>3. ASSUME NEW s \in Seeds, NEW n \in Nat
      PROVE  Ok(AES!Create(s, n), <<>>)
  <2>1. s.nonce \in 0 .. NumNonces - 1
    BY CodeAssumption
  <2> QED
    BY <2>1, CreateStream
<1>4. count \in Nat /\ input.num_noise \in Nat
  BY <1>2, NumEntriesType, CodeAssumption DEF count, NumEntries, Shaped
<1>5. CASE SendSeed
  <2>1. CASE e = 0
    <3>1. drawn'[e] = <<>>
      BY <1>2, <1>5, <2>1 DEF SendSeed, Places
    <3>2. \E s \in Seeds : rng'[e] = AES!Create(s, count)
      BY <1>2, <1>5, <2>1 DEF SendSeed, Shaped
    <3> HIDE DEF Ok
    <3> QED
      BY <1>3, <1>4, <3>1, <3>2
  <2>2. CASE e # 0
    BY <1>2, <1>5, <2>2 DEF SendSeed, Shaped
  <2> QED
    BY <2>1, <2>2
<1>6. CASE ReceiveSeed
  <2>1. CASE e = 1
    <3>1. drawn'[e] = <<>>
      BY <1>2, <1>6, <2>1 DEF ReceiveSeed, Places
    <3>2. PICK s \in Seeds : channel = <<s>>
      BY <1>2, <1>6 DEF ReceiveSeed, Shaped
    <3>3. rng'[e] = AES!Create(s, count)
      BY <1>2, <1>6, <2>1, <3>2 DEF ReceiveSeed, Shaped
    <3> HIDE DEF Ok
    <3> QED
      BY <1>3, <1>4, <3>1, <3>3
  <2>2. CASE e # 1
    BY <1>2, <1>6, <2>2 DEF ReceiveSeed, Shaped
  <2> QED
    BY <2>1, <2>2
<1>7. ASSUME NEW o \in Ends, SampleElement(o)
      PROVE  Same(e) \/ Ok(rng'[e], drawn'[e])
  <2>1. CASE e = o
    <3>1. PICK g, d : g = rng[e] /\ d = drawn[e]
      OBVIOUS
    <3>2. PICK one, word : one = AES!Next(g) /\ word = AES!Result(g)
      OBVIOUS
    <3>3. ~AES!Throws(g) /\ ~AES!Throws(one)
      BY <1>7, <2>1, <3>1, <3>2 DEF SampleElement
    <3>4. /\ word \in AES!Word /\ Generator(one) /\ Append(d, word) \in Seq(AES!Word)
          /\ InStream(one, Append(d, word))
      BY <1>1, <3>1, <3>2, <3>3, NextStream
    <3>5. PICK next : next = Append(d, word) /\ next \in Seq(AES!Word)
      BY <3>4
    <3>6. /\ AES!Result(one) \in AES!Word /\ Generator(AES!Next(one))
          /\ InStream(AES!Next(one), Append(next, AES!Result(one)))
      BY <3>3, <3>4, <3>5, NextStream
    <3>7. rng'[e] = AES!Next(one)
      BY <1>2, <1>7, <2>1, <3>1, <3>2 DEF SampleElement, Shaped
    <3>8. drawn'[e] = d \o <<word, AES!Result(one)>>
      BY <1>2, <1>7, <2>1, <3>1, <3>2 DEF SampleElement, Shaped
    <3>9. drawn'[e] = Append(next, AES!Result(one))
      <4>1. PICK w \in AES!Word : w = AES!Result(one)
        BY <3>6
      <4>2. d \o <<word, w>> = Append(Append(d, word), w)
        BY <1>1, <3>1, <3>4, <4>1
      <4> QED
        BY <3>5, <3>8, <4>1, <4>2
    <3> QED
      BY <3>5, <3>6, <3>7, <3>9
  <2>2. CASE e # o
    BY <1>2, <1>7, <2>2 DEF SampleElement, Shaped
  <2> QED
    BY <2>1, <2>2
<1>8. ASSUME NEW o \in Ends, SampleRow(o) \/ SampleIndex(o)
      PROVE  Same(e) \/ Ok(rng'[e], drawn'[e])
  <2>1. /\ ~AES!Throws(rng[o]) /\ rng' = [rng EXCEPT ![o] = AES!Next(@)]
        /\ drawn' = [drawn EXCEPT ![o] = Append(@, AES!Result(rng[o]))]
    BY <1>8 DEF SampleRow, SampleIndex
  <2>2. CASE e = o
    <3>1. PICK g, d : g = rng[e] /\ d = drawn[e]
      OBVIOUS
    <3>2. rng'[e] = AES!Next(g) /\ drawn'[e] = Append(d, AES!Result(g))
      BY <1>2, <2>1, <2>2, <3>1 DEF Shaped
    <3>3. /\ AES!Result(g) \in AES!Word /\ Generator(AES!Next(g))
          /\ InStream(AES!Next(g), Append(d, AES!Result(g)))
      BY <1>1, <2>1, <2>2, <3>1, NextStream
    <3>4. Append(d, AES!Result(g)) \in Seq(AES!Word)
      BY <1>1, <3>1, <3>3
    <3> QED
      BY <3>2, <3>3, <3>4
  <2>3. CASE e # o
    BY <1>2, <2>1, <2>3 DEF Shaped
  <2> QED
    BY <2>2, <2>3
<1>9. ASSUME NEW o \in Ends, Filled(o)
      PROVE  Same(e) \/ Ok(rng'[e], drawn'[e])
  <2>1. CASE e = o /\ e = sender
    <3>1. drawn'[e] = <<>>
      BY <1>2, <1>9, <2>1 DEF Filled, Shaped
    <3>2. \E s \in Seeds : rng'[e] = AES!Create(s, input.num_noise)
      BY <1>2, <1>9, <2>1 DEF Filled, Shaped
    <3> HIDE DEF Ok
    <3> QED
      BY <1>3, <1>4, <3>1, <3>2
  <2>2. CASE ~(e = o /\ e = sender)
    BY <1>2, <1>9, <2>2 DEF Filled, Shaped
  <2> QED
    BY <2>1, <2>2
<1>10. ASSUME NEW o \in Ends, ElementsSampled(o) \/ IndicesSampled(o) \/ Throw(o)
       PROVE  Same(e)
  BY <1>10 DEF ElementsSampled, IndicesSampled, Throw
<1>11. CASE UNCHANGED vars
  BY <1>11 DEF vars
<1> HIDE DEF Same, Ok
<1> QED
  BY <1>5, <1>6, <1>7, <1>8, <1>9, <1>10, <1>11 DEF Next, Step

\* Every generator has handed out the words after its seed's nonce, in order.
THEOREM WordsInvariance == Spec => []WordsInv
<1> QED
  BY AgreeInvariance, WordsInit, WordsNext, PTL DEF Spec

\* No word of a generator is used twice, and none that is not encrypted, as long as
\* the generators' buffers have an even size: the counter of
\* AESUniformBitGenerator stops it before its nonces come round.
THEOREM FreshWords == Spec => []WordsFresh
<1>1. WordsInv => WordsFresh
  <2>1. SUFFICES ASSUME WordsInv, NEW e \in Ends, Len(rng[e].buffer_) % 2 = 0
                 PROVE  /\ IsInjective(drawn[e])
                        /\ \A i \in DOMAIN drawn[e] : drawn[e][i] # AES!Blank
    BY DEF WordsFresh
  <2>2. PICK g, d : g = rng[e] /\ d = drawn[e]
    OBVIOUS
  <2>3. Generator(g) /\ d \in Seq(AES!Word)
    BY <2>1, <2>2 DEF WordsInv
  <2>4. PICK first \in 0 .. NumNonces - 1 : Stream(first, g, d)
    BY <2>1, <2>2 DEF WordsInv, InStream
  <2>5. Len(d) <= 2 * kReseedInterval
    <3>1. PICK c \in Nat, u \in Nat, n \in Nat :
            c = g.counter_ /\ u = g.elements_used_ /\ n = Len(g.buffer_) /\ u <= n
      BY <2>3 DEF Generator
    <3>2. Len(d) = 2 * c - n + u /\ c <= kReseedInterval
      BY <2>4, <3>1 DEF Stream
    <3>3. 2 * c - n + u <= 2 * kReseedInterval
      <4>1. kReseedInterval \in Nat /\ c <= kReseedInterval
        BY <3>2, CodeAssumption
      <4>2. c \in Nat /\ u \in Nat /\ n \in Nat /\ u <= n
        BY <3>1
      <4> QED
        BY <4>1, <4>2
    <3> QED
      BY <3>2, <3>3
  <2>6. PICK k \in Nat : k = Len(d) /\ DOMAIN d = 1 .. k
    BY <2>3
  <2>7. \A i \in 1 .. k : i \in 1 .. 2 * kReseedInterval /\ d[i] = WordAt(first, i)
    BY <2>4, <2>5, <2>6, CodeAssumption DEF Stream
  <2>8. IsInjective(d)
    <3>1. SUFFICES ASSUME NEW i \in 1 .. k, NEW j \in 1 .. k, d[i] = d[j]
                   PROVE  i = j
      BY <2>6 DEF IsInjective
    <3> QED
      BY <2>7, <3>1, WordsDiffer
  <2>9. \A i \in 1 .. k : d[i] # AES!Blank
    <3>1. \A x, y : <<x, y>> # <<>>
      OBVIOUS
    <3> QED
      BY <2>7, <3>1 DEF WordAt, AES!Blank
  <2> QED
    BY <2>2, <2>6, <2>8, <2>9
<1> QED
  BY <1>1, WordsInvariance, PTL

-----------------------------------------------------------------------------
(* The types of what the words are turned into.                            *)

Positions == (0 .. input.vole_seed_size - 1) \X (0 .. input.output_size - 1)

Seeded(g) == \E s \in Seeds : g.key = s.key

\* Generators use the key of a seed, and all that is sampled has its type.
Sampled ==
  /\ \A e \in Ends :
       /\ pc[e] # "seed" => Seeded(rng[e])
       /\ random_elements[e] \in Seq(Scalar(input.T))
       /\ \A p \in DOMAIN code_generator_[e] :
            p \in Positions /\ code_generator_[e][p] \in Scalar(input.T)
  /\ indices_set \subseteq 0 .. input.output_size - 1

\* The values of the words that AES makes of a seed fit into a half of a block.
HalfBlock == SUBSET (0 .. half - 1)

\* The registers have an even number of bits (half, of GF128).
LEMMA HalfOfBits == num_bits \in Nat /\ half \in Nat \ {0} /\ num_bits = 2 * half
<1>1. PICK i \in 1 .. 7 : num_bits = 2 ^ i
  BY FieldAssumption
<1>2. PICK j \in Nat : i = j + 1
  <2>1. i - 1 \in Nat /\ i = (i - 1) + 1
    OBVIOUS
  <2> QED
    BY <2>1
<1>3. PICK p : p = 2 ^ j
  OBVIOUS
<1>4. p \in Nat \ {0} /\ num_bits = 2 * p
  <2>1. p \in Nat /\ j + 1 <= p
    BY <1>3, TwoToNext, TwoToAbove
  <2>2. num_bits = 2 * p
    BY <1>1, <1>2, <1>3, TwoToNext
  <2> QED
    BY <2>1, <2>2
<1>5. half = p
  BY <1>4 DEF half
<1> QED
  BY <1>4, <1>5

\* The number that a block stands for (Number, of Scalars).
LEMMA NumberType ==
  ASSUME NEW b \in Block
  PROVE  Number(b) \in Nat
<1>1. PICK f : f = [k \in Bits |-> 2 ^ k]
  OBVIOUS
<1>2. IsFiniteSet(b) /\ \A k \in b : k \in Bits
  <2>1. IsFiniteSet(Bits)
    BY HalfOfBits, FS_Interval DEF Bits
  <2> QED
    BY <2>1, FS_Subset DEF Block
<1>3. \A k \in b : f[k] \in Nat
  <2>1. ASSUME NEW k \in b PROVE f[k] \in Nat
    <3>1. k \in Nat
      BY <1>2, HalfOfBits DEF Bits
    <3>2. 2 ^ k \in Nat
      BY <3>1, TwoToNext
    <3> QED
      BY <1>1, <1>2, <3>2
  <2> QED
    BY <2>1
<1>4. FoldFunctionOnSet(+, 0, f, b) \in Nat
  BY <1>2, <1>3, SumNat
<1> QED
  BY <1>1, <1>4 DEF Number

\* A signed type has as many negative values as others.
LEMMA SignedModulus ==
  ASSUME NEW t, IsScalarType(t), t.kind = "signed"
  PROVE  \E h \in Nat : t.modulus = 2 * h /\ t.modulus \div 2 = h
<1>1. /\ t.SizeOf \in Nat \ {0}
      /\ t \in {unsigned(t.SizeOf), signed(t.SizeOf), modular(t.modulus), gf128}
  BY DEF IsScalarType
<1>2. t = signed(t.SizeOf)
  <2>1. /\ unsigned(t.SizeOf).kind = "unsigned" /\ modular(t.modulus).kind = "modular"
        /\ gf128.kind = "gf128"
    BY DEF unsigned, modular, gf128, Type
  <2> QED
    BY <1>1, <2>1
<1>3. t.modulus = 2 ^ (ByteBits * t.SizeOf)
  <2>1. signed(t.SizeOf).modulus = 2 ^ (ByteBits * t.SizeOf)
    BY DEF signed, Type
  <2> QED
    BY <1>2, <2>1
<1>4. PICK a \in Nat \ {0}, s \in Nat \ {0} : a = ByteBits /\ s = t.SizeOf
  BY <1>1, ByteAssumption, HalfOfBits
<1>5. a * s \in Nat \ {0}
  OBVIOUS
<1>6. PICK j \in Nat : a * s = j + 1
  <2>1. a * s - 1 \in Nat /\ a * s = (a * s - 1) + 1
    BY <1>5
  <2> QED
    BY <2>1
<1>7. PICK p : p = 2 ^ j
  OBVIOUS
<1>8. p \in Nat /\ t.modulus = 2 * p
  <2>1. 2 ^ j \in Nat /\ 2 ^ (j + 1) = 2 * 2 ^ j
    BY TwoToNext
  <2> QED
    BY <1>3, <1>4, <1>6, <1>7, <2>1
<1>9. (2 * p) \div 2 = p
  BY <1>8
<1> QED
  BY <1>8, <1>9

\* A block is turned into a value of the type (FromUint128, of Scalars).
LEMMA FromUint128Type ==
  ASSUME NEW t, IsScalarType(t), NEW b \in Block
  PROVE  FromUint128(t, b) \in Scalar(t)
<1>1. CASE t.kind = "gf128"
  BY <1>1 DEF FromUint128, Scalar
<1>2. CASE t.kind # "gf128"
  <2>1. PICK m \in Nat \ {0, 1}, n \in Nat : m = t.modulus /\ n = Number(b)
    BY NumberType DEF IsScalarType
  <2>2. PICK r : r = n % m
    OBVIOUS
  <2>3. r \in 0 .. m - 1
    BY <2>1, <2>2
  <2>4. FromUint128(t, b) = IF t.kind = "signed" /\ 2 * r >= m THEN r - m ELSE r
    BY <1>2, <2>1, <2>2 DEF FromUint128, Wrap
  <2>5. CASE t.kind = "signed"
    <3>1. PICK h \in Nat : m = 2 * h /\ m \div 2 = h
      BY <2>1, <2>5, SignedModulus
    <3>2. Scalar(t) = -h .. h - 1
      BY <1>2, <2>1, <2>5, <3>1 DEF Scalar
    <3>3. CASE 2 * r >= m
      BY <2>3, <2>4, <2>5, <3>1, <3>2, <3>3
    <3>4. CASE ~ (2 * r >= m)
      BY <2>3, <2>4, <2>5, <3>1, <3>2, <3>4
    <3> QED
      BY <3>3, <3>4
  <2>6. CASE t.kind # "signed"
    BY <1>2, <2>1, <2>3, <2>4, <2>6 DEF Scalar
  <2> QED
    BY <2>5, <2>6
<1> QED
  BY <1>1, <1>2

\* What AES makes of a word, with the key of a seed (Value).
LEMMA ValueType ==
  ASSUME NEW g, Seeded(g), NEW word \in AES!Word
  PROVE  Value(g, word) \in HalfBlock
<1>1. CASE word = AES!Blank
  BY <1>1 DEF Value, HalfBlock
<1>2. CASE word # AES!Blank
  <2>1. PICK n \in 0 .. NumNonces - 1, h \in {0, 1} : word = <<n, h>>
    BY <1>2 DEF AES!Word
  <2>2. PICK s \in Seeds : g.key = s.key
    BY DEF Seeded
  <2>3. Encrypted[s.key][n][h + 1] \in SUBSET (0 .. half - 1)
    <3>1. h + 1 \in {1, 2}
      OBVIOUS
    <3> QED
      BY <3>1, CodeAssumption
  <2>4. Value(g, word) = Encrypted[s.key][n][h + 1]
    BY <1>2, <2>1, <2>2 DEF Value
  <2> QED
    BY <2>3, <2>4 DEF HalfBlock
<1> QED
  BY <1>1, <1>2

\* Two words are the halves of a block, in either order (MakeUint128).
LEMMA MakeType ==
  ASSUME NEW e \in Ends, NEW first \in HalfBlock, NEW second \in HalfBlock
  PROVE  MakeUint128(e, first, second) \in Block
<1>1. PICK h \in Nat \ {0}, m \in Nat : h = half /\ m = num_bits /\ m = 2 * h
  BY HalfOfBits
<1>2. \A u \in HalfBlock, v \in HalfBlock : {k + half : k \in u} \cup v \in Block
  <2>1. ASSUME NEW u \in HalfBlock, NEW v \in HalfBlock, NEW i \in {k + half : k \in u} \cup v
        PROVE  i \in 0 .. m - 1
    <3>1. u \in SUBSET (0 .. h - 1) /\ v \in SUBSET (0 .. h - 1)
      BY <1>1 DEF HalfBlock
    <3>2. CASE i \in v
      BY <1>1, <3>1, <3>2
    <3>3. CASE i \in {k + half : k \in u}
      <4>1. PICK k \in 0 .. h - 1 : i = k + h
        BY <1>1, <3>1, <3>3
      <4> QED
        BY <1>1, <4>1
    <3> QED
      BY <2>1, <3>2, <3>3
  <2> QED
    BY <1>1, <2>1 DEF Block, Bits
<1> QED
  BY <1>2 DEF MakeUint128

\* The distribution gives a number below n (Dist).
LEMMA DistType ==
  ASSUME NEW word \in HalfBlock, NEW n \in Nat \ {0}
  PROVE  Dist(word, n) \in 0 .. n - 1
<1>1. word \in Block
  BY HalfOfBits DEF HalfBlock, Block, Bits
<1>2. PICK k \in Nat : k = Number(word)
  BY <1>1, NumberType
<1>3. k % n \in 0 .. n - 1
  OBVIOUS
<1> QED
  BY <1>2, <1>3 DEF Dist

\* A generator keeps the key of its seed.
LEMMA KeyKept ==
  ASSUME NEW g, Generator(g), Seeded(g)
  PROVE  Seeded(AES!Next(g))
<1>1. AES!Next(g).key = g.key
  BY DEF AES!Next, AES!Ready, AES!Refill, Generator
<1> QED
  BY <1>1 DEF Seeded

\* A new generator has the key of the seed.
LEMMA KeyCreated ==
  ASSUME NEW s \in Seeds, NEW n
  PROVE  Seeded(AES!Create(s, n))
<1>1. AES!Create(s, n).key = s.key
  BY DEF AES!Create, AES!seed
<1> QED
  BY <1>1 DEF Seeded

\* What is sampled has its type in the beginning.
LEMMA SampledInit == Init => Sampled
BY DEF Init, Sampled, Ends

\* Every step samples values of the right types.
LEMMA SampledNext == AgreeInv /\ WordsInv /\ Sampled /\ [Next]_vars => Sampled'
<1> SUFFICES ASSUME AgreeInv, WordsInv, Sampled, [Next]_vars
             PROVE  Sampled'
  OBVIOUS
<1>1. Shaped /\ Places
  BY DEF AgreeInv
<1>2. /\ IsScalarType(input.T) /\ input.num_noise \in Nat
      /\ input.output_size \in Nat \ {0} /\ input.vole_seed_size \in Nat \ {0}
      /\ count \in Nat
  BY <1>1, CodeAssumption, NumEntriesType DEF Shaped, count, NumEntries
<1>3. \A e \in Ends : Generator(rng[e]) /\ drawn[e] \in Seq(AES!Word) /\ InStream(rng[e], drawn[e])
  BY DEF WordsInv
<1>4. ASSUME NEW e \in Ends, pc[e] # "seed", ~AES!Throws(rng[e])
      PROVE  /\ Value(rng[e], AES!Result(rng[e])) \in HalfBlock
             /\ Generator(AES!Next(rng[e])) /\ Seeded(AES!Next(rng[e]))
             /\ AES!Result(rng[e]) \in AES!Word
             /\ InStream(AES!Next(rng[e]), Append(drawn[e], AES!Result(rng[e])))
             /\ Append(drawn[e], AES!Result(rng[e])) \in Seq(AES!Word)
  <2>1. Seeded(rng[e])
    BY <1>4 DEF Sampled
  <2>2. PICK g, d : g = rng[e] /\ d = drawn[e] /\ Generator(g) /\ d \in Seq(AES!Word) /\ InStream(g, d)
    BY <1>3
  <2>3. /\ AES!Result(g) \in AES!Word /\ Generator(AES!Next(g))
        /\ InStream(AES!Next(g), Append(d, AES!Result(g)))
    BY <1>4, <2>2, NextStream
  <2>4. Value(g, AES!Result(g)) \in HalfBlock /\ Seeded(AES!Next(g))
    BY <2>1, <2>2, <2>3, ValueType, KeyKept
  <2>5. Append(d, AES!Result(g)) \in Seq(AES!Word)
    BY <2>2, <2>3
  <2> QED
    BY <2>2, <2>3, <2>4, <2>5
<1>5. CASE SendSeed
  <2>1. /\ UNCHANGED <<input, random_elements, code_generator_, indices_set>>
        /\ \A e \in Ends \ {0} : rng'[e] = rng[e] /\ pc'[e] = pc[e]
    BY <1>1, <1>5 DEF SendSeed, Goto, Shaped
  <2>2. Seeded(rng'[0])
    <3>1. PICK s \in Seeds : rng' = [rng EXCEPT ![0] = AES!Create(s, count)]
      BY <1>5 DEF SendSeed
    <3>2. rng'[0] = AES!Create(s, count)
      BY <1>1, <3>1 DEF Shaped, Ends
    <3> QED
      BY <3>2, KeyCreated
  <2> QED
    BY <2>1, <2>2 DEF Sampled, Positions
<1>6. CASE ReceiveSeed
  <2>1. /\ UNCHANGED <<input, random_elements, code_generator_, indices_set>>
        /\ \A e \in Ends \ {1} : rng'[e] = rng[e] /\ pc'[e] = pc[e]
    BY <1>1, <1>6 DEF ReceiveSeed, Goto, Shaped
  <2>2. Seeded(rng'[1])
    <3>1. PICK s \in Seeds : channel = <<s>>
      BY <1>1, <1>6 DEF ReceiveSeed, Shaped
    <3>2. rng'[1] = AES!Create(s, count)
      BY <1>1, <1>6, <3>1 DEF ReceiveSeed, Shaped, Ends
    <3> QED
      BY <3>2, KeyCreated
  <2> QED
    BY <2>1, <2>2 DEF Sampled, Positions
<1>7. ASSUME NEW e \in Ends, SampleElement(e)
      PROVE  Sampled'
  <2>1. PICK one : one = AES!Next(rng[e])
    OBVIOUS
  <2>2. pc[e] # "seed" /\ ~AES!Throws(rng[e]) /\ ~AES!Throws(one)
    BY <1>7, <2>1 DEF SampleElement
  <2>3. PICK value1 \in HalfBlock : value1 = Value(rng[e], AES!Result(rng[e]))
    BY <1>4, <2>2
  <2>4. PICK next : next = Append(drawn[e], AES!Result(rng[e])) /\ next \in Seq(AES!Word)
    BY <1>4, <2>2
  <2>5. Generator(one) /\ Seeded(one) /\ InStream(one, next)
    BY <1>4, <2>1, <2>2, <2>4
  <2>6. AES!Result(one) \in AES!Word /\ Generator(AES!Next(one))
    BY <2>2, <2>4, <2>5, NextStream
  <2>7. PICK value2 \in HalfBlock : value2 = Value(one, AES!Result(one))
    BY <2>5, <2>6, ValueType
  <2>8. PICK x \in Scalar(input.T) : x = FromUint128(input.T, MakeUint128(e, value1, value2))
    BY <1>2, MakeType, FromUint128Type
  <2>9. /\ random_elements' = [random_elements EXCEPT ![e] = Append(@, x)]
        /\ rng' = [rng EXCEPT ![e] = AES!Next(one)]
        /\ UNCHANGED <<input, pc, code_generator_, indices_set>>
    BY <1>7, <2>1, <2>3, <2>7, <2>8 DEF SampleElement
  <2>10. Seeded(rng'[e])
    BY <1>1, <2>5, <2>9, KeyKept DEF Shaped
  <2>11. random_elements'[e] \in Seq(Scalar(input.T))
    <3>1. PICK v \in Seq(Scalar(input.T)) : v = random_elements[e]
      BY DEF Sampled
    <3>2. random_elements'[e] = Append(v, x)
      BY <1>1, <2>9, <3>1 DEF Shaped
    <3> QED
      BY <3>2
  <2>12. \A o \in Ends \ {e} : rng'[o] = rng[o] /\ random_elements'[o] = random_elements[o]
    BY <1>1, <2>9 DEF Shaped
  <2> QED
    BY <2>9, <2>10, <2>11, <2>12 DEF Sampled, Positions
<1>8. ASSUME NEW e \in Ends, SampleRow(e)
      PROVE  Sampled'
  <2>1. PICK n : n = entries[e]
    OBVIOUS
  <2>2. /\ pc[e] = "rows" /\ n < count /\ ~AES!Throws(rng[e]) /\ n \in Nat
        /\ rng' = [rng EXCEPT ![e] = AES!Next(@)]
        /\ UNCHANGED <<input, pc, random_elements, indices_set>>
    BY <1>1, <1>8, <2>1 DEF SampleRow, Shaped
  <2>3. PICK word \in HalfBlock : word = Value(rng[e], AES!Result(rng[e]))
    BY <1>4, <2>2
  <2>4. PICK position, element, filled :
          /\ position = <<Dist(word, input.vole_seed_size), n \div kCodeGeneratorNonzeros>>
          /\ element = random_elements[e][n + 1] /\ filled = code_generator_[e]
    OBVIOUS
  <2>5. \/ code_generator_' = code_generator_
        \/ code_generator_' = [code_generator_ EXCEPT ![e] =
             [p \in DOMAIN filled \cup {position} |->
                IF p = position THEN element ELSE filled[p]]]
    BY <1>8, <2>1, <2>3, <2>4 DEF SampleRow
  <2>6. position \in Positions
    <3>1. Dist(word, input.vole_seed_size) \in 0 .. input.vole_seed_size - 1
      BY <1>2, DistType
    <3>2. n \div kCodeGeneratorNonzeros \in 0 .. input.output_size - 1
      <4>1. PICK k \in Nat \ {0}, size \in Nat, q \in Nat :
              k = kCodeGeneratorNonzeros /\ size = input.output_size /\ q = n \div k
        BY <1>2, <2>2, CodeAssumption, Quotient
      <4>2. k * q <= n /\ n < k * size
        <5>1. n < k * size
          BY <2>2, <4>1 DEF count
        <5>2. k * q <= n
          BY <2>2, <4>1, Quotient
        <5> QED
          BY <5>1, <5>2
      <4>3. q < size
        <5> SUFFICES ASSUME size <= q PROVE FALSE
          BY <4>1
        <5>1. k * size <= k * q
          BY <4>1
        <5>2. k * size \in Nat /\ k * q \in Nat
          BY <4>1
        <5> QED
          BY <2>2, <4>2, <5>1, <5>2
      <4> QED
        BY <4>1, <4>3
    <3> QED
      BY <2>4, <3>1, <3>2 DEF Positions
  <2>7. element \in Scalar(input.T)
    <3>1. PICK v \in Seq(Scalar(input.T)) : v = random_elements[e] /\ Len(v) = count
      BY <1>1, <2>2 DEF Sampled, Places
    <3>2. n + 1 \in 1 .. Len(v)
      BY <1>2, <2>2, <3>1
    <3> QED
      BY <2>4, <3>1, <3>2
  <2>8. \A p \in DOMAIN filled : p \in Positions /\ filled[p] \in Scalar(input.T)
    BY <2>4 DEF Sampled
  <2>9. \A p \in DOMAIN code_generator_'[e] :
          p \in Positions /\ code_generator_'[e][p] \in Scalar(input.T)
    <3>1. CASE code_generator_' = code_generator_
      BY <2>4, <2>8, <3>1
    <3>2. CASE code_generator_' = [code_generator_ EXCEPT ![e] =
                 [p \in DOMAIN filled \cup {position} |->
                    IF p = position THEN element ELSE filled[p]]]
      <4>1. code_generator_'[e] = [p \in DOMAIN filled \cup {position} |->
                                     IF p = position THEN element ELSE filled[p]]
        BY <1>1, <3>2 DEF Shaped
      <4> QED
        BY <2>6, <2>7, <2>8, <4>1
    <3> QED
      BY <2>5, <3>1, <3>2
  <2>10. \A o \in Ends \ {e} : rng'[o] = rng[o] /\ code_generator_'[o] = code_generator_[o]
    BY <1>1, <2>2, <2>5 DEF Shaped
  <2>11. Seeded(rng'[e])
    <3>1. rng'[e] = AES!Next(rng[e])
      BY <1>1, <2>2 DEF Shaped
    <3> QED
      BY <1>4, <2>2, <3>1
  <2> QED
    BY <2>2, <2>9, <2>10, <2>11 DEF Sampled, Positions
<1>9. ASSUME NEW e \in Ends, Filled(e)
      PROVE  Sampled'
  <2>1. /\ UNCHANGED <<input, random_elements, code_generator_, indices_set>>
        /\ pc[e] = "rows" /\ \A o \in Ends \ {e} : rng'[o] = rng[o] /\ pc'[o] = pc[o]
    BY <1>1, <1>9 DEF Filled, Goto, Shaped
  <2>2. Seeded(rng'[e])
    <3>1. CASE e = sender
      <4>1. PICK s \in Seeds : rng' = [rng EXCEPT ![e] = AES!Create(s, input.num_noise)]
        BY <1>9, <3>1 DEF Filled
      <4>2. rng'[e] = AES!Create(s, input.num_noise)
        BY <1>1, <4>1 DEF Shaped
      <4> QED
        BY <4>2, KeyCreated
    <3>2. CASE e # sender
      BY <1>9, <2>1, <3>2 DEF Filled, Sampled
    <3> QED
      BY <3>1, <3>2
  <2> QED
    BY <2>1, <2>2 DEF Sampled, Positions
<1>10. ASSUME NEW e \in Ends, SampleIndex(e)
       PROVE  Sampled'
  <2>1. /\ pc[e] = "indices" /\ ~AES!Throws(rng[e])
        /\ rng' = [rng EXCEPT ![e] = AES!Next(@)]
        /\ UNCHANGED <<input, pc, random_elements, code_generator_>>
    BY <1>10 DEF SampleIndex
  <2>2. PICK word \in HalfBlock : word = Value(rng[e], AES!Result(rng[e]))
    BY <1>4, <2>1
  <2>3. Dist(word, input.output_size) \in 0 .. input.output_size - 1
    BY <1>2, DistType
  <2>4. indices_set' \subseteq indices_set \cup {Dist(word, input.output_size)}
    BY <1>10, <2>2 DEF SampleIndex
  <2>5. indices_set' \subseteq 0 .. input.output_size - 1
    BY <2>3, <2>4 DEF Sampled
  <2>6. \A o \in Ends \ {e} : rng'[o] = rng[o]
    BY <1>1, <2>1 DEF Shaped
  <2>7. Seeded(rng'[e])
    <3>1. rng'[e] = AES!Next(rng[e])
      BY <1>1, <2>1 DEF Shaped
    <3> QED
      BY <1>4, <2>1, <3>1
  <2> QED
    BY <2>1, <2>5, <2>6, <2>7 DEF Sampled, Positions
<1>11. ASSUME NEW e \in Ends, ElementsSampled(e) \/ IndicesSampled(e) \/ Throw(e)
       PROVE  Sampled'
  <2>1. UNCHANGED <<input, rng, random_elements, code_generator_, indices_set>>
    BY <1>11 DEF ElementsSampled, IndicesSampled, Throw
  <2>2. pc[e] # "seed" /\ \A o \in Ends \ {e} : pc'[o] = pc[o]
    BY <1>1, <1>11 DEF ElementsSampled, IndicesSampled, Throw, Goto, Shaped
  <2> QED
    BY <2>1, <2>2 DEF Sampled, Positions
<1>12. CASE UNCHANGED vars
  BY <1>12 DEF vars, Sampled, Positions
<1> QED
  BY <1>5, <1>6, <1>7, <1>8, <1>9, <1>10, <1>11, <1>12 DEF Next, Step

\* All that the two ends draw and fill has its type: in particular each element of the
\* code generator is one of the protocol's type, at a row and a column of the matrix
\* (coeffRef of PrecomputeCommon), and each noise index is a position of the output.
THEOREM TypeCorrect == Spec => []TypeOK
<1>1. Spec => []Sampled
  BY AgreeInvariance, WordsInvariance, SampledInit, SampledNext, PTL DEF Spec
<1>2. AgreeInv /\ WordsInv /\ Sampled => TypeOK
  BY DEF AgreeInv, Shaped, Labels, WordsInv, Generator, Sampled, Positions, TypeOK
<1> QED
  BY <1>1, <1>2, AgreeInvariance, WordsInvariance, PTL

=============================================================================
