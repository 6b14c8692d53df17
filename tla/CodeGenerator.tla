---------------------------- MODULE CodeGenerator ----------------------------
(***************************************************************************)
(* How both ends fill the same code generator from one seed, and how the   *)
(* Sender then samples its noise indices (PrecomputeCommon and the first   *)
(* loop of ExpandSender in src/distributed_vector_ole/                     *)
(* distributed_vector_ole.h).  The ends share nothing but the message with *)
(* the seed, so each step is one iteration of a loop of one end.           *)
(***************************************************************************)
EXTENDS Scalars

CONSTANTS
  Inputs,                  \* records [T, output_size, vole_seed_size, num_noise]
  Seeds,                   \* records [key, nonce]: what RAND_bytes may return
  Encrypted,               \* what AES makes of a key and a word's name: a set of bits
  kCodeGeneratorNonzeros,  \* 10 in the code
  statistical_security_,
  NumNonces, kReseedInterval

ASSUME CodeAssumption ==
  /\ kCodeGeneratorNonzeros \in Nat \ {0} /\ statistical_security_ \in Nat
  /\ NumNonces \in Nat \ {0} /\ kReseedInterval \in 0 .. NumNonces  \* 2^48 of 2^128
  /\ \A i \in Inputs : /\ IsScalarType(i.T) /\ i.num_noise \in Nat
                       /\ i.output_size \in Nat \ {0} /\ i.vole_seed_size \in Nat \ {0}
  /\ \A s \in Seeds :
       /\ s.nonce \in 0 .. NumNonces - 1
       /\ \A n \in 0 .. NumNonces - 1, h \in {1, 2} :
            Encrypted[s.key][n][h] \in SUBSET (0 .. half - 1)

VARIABLES
  input,            \* what both ends know before: the type and the sizes
  sender,           \* the end that will expand as Sender
  highFirst,        \* of each end: which of the two rng() calls its build makes first
  channel,          \* the seed on its way from the lower ID to the higher
  pc,
  rng,              \* of each end, a record as in AESUniformBitGenerator
  drawn,            \* the words that an end has drawn from its current rng
  random_elements,
  code_generator_,  \* of each end: a function from <<row, col>> to elements
  entries,          \* how many elements have got a position
  indices_set

vars == <<input, sender, highFirst, channel, pc, rng, drawn, random_elements,
          code_generator_, entries, indices_set>>

AES == INSTANCE AESUniformBitGenerator
Ends == {0, 1}  \* by channel ID

count == kCodeGeneratorNonzeros * input.output_size
NoRng == AES!Create([key |-> 0, nonce |-> 0], 2)

Init ==
  /\ input \in Inputs /\ sender \in Ends /\ highFirst \in [Ends -> BOOLEAN]
  /\ channel = <<>>
  /\ pc = [e \in Ends |-> "seed"]
  /\ rng = [e \in Ends |-> NoRng]
  /\ drawn = [e \in Ends |-> <<>>]
  /\ random_elements = [e \in Ends |-> <<>>]
  /\ code_generator_ = [e \in Ends |-> <<>>]
  /\ entries = [e \in Ends |-> 0]
  /\ indices_set = {}

Goto(e, label) == pc' = [pc EXCEPT ![e] = label]

EnoughBits == CanBeHashedInto(input.T, count, statistical_security_, num_bits)
AfterCreate == IF EnoughBits THEN "elements" ELSE "refused"

SendSeed ==
  /\ pc[0] = "seed"
  /\ \E s \in Seeds :
       /\ channel' = <<s>>
       /\ rng' = [rng EXCEPT ![0] = AES!Create(s, count)]
  /\ Goto(0, AfterCreate)
  /\ UNCHANGED <<input, sender, highFirst, drawn, random_elements, code_generator_,
                 entries, indices_set>>

ReceiveSeed ==
  /\ pc[1] = "seed" /\ channel # <<>>
  /\ rng' = [rng EXCEPT ![1] = AES!Create(Head(channel), count)]
  /\ channel' = Tail(channel)
  /\ Goto(1, AfterCreate)
  /\ UNCHANGED <<input, sender, highFirst, drawn, random_elements, code_generator_,
                 entries, indices_set>>

-----------------------------------------------------------------------------
Value(g, word) ==
  IF word = AES!Blank THEN {} ELSE Encrypted[g.key][word[1]][word[2] + 1]

\* MakeUint128(rng(), rng()).
MutByBuild(e, first, second) ==  \* mutant: the higher ID takes them the other way
  IF highFirst[e] = (e = 0)
    THEN {k + half : k \in first} \cup second ELSE {k + half : k \in second} \cup first
MakeUint128(e, first, second) ==
  IF highFirst[e]
    THEN {k + half : k \in first} \cup second ELSE {k + half : k \in second} \cup first

SampleElement(e) ==
  LET one == AES!Next(rng[e])
      value1 == Value(rng[e], AES!Result(rng[e]))
      value2 == Value(one, AES!Result(one))
  IN  /\ pc[e] = "elements" /\ Len(random_elements[e]) < count
      /\ ~AES!Throws(rng[e]) /\ ~AES!Throws(one)
      /\ rng' = [rng EXCEPT ![e] = AES!Next(one)]
      /\ drawn' = [drawn EXCEPT ![e] = @ \o <<AES!Result(rng[e]), AES!Result(one)>>]
      /\ random_elements' = [random_elements EXCEPT ![e] =
           Append(@, FromUint128(input.T, MakeUint128(e, value1, value2)))]
      /\ UNCHANGED <<input, sender, highFirst, channel, pc, code_generator_, entries,
                     indices_set>>

ElementsSampled(e) ==
  /\ pc[e] = "elements" /\ Len(random_elements[e]) = count
  /\ Goto(e, "rows")
  /\ UNCHANGED <<input, sender, highFirst, channel, rng, drawn, random_elements,
                 code_generator_, entries, indices_set>>

\* std::uniform_int_distribution(0, n - 1): a word that would favour small numbers
\* is rejected and another one is drawn.
Accepted(word, n) == Number(word) < ((2 ^ half) \div n) * n
MutInclusive(word, n) == Number(word) % (n + 1)  \* mutant: from 0 to n
Dist(word, n) == Number(word) % n

\* coeffRef: a position that is hit again gets the new element.
SampleRow(e) ==
  LET word == Value(rng[e], AES!Result(rng[e]))
      position == <<Dist(word, input.vole_seed_size),
                    entries[e] \div kCodeGeneratorNonzeros>>
      element == random_elements[e][entries[e] + 1]
      filled == code_generator_[e]
  IN  /\ pc[e] = "rows" /\ entries[e] < count /\ ~AES!Throws(rng[e])
      /\ rng' = [rng EXCEPT ![e] = AES!Next(@)]
      /\ drawn' = [drawn EXCEPT ![e] = Append(@, AES!Result(rng[e]))]
      /\ IF Accepted(word, input.vole_seed_size)
           THEN /\ code_generator_' = [code_generator_ EXCEPT ![e] =
                     [p \in DOMAIN filled \cup {position} |->
                        IF p = position THEN element ELSE filled[p]]]
                /\ entries' = [entries EXCEPT ![e] = @ + 1]
           ELSE UNCHANGED <<code_generator_, entries>>
      /\ UNCHANGED <<input, sender, highFirst, channel, pc, random_elements, indices_set>>

\* The Sender goes on to ExpandSender, where it creates a generator for its own
\* use from a seed of its own.
Filled(e) ==
  /\ pc[e] = "rows" /\ entries[e] = count
  /\ IF e = sender
       THEN \E s \in Seeds :
              /\ rng' = [rng EXCEPT ![e] = AES!Create(s, input.num_noise)]
              /\ drawn' = [drawn EXCEPT ![e] = <<>>]
              /\ Goto(e, "indices")
       ELSE Goto(e, "done") /\ UNCHANGED <<rng, drawn>>
  /\ UNCHANGED <<input, sender, highFirst, channel, random_elements, code_generator_,
                 entries, indices_set>>

MutOneMore(e) == Cardinality(indices_set) <= input.num_noise  \* mutant: <= for <
MoreIndices(e) == Cardinality(indices_set) < input.num_noise

SampleIndex(e) ==
  LET word == Value(rng[e], AES!Result(rng[e]))
  IN  /\ pc[e] = "indices" /\ MoreIndices(e) /\ ~AES!Throws(rng[e])
      /\ rng' = [rng EXCEPT ![e] = AES!Next(@)]
      /\ drawn' = [drawn EXCEPT ![e] = Append(@, AES!Result(rng[e]))]
      /\ indices_set' = IF Accepted(word, input.output_size)
                          THEN indices_set \cup {Dist(word, input.output_size)}
                          ELSE indices_set
      /\ UNCHANGED <<input, sender, highFirst, channel, pc, random_elements,
                     code_generator_, entries>>

IndicesSampled(e) ==
  /\ pc[e] = "indices" /\ ~MoreIndices(e)
  /\ Goto(e, "done")
  /\ UNCHANGED <<input, sender, highFirst, channel, rng, drawn, random_elements,
                 code_generator_, entries, indices_set>>

\* The exception leaves PrecomputeCommon or ExpandSender; nothing catches it.
Throw(e) ==
  /\ \/ pc[e] = "elements" /\ Len(random_elements[e]) < count
     \/ pc[e] = "rows" /\ entries[e] < count
     \/ pc[e] = "indices" /\ MoreIndices(e)
  /\ AES!Throws(rng[e]) \/ (pc[e] = "elements" /\ AES!Throws(AES!Next(rng[e])))
  /\ Goto(e, "threw")
  /\ UNCHANGED <<input, sender, highFirst, channel, rng, drawn, random_elements,
                 code_generator_, entries, indices_set>>

Step(e) ==
  \/ SampleElement(e) \/ ElementsSampled(e) \/ SampleRow(e) \/ Filled(e)
  \/ SampleIndex(e) \/ IndicesSampled(e) \/ Throw(e)

Next == SendSeed \/ ReceiveSeed \/ \E e \in Ends : Step(e)

Spec ==
  /\ Init /\ [][Next]_vars
  /\ WF_vars(SendSeed) /\ WF_vars(ReceiveSeed) /\ \A e \in Ends : WF_vars(Step(e))

-----------------------------------------------------------------------------
TypeOK ==
  /\ pc \in [Ends -> {"seed", "elements", "rows", "indices", "done", "refused", "threw"}]
  /\ \A e \in Ends :
       /\ rng[e].elements_used_ \in 0 .. Len(rng[e].buffer_)
       /\ rng[e].buffer_ \in Seq(AES!Word) /\ rng[e].nonce_ \in 0 .. NumNonces - 1
       /\ random_elements[e] \in Seq(Scalar(input.T))
       /\ \A p \in DOMAIN code_generator_[e] :
            /\ p \in (0 .. input.vole_seed_size - 1) \X (0 .. input.output_size - 1)
            /\ code_generator_[e][p] \in Scalar(input.T)
  /\ indices_set \subseteq 0 .. input.output_size - 1

\* No word of a generator is handed out twice, and none is handed out that is not
\* encrypted.  With a buffer of odd size it fails: no
\* size that the code asks for is odd, 10 * output_size or the number of noise
\* indices in its tables.
WordsFresh ==
  \A e \in Ends : Len(rng[e].buffer_) % 2 = 0 =>
    /\ IsInjective(drawn[e])
    /\ \A i \in DOMAIN drawn[e] : drawn[e][i] # AES!Blank

\* Both ends end up with the same code generator, whatever words are rejected and
\* whatever positions are hit twice, if their builds take the words of an element
\* in the same order.
GeneratorsAgree ==
  (\A e \in Ends : entries[e] = count /\ pc[e] # "seed") /\ highFirst[0] = highFirst[1] =>
    code_generator_[0] = code_generator_[1]

\* Both ends refuse the type, or each one comes to an end: it has all entries and
\* the Sender all of its indices, as many as there are positions at most, or its
\* generator has stopped after kReseedInterval blocks without giving enough.
Short(e) == entries[e] < count \/ Cardinality(indices_set) < input.num_noise
FillEnds ==
  <>(\/ \A e \in Ends : pc[e] = "refused"
     \/ \A e \in Ends : pc[e] = "done" \/ (pc[e] = "threw" /\ Short(e)))

=============================================================================
