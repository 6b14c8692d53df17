------------------------ MODULE AESUniformBitGenerator ------------------------
(***************************************************************************)
(* The random bit generator of src/distributed_vector_ole/                 *)
(* aes_uniform_bit_generator.cpp: AES in counter mode with a buffer.  A    *)
(* generator is a record of its members.  A word of the buffer is named by *)
(* the nonce whose encryption it comes from and the half of that block,    *)
(* and Blank is a word that has never been encrypted.                      *)
(***************************************************************************)
EXTENDS Integers, Sequences

CONSTANTS
  NumNonces,       \* 2^128 in the code
  kReseedInterval  \* 2^48 in the code

Blank == <<>>
Word == {Blank} \cup ((0 .. NumNonces - 1) \X {0, 1})

\* A seed of at least kStateSize bytes: its key and its first nonce.
\* All elements are marked as used in the beginning.
seed(g, s) ==
  [g EXCEPT !.key = s.key, !.nonce_ = s.nonce, !.counter_ = 0,
            !.elements_used_ = Len(g.buffer_)]

BufferSize(n) == IF n < 2 THEN 2 ELSE n
Create(s, buffer_size) ==
  LET buffer == [i \in 1 .. BufferSize(buffer_size) |-> Blank]
  IN  seed([key |-> s.key, nonce_ |-> s.nonce, counter_ |-> 0,
            elements_used_ |-> 0, buffer_ |-> buffer], s)

num_blocks(g) == Len(g.buffer_) \div 2

MutSameNonce(g) ==  \* mutant: the nonces are counted in a copy
  [g EXCEPT
     !.buffer_ = [i \in DOMAIN @ |->
                    IF i <= 2 * num_blocks(g)
                      THEN <<(g.nonce_ + (i - 1) \div 2) % NumNonces, (i - 1) % 2>>
                      ELSE @[i]],
     !.elements_used_ = 0,
     !.counter_ = @ + num_blocks(g)]
\* "Re-randomize the entire buffer": an odd last element is left as it is.
Refill(g) ==
  [g EXCEPT
     !.buffer_ = [i \in DOMAIN @ |->
                    IF i <= 2 * num_blocks(g)
                      THEN <<(g.nonce_ + (i - 1) \div 2) % NumNonces, (i - 1) % 2>>
                      ELSE @[i]],
     !.nonce_ = (@ + num_blocks(g)) % NumNonces,
     !.elements_used_ = 0,
     !.counter_ = @ + num_blocks(g)]

\* operator(): the generator when the word is taken, whether an exception is
\* thrown instead (when the buffer has just been filled), the word, and the
\* generator after the call.
Ready(g) == IF g.elements_used_ >= Len(g.buffer_) THEN Refill(g) ELSE g
Throws(g) ==
  g.elements_used_ >= Len(g.buffer_) /\ Ready(g).counter_ > kReseedInterval
Result(g) == Ready(g).buffer_[Ready(g).elements_used_ + 1]
Next(g) == [Ready(g) EXCEPT !.elements_used_ = @ + 1]

=============================================================================
