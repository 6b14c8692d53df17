------------------------- MODULE OLEAgreementProofs -------------------------
(***************************************************************************)
(* The two ends stay in step, for all parameters, sequences of calls in    *)
(* changing roles, and failures: a receive always gets the message that it *)
(* is written for (ProtocolOrder), an end waits only for a peer that can   *)
(* move or has failed (NoStall), and what is returned is correlated        *)
(* (Correlated) and that of the abstract source (IdealSpec).  An           *)
(* application that repeats a failed call is excluded (Retries = {}): the  *)
(* last two are false then.                                                *)
(***************************************************************************)
EXTENDS DistributedVectorOLEProofs

-----------------------------------------------------------------------------
(***************************************************************************)
(* Both ends of DistributedVectorOLE go through one sequence of joint      *)
(* states: Succ says which state follows which.  No message carries a size *)
(* or a role; that the ends agree on them rests on this.  Either end may   *)
(* be ahead by any number of steps that need no message of the other; the  *)
(* messages on their way are those of the steps between the state of the   *)
(* end that lags and the state of the one that leads (Linked), and all go  *)
(* from the second to the first.                                           *)
(*                                                                         *)
(* The first part is about joint states only: what holds of each of them   *)
(* (Good) and how the two ends move along the sequence.                    *)
(***************************************************************************)
(* Joint states: what the two ends have in common at the same point.       *)

\* A position; the calls that have finished, and their results; the Sender of the
\* current call; its arguments and locals; the sizes in an object; what the end d
\* has as a Sender and its peer as a Receiver (stock[d]); the run of an exchange.
JointState(pos, n, res, sender, call, par, stock, run) ==
  [pos |-> pos, n |-> n, res |-> res, sender |-> sender, call |-> call,
   par |-> par, stock |-> stock, run |-> run]

Frame(l) == [op |-> l.op, size |-> l.size, i |-> l.i, final |-> l.final,
             output |-> l.output, new_vole |-> l.new_vole,
             new_mpfss |-> l.new_mpfss, copied |-> l.copied]

Sizes(pr) == [batch_size |-> pr.batch_size, vole_seed_size |-> pr.vole_seed_size,
              mpfss_seed_size |-> pr.mpfss_seed_size, num_noise |-> pr.num_noise,
              generator |-> pr.generator]

Holding(cached, vole, mpfss, done, delta, mpfss_delta) ==
  [cached |-> cached, vole_seed |-> vole, mpfss_seed |-> mpfss, done |-> done,
   delta |-> delta, mpfss_delta |-> mpfss_delta]

Own(x) == x.stock[x.sender]
WithOwn(x, own) == [d \in Parties |-> IF d = x.sender THEN own ELSE x.stock[d]]

Recached(o, cached) ==
  Holding(cached, o.vole_seed, o.mpfss_seed, o.done, o.delta, o.mpfss_delta)
Reseeded(o, vec, vole, mpfss) ==
  Holding(WithoutTail(WithoutTail(vec, vole), mpfss), TailOf(vec, vole),
          TailOf(WithoutTail(vec, vole), mpfss), o.done, o.delta, o.delta)
Ready(o) ==
  Holding(o.cached, o.vole_seed, o.mpfss_seed, TRUE, o.delta, o.mpfss_delta)

Go(x, pos) ==
  JointState(pos, x.n, x.res, x.sender, x.call, x.par, x.stock, x.run)

\* The call returns.
Ends(x, ok, elements, par, own) ==
  JointState("idle", x.n + 1,
    [k \in 1 .. x.n + 1 |->
       IF k = x.n + 1
       THEN [op |-> x.call.op, sender |-> x.sender, ok |-> ok,
             elements |-> elements, delta |-> Own(x).delta]
       ELSE x.res[k]],
    x.sender, Frame(NoCall), par, WithOwn(x, own), x.run)

-----------------------------------------------------------------------------
(* How one follows another, by position.  A step that one of the ends      *)
(* sends a message for depends on that message, m.                         *)

PastIdle(x, calls) ==
  LET c == calls[x.n + 1]
  IN  JointState("begin", x.n, x.res, c.sender,
        Frame([NoCall EXCEPT !.op = c.op, !.size = c.size]), x.par, x.stock, x.run)

NeedsFirst(x) == x.call.op = "Precompute" \/ ~Own(x).done

First(x) ==
  JointState("gilboa0", x.n, x.res, x.sender, x.call,
    [batch_size |-> 0, vole_seed_size |-> VoleSize(1),
     mpfss_seed_size |-> MpfssSize(1), num_noise |-> num_noise_indices[1],
     generator |-> x.par.generator],
    WithOwn(x, Recached(Own(x), Unshared(VoleSize(1) + MpfssSize(1)))), x.run)

PastBegin(x) ==
  IF ~NeedsFirst(x) THEN Go(x, "fetch")
  ELSE IF x.call.size < 1 THEN Ends(x, FALSE, <<>>, x.par, Own(x))
  ELSE First(x)

PastGilboa0(x, m) ==
  LET o == Own(x)
  IN  JointState("gilboa1", x.n, x.res, x.sender, x.call, x.par,
        WithOwn(x, Holding(o.cached, o.vole_seed, o.mpfss_seed, o.done,
                           m.delta, o.mpfss_delta)), x.run)

PastGilboa1(x, m) ==
  JointState("loop", x.n, x.res, x.sender, x.call, x.par,
    WithOwn(x, Reseeded(Own(x), m.vec, x.par.vole_seed_size, x.par.mpfss_seed_size)),
    x.run)

SeedSizes(x) == x.par.mpfss_seed_size + x.par.vole_seed_size
Suffices(x) == output_size[x.call.i] >= x.call.size + SeedSizes(x)
Batch(x) == Min({x.call.size, output_size[Len(output_size)] - SeedSizes(x)})

Prepared(par, batch, output) ==
  [batch_size |-> batch, vole_seed_size |-> par.vole_seed_size,
   mpfss_seed_size |-> par.mpfss_seed_size, num_noise |-> par.num_noise,
   generator |-> [rows |-> par.vole_seed_size, cols |-> output, id |-> 0]]

Planned(c, final, output, vole, mpfss, copied) ==
  [op |-> c.op, size |-> c.size, i |-> c.i, final |-> final, output |-> output,
   new_vole |-> vole, new_mpfss |-> mpfss, copied |-> copied]

PastLoop(x) ==
  LET c == x.call
      vole == VoleSize(c.i + 1)
      mpfss == MpfssSize(c.i + 1)
      output == Batch(x) + SeedSizes(x)
  IN  IF c.i < Len(seed_size) /\ ~Suffices(x)
      THEN JointState("seed", x.n, x.res, x.sender,
             Planned(c, c.final, vole + mpfss, vole, mpfss, c.copied),
             Prepared(x.par, x.par.batch_size, vole + mpfss), x.stock, x.run)
      ELSE JointState("seed", x.n, x.res, x.sender,
             Planned(c, TRUE, output, c.new_vole, c.new_mpfss, c.copied),
             Prepared(x.par, Batch(x), output), x.stock, x.run)

Filled(par, id) ==
  [batch_size |-> par.batch_size, vole_seed_size |-> par.vole_seed_size,
   mpfss_seed_size |-> par.mpfss_seed_size, num_noise |-> par.num_noise,
   generator |-> [rows |-> par.generator.rows, cols |-> par.generator.cols, id |-> id]]

PastSeed(x, m) ==
  IF x.call.output > MaxGenerator THEN Ends(x, FALSE, <<>>, x.par, Own(x))
  ELSE IF ~x.call.final
  THEN JointState("expand", x.n, x.res, x.sender, x.call, Filled(x.par, m.id),
                  x.stock, x.run)
  ELSE IF x.call.op = "Precompute"
  THEN Ends(x, TRUE, <<>>, Filled(x.par, m.id), Ready(Own(x)))
  ELSE JointState("fetch", x.n, x.res, x.sender, x.call, Filled(x.par, m.id),
                  WithOwn(x, Ready(Own(x))), x.run)

Fits(x) == /\ x.par.generator.rows = Len(Own(x).vole_seed)
           /\ x.par.generator.cols = x.call.output

PastExpand(x) ==
  IF Fits(x) THEN Go(x, "wait0") ELSE Ends(x, FALSE, <<>>, x.par, Own(x))

PastWait0(x, m) ==
  JointState("wait1", x.n, x.res, x.sender, x.call, x.par, x.stock, m.run)

Expansion(x) ==
  LET o == Own(x)
  IN  o.cached \o Fresh(o.mpfss_delta, x.run, x.call.output)

PastWait1(x) ==
  LET c == x.call
      par == [batch_size |-> x.par.batch_size, vole_seed_size |-> c.new_vole,
              mpfss_seed_size |-> c.new_mpfss,
              num_noise |-> IF c.final THEN x.par.num_noise
                            ELSE num_noise_indices[c.i + 1],
              generator |-> x.par.generator]
      stock == WithOwn(x, Reseeded(Own(x), Expansion(x), c.new_vole, c.new_mpfss))
  IN  IF c.final
      THEN JointState("copy", x.n, x.res, x.sender, c, par, stock, x.run)
      ELSE JointState("loop", x.n, x.res, x.sender,
             [op |-> c.op, size |-> c.size, i |-> c.i + 1, final |-> c.final,
              output |-> c.output, new_vole |-> c.new_vole,
              new_mpfss |-> c.new_mpfss, copied |-> c.copied], par, stock, x.run)

PastFetch(x) ==
  LET o == Own(x)
  IN  IF Len(o.cached) >= x.call.size
      THEN Ends(x, TRUE, TailOf(o.cached, x.call.size), x.par,
                Recached(o, WithoutTail(o.cached, x.call.size)))
      ELSE Go(x, "copy")

PastCopy(x) ==
  LET o == Own(x)
      c == x.call
      both == c.copied \o o.cached
      missing == c.size - Len(c.copied)
  IN  IF Len(o.cached) > missing
      THEN Ends(x, TRUE, c.copied \o TailOf(o.cached, missing), x.par,
                Recached(o, WithoutTail(o.cached, missing)))
      ELSE IF Len(both) = c.size THEN Ends(x, TRUE, both, x.par, Recached(o, <<>>))
      ELSE JointState("expand", x.n, x.res, x.sender,
             Planned(c, TRUE, x.par.batch_size + SeedSizes(x), x.par.vole_seed_size,
                     x.par.mpfss_seed_size, both),
             x.par, WithOwn(x, Recached(o, <<>>)), x.run)

\* The message that the step from x is made with, and the end that sends it.
Kind(x) == CASE x.pos = "gilboa0" -> "choices"
             [] x.pos = "gilboa1" -> "w"
             [] x.pos = "seed" -> "seed"
             [] x.pos = "wait0" -> "masked"
             [] x.pos = "wait1" -> "sums"
             [] OTHER -> "free"

Author(x) == IF x.pos = "seed" THEN Lo
             ELSE IF x.pos \in {"gilboa1", "wait0"} THEN x.sender
             ELSE Peer(x.sender)

NoMessage == [kind |-> "free"]

Succ(x, calls, m) ==
  CASE x.pos = "idle" -> PastIdle(x, calls)
    [] x.pos = "begin" -> PastBegin(x)
    [] x.pos = "gilboa0" -> PastGilboa0(x, m)
    [] x.pos = "gilboa1" -> PastGilboa1(x, m)
    [] x.pos = "loop" -> PastLoop(x)
    [] x.pos = "seed" -> PastSeed(x, m)
    [] x.pos = "expand" -> PastExpand(x)
    [] x.pos = "wait0" -> PastWait0(x, m)
    [] x.pos = "wait1" -> PastWait1(x)
    [] x.pos = "fetch" -> PastFetch(x)
    [] OTHER -> PastCopy(x)

\* An application has agreed on the next call.
Possible(x, calls) == x.pos = "idle" => x.n + 1 \in 1 .. Len(calls)

Buckets(x) == [size |-> x.call.output, num |-> x.par.num_noise]

\* What the message of the step from x says.
Proper(x, m) ==
  /\ m.kind = Kind(x)
  /\ x.pos = "gilboa0" => m.delta \in Nat
  /\ x.pos = "gilboa1" =>
       \E run \in Nat \ {0} :
         m.vec = Fresh(Own(x).delta, run, x.par.vole_seed_size + x.par.mpfss_seed_size)
  /\ x.pos = "wait0" => /\ m.run \in Nat \ {0}
                        /\ m.vole_seed = Own(x).vole_seed
                        /\ m.mpfss_seed = Own(x).mpfss_seed
                        /\ m.generator = x.par.generator.id
                        /\ m.buckets = Buckets(x)
  /\ x.pos = "wait1" => m.run = x.run

-----------------------------------------------------------------------------
(* What holds of every joint state.                                        *)

\* The elements are correlated, under delta.
Under(vec, delta) ==
  /\ vec \in Vector
  /\ \A i \in DOMAIN vec : vec[i][1] = delta /\ vec[i][2] # 0

\* The end d is about to get new first seeds, under a new delta.
Renewing(x, d) == x.pos \in {"gilboa0", "gilboa1"} /\ x.sender = d

\* The seeds, and what is cached, are correlated under the Receiver's delta.
StockUnder(x) ==
  \A d \in Parties :
    LET o == x.stock[d]
    IN  /\ o.delta \in Nat /\ o.done \in BOOLEAN
        /\ Under(o.vole_seed, o.mpfss_delta) /\ Under(o.mpfss_seed, o.mpfss_delta)
        /\ ~Renewing(x, d) => Under(o.cached, o.delta) /\ o.mpfss_delta = o.delta

\* The state within a call: the arguments are those agreed on, what is copied for
\* it is correlated, and only a Run that has its seeds gets past the precomputation.
InCall(x, calls) ==
  x.pos # "idle" =>
    /\ x.n + 1 \in 1 .. Len(calls)
    /\ x.sender = calls[x.n + 1].sender /\ x.call.op = calls[x.n + 1].op
    /\ x.call.size = calls[x.n + 1].size
    /\ IF x.pos \in {"begin", "gilboa0", "gilboa1"} THEN x.call.copied = <<>>
       ELSE Under(x.call.copied, Own(x).delta)
    /\ x.pos \in {"gilboa0", "gilboa1"} => NeedsFirst(x)
    /\ x.pos \in {"fetch", "copy"} \/ (x.pos \in {"expand", "wait0", "wait1"} /\ x.call.final)
         => x.call.op = "Run" /\ Own(x).done
    /\ x.pos = "wait1" => x.run \in Nat \ {0}

\* The results are those of the calls agreed on: of the length asked for and
\* correlated if the call has succeeded, and nothing otherwise.
ResultsGiven(x, calls) ==
  /\ x.n \in 0 .. Len(calls)
  /\ \A k \in 1 .. x.n :
       LET r == x.res[k]
       IN  /\ r.op = calls[k].op /\ r.sender = calls[k].sender /\ r.ok \in BOOLEAN
           /\ Under(r.elements, r.delta)
           /\ IF r.ok /\ r.op = "Run" THEN Len(r.elements) = calls[k].size
                                      ELSE r.elements = <<>>

\* Delta changes only with a precomputation: since then it is that of the results.
SameDelta(x, j, last) ==
  \A k \in j .. last : x.res[k].sender = x.res[j].sender => x.res[k].op = "Run"
GaveElements(r) == r.ok /\ r.op = "Run"

DeltaKept(x) ==
  \A j \in 1 .. x.n : GaveElements(x.res[j]) =>
    /\ \A k \in j .. x.n :
         /\ GaveElements(x.res[k]) /\ x.res[k].sender = x.res[j].sender
         /\ SameDelta(x, j, k)
         => x.res[k].delta = x.res[j].delta
    /\ SameDelta(x, j, x.n) =>
         LET d == x.res[j].sender
         IN  /\ x.stock[d].done
             /\ \/ x.stock[d].delta = x.res[j].delta
                \/ x.pos # "idle" /\ x.sender = d /\ x.call.op = "Precompute"

Good(x, calls) == /\ StockUnder(x) /\ InCall(x, calls)
                  /\ ResultsGiven(x, calls) /\ DeltaKept(x)

-----------------------------------------------------------------------------
(* The sequence of joint states h.state[0], ..., h.state[h.last], where p  *)
(* is at h.state[h.at[p]].  Step j goes from h.state[j] to the next, with  *)
(* the message h.msg[j] unless it is free; h.sent[j] messages precede it.  *)

Continues(x, y) == x.n <= y.n /\ \A k \in 1 .. x.n : y.res[k] = x.res[k]

Follows(h, calls, j) ==
  LET x == h.state[j]
  IN  /\ Possible(x, calls)
      /\ \/ /\ Kind(x) = "free"
            /\ h.state[j + 1] = Succ(x, calls, NoMessage)
            /\ h.sent[j + 1] = h.sent[j]
         \/ /\ Kind(x) # "free" /\ Proper(x, h.msg[j])
            /\ h.state[j + 1] = Succ(x, calls, h.msg[j])
            /\ h.sent[j + 1] = h.sent[j] + 1

Trajectory(h, calls) ==
  /\ h.last \in Nat
  /\ \A j \in 0 .. h.last : /\ h.sent[j] \in Nat /\ Good(h.state[j], calls)
                            /\ Continues(h.state[j], h.state[h.last])
  /\ \A i, j \in 0 .. h.last : i <= j => h.sent[i] <= h.sent[j]
  /\ \A j \in 0 .. h.last - 1 : Follows(h, calls, j)

\* p leads, and the messages to its peer are those of the steps between them.
Leads(h, p, messages) ==
  LET lag == h.at[Peer(p)]
  IN  /\ h.at[p] = h.last
      /\ Len(messages) = h.sent[h.last] - h.sent[lag]
      /\ \A j \in lag .. h.last - 1 : Kind(h.state[j]) # "free" =>
           /\ Author(h.state[j]) = p
           /\ messages[h.sent[j] - h.sent[lag] + 1] = h.msg[j]

Linked(h, calls, c) ==
  /\ Trajectory(h, calls)
  /\ \A p \in Parties : h.at[p] \in 0 .. h.last /\ c[p] \in Seq(Message)
  /\ \E p \in Parties : c[p] = <<>> /\ Leads(h, p, c[Peer(p)])

Here(h, p) == h.state[h.at[p]]

\* An end at the last state leads, whether or not the other one does so, too.
LEMMA LastLeads ==
  ASSUME NEW h, NEW calls, NEW c, Linked(h, calls, c), NEW p \in Parties,
         h.at[p] = h.last
  PROVE  c[p] = <<>> /\ Leads(h, p, c[Peer(p)])
  <1>1. PICK l \in Parties : c[l] = <<>> /\ Leads(h, l, c[Peer(l)])
    BY DEF Linked
  <1>2. CASE l = p
    BY <1>1, <1>2
  <1>3. CASE l # p
    <2>1. Peer(l) = p /\ Peer(p) = l
      BY <1>3 DEF Parties, Peer
    <2>2. /\ h.last \in Nat /\ h.sent[h.last] \in Nat
          /\ c[p] \in Seq(Message) /\ c[l] \in Seq(Message)
      BY DEF Linked, Trajectory
    <2>3. Len(c[p]) = 0 /\ Len(c[l]) = 0 /\ h.at[l] = h.last
      BY <1>1, <2>1, <2>2 DEF Leads
    <2> QED
      BY <1>1, <2>1, <2>2, <2>3 DEF Leads
  <1> QED
    BY <1>2, <1>3

\* The other end leads if this one does not.
LEMMA OtherLeads ==
  ASSUME NEW h, NEW calls, NEW c, Linked(h, calls, c), NEW p \in Parties,
         h.at[p] # h.last \/ c[p] # <<>>
  PROVE  c[Peer(p)] = <<>> /\ Leads(h, Peer(p), c[p])
  <1>1. PICK l \in Parties : c[l] = <<>> /\ Leads(h, l, c[Peer(l)])
    BY DEF Linked
  <1>2. l # p
    BY <1>1 DEF Leads
  <1>3. Peer(p) = l /\ Peer(l) = p
    BY <1>2 DEF Parties, Peer
  <1> QED
    BY <1>1, <1>3

\* What holds of the joint state that an end is at.
LEMMA LinkedGood ==
  ASSUME NEW h, NEW calls, NEW c, Linked(h, calls, c), NEW p \in Parties
  PROVE  Good(Here(h, p), calls)
  BY DEF Linked, Trajectory, Here

\* A sequence with one more state.
Longer(h, p, y, m, count) ==
  [state |-> [j \in Nat |-> IF j = h.last + 1 THEN y ELSE h.state[j]],
   msg |-> [j \in Nat |-> IF j = h.last THEN m ELSE h.msg[j]],
   sent |-> [j \in Nat |-> IF j = h.last + 1 THEN h.sent[h.last] + count
                           ELSE h.sent[j]],
   last |-> h.last + 1,
   at |-> [q \in Parties |-> IF q = p THEN h.last + 1 ELSE h.at[q]]]

\* The end p moves to the next state of the sequence.
Moving(h, p) ==
  [state |-> h.state, msg |-> h.msg, sent |-> h.sent, last |-> h.last,
   at |-> [q \in Parties |-> IF q = p THEN h.at[p] + 1 ELSE h.at[q]]]

\* A trajectory whose end ahead takes one more joint step.
LEMMA LongerTrajectory ==
  ASSUME NEW h, NEW calls, Trajectory(h, calls), NEW p \in Parties, NEW y, NEW m,
         NEW count \in {0, 1}, h.at[p] \in 0 .. h.last,
         Possible(h.state[h.last], calls), Good(y, calls),
         Continues(h.state[h.last], y), y.n \in Nat,
         \A j \in 0 .. h.last : h.state[j].n \in Nat,
         \/ count = 0 /\ Kind(h.state[h.last]) = "free"
            /\ y = Succ(h.state[h.last], calls, NoMessage)
         \/ count = 1 /\ Kind(h.state[h.last]) # "free"
            /\ Proper(h.state[h.last], m) /\ y = Succ(h.state[h.last], calls, m)
  PROVE  Trajectory(Longer(h, p, y, m, count), calls)
  <1> DEFINE g == Longer(h, p, y, m, count)
             N == h.last
  <1>1. /\ N \in Nat /\ g.last = N + 1
        /\ \A j \in 0 .. N : g.state[j] = h.state[j] /\ g.sent[j] = h.sent[j]
        /\ \A j \in 0 .. N - 1 : g.msg[j] = h.msg[j]
        /\ g.state[N + 1] = y /\ g.msg[N] = m
        /\ g.sent[N + 1] = h.sent[N] + count
    BY DEF Trajectory, Longer
  <1> HIDE DEF g
  <1>2. \A j \in 0 .. N + 1 : j \in 0 .. N \/ j = N + 1
    BY <1>1
  <1>3. /\ h.sent[N] \in Nat
        /\ \A j \in 0 .. N : h.sent[j] \in Nat /\ h.sent[j] <= h.sent[N]
    BY <1>1 DEF Trajectory
  <1>4. \A j \in 0 .. N + 1 : g.sent[j] \in Nat /\ Good(g.state[j], calls)
    BY <1>1, <1>2, <1>3 DEF Trajectory
  <1>5. ASSUME NEW j \in 0 .. N + 1 PROVE Continues(g.state[j], g.state[N + 1])
    <2>1. CASE j = N + 1
      BY <1>1, <2>1 DEF Continues
    <2>2. CASE j \in 0 .. N
      <3>1. /\ Continues(h.state[j], h.state[N]) /\ h.state[j].n \in Nat
            /\ h.state[N].n \in Nat
        BY <1>1, <2>2 DEF Trajectory
      <3>2. Continues(h.state[j], y)
        BY <3>1 DEF Continues
      <3> QED
        BY <1>1, <2>2, <3>2
    <2> QED
      BY <1>2, <2>1, <2>2
  <1>6. ASSUME NEW i \in 0 .. N + 1, NEW j \in 0 .. N + 1, i <= j
        PROVE  g.sent[i] <= g.sent[j]
    <2>1. CASE j \in 0 .. N
      <3>1. i \in 0 .. N
        BY <1>1, <1>6, <2>1
      <3> QED
        BY <1>1, <1>6, <2>1, <3>1 DEF Trajectory
    <2>2. CASE j = N + 1 /\ i \in 0 .. N
      BY <1>1, <1>3, <2>2
    <2>3. CASE j = N + 1 /\ i = N + 1
      BY <1>1, <1>3, <2>3
    <2> QED
      BY <1>2, <2>1, <2>2, <2>3
  <1>7. ASSUME NEW j \in 0 .. N PROVE Follows(g, calls, j)
    <2>1. CASE j \in 0 .. N - 1
      <3>1. j \in 0 .. N /\ j + 1 \in 0 .. N
        BY <1>1, <2>1
      <3>2. Follows(h, calls, j)
        BY <2>1 DEF Trajectory
      <3> QED
        BY <1>1, <2>1, <3>1, <3>2 DEF Follows
    <2>2. CASE j = N
      <3>1. N \in 0 .. N
        BY <1>1
      <3> QED
        BY <1>1, <1>3, <2>2, <3>1 DEF Follows
    <2> QED
      BY <1>1, <2>1, <2>2
  <1>8. g.last \in Nat /\ g.last - 1 = N
    BY <1>1
  <1>9. Trajectory(g, calls)
    BY <1>1, <1>4, <1>5, <1>6, <1>7, <1>8 DEF Trajectory
  <1> QED
    BY <1>9 DEF g

\* The number of results is a number.
LEMMA ResultCounts ==
  ASSUME NEW h, NEW calls \in Seq(Call), Trajectory(h, calls)
  PROVE  \A j \in 0 .. h.last : h.state[j].n \in Nat
  BY DEF Trajectory, Good, ResultsGiven

\* The end that leads makes a further step, of which c is told.
LEMMA LeaderMoves ==
  ASSUME NEW calls \in Seq(Call), NEW h, NEW c, NEW d, Linked(h, calls, c),
         NEW p \in Parties, h.at[p] = h.last,
         NEW y, NEW m, NEW count \in {0, 1},
         Possible(Here(h, p), calls), Good(y, calls), Continues(Here(h, p), y),
         \/ /\ count = 0 /\ Kind(Here(h, p)) = "free"
            /\ y = Succ(Here(h, p), calls, NoMessage)
            /\ d[Peer(p)] = c[Peer(p)]
         \/ /\ count = 1 /\ Kind(Here(h, p)) # "free" /\ Author(Here(h, p)) = p
            /\ Proper(Here(h, p), m) /\ m \in Message
            /\ y = Succ(Here(h, p), calls, m)
            /\ d[Peer(p)] = Append(c[Peer(p)], m),
         d[p] = c[p]
  PROVE  /\ Linked(Longer(h, p, y, m, count), calls, d)
         /\ Here(Longer(h, p, y, m, count), p) = y
         /\ Here(Longer(h, p, y, m, count), Peer(p)) = Here(h, Peer(p))
  <1> DEFINE g == Longer(h, p, y, m, count)
             N == h.last
             q == Peer(p)
             x == h.state[N]
  <1>1. /\ q \in Parties /\ q # p /\ Here(h, p) = x
        /\ \A r \in Parties : r = p \/ r = q
    BY PeerType DEF Here, Parties, Peer
  <1>2. /\ N \in Nat /\ Trajectory(h, calls) /\ h.at[q] \in 0 .. N
        /\ c[q] \in Seq(Message) /\ c[p] \in Seq(Message)
    BY <1>1 DEF Linked, Trajectory
  <1>3. /\ c[p] = <<>> /\ Len(c[q]) = h.sent[N] - h.sent[h.at[q]]
        /\ \A j \in h.at[q] .. N - 1 : Kind(h.state[j]) # "free" =>
             /\ Author(h.state[j]) = p
             /\ c[q][h.sent[j] - h.sent[h.at[q]] + 1] = h.msg[j]
    BY LastLeads DEF Leads
  <1>4. y.n \in Nat
    BY DEF Good, ResultsGiven
  <1>5. Trajectory(g, calls)
    <2>1. /\ h.at[p] \in 0 .. h.last /\ \A j \in 0 .. h.last : h.state[j].n \in Nat
      BY <1>2, ResultCounts
    <2>2. /\ Possible(h.state[h.last], calls) /\ Continues(h.state[h.last], y)
          /\ \/ count = 0 /\ Kind(h.state[h.last]) = "free"
                /\ y = Succ(h.state[h.last], calls, NoMessage)
             \/ count = 1 /\ Kind(h.state[h.last]) # "free"
                /\ Proper(h.state[h.last], m) /\ y = Succ(h.state[h.last], calls, m)
      BY <1>1
    <2> QED
      BY <1>2, <1>4, <2>1, <2>2, LongerTrajectory
  <1>6. /\ g.last = N + 1 /\ g.at[p] = N + 1 /\ g.at[q] = h.at[q]
        /\ \A j \in 0 .. N : g.state[j] = h.state[j] /\ g.sent[j] = h.sent[j]
        /\ \A j \in 0 .. N - 1 : g.msg[j] = h.msg[j]
        /\ g.state[N + 1] = y /\ g.msg[N] = m
        /\ g.sent[N + 1] = h.sent[N] + count
    BY <1>1, <1>2 DEF Longer
  <1> HIDE DEF g
  <1> DEFINE lag == h.at[q]
  <1>7. /\ h.sent[N] \in Nat /\ h.sent[lag] \in Nat
        /\ \A j \in lag .. N : h.sent[j] \in Nat /\ h.sent[lag] <= h.sent[j]
        /\ \A j \in lag .. N - 1 : Kind(h.state[j]) # "free" =>
             h.sent[j] + 1 <= h.sent[N]
    <2>1. \A j \in lag .. N : j \in 0 .. N
      BY <1>2
    <2>2. \A j \in lag .. N - 1 : j \in 0 .. N - 1 /\ j + 1 \in 0 .. N /\ N \in 0 .. N
      BY <1>2
    <2>3. ASSUME NEW j \in lag .. N - 1, Kind(h.state[j]) # "free"
          PROVE  h.sent[j] + 1 <= h.sent[N]
      <3>1. j \in 0 .. N - 1 /\ j + 1 \in 0 .. N /\ N \in 0 .. N /\ j + 1 <= N
        BY <1>2
      <3>2. Follows(h, calls, j) /\ h.sent[j + 1] <= h.sent[N]
        BY <1>2, <3>1 DEF Trajectory
      <3> QED
        BY <2>3, <3>2 DEF Follows
    <2>4. /\ h.sent[N] \in Nat /\ h.sent[lag] \in Nat
          /\ \A j \in lag .. N : h.sent[j] \in Nat /\ h.sent[lag] <= h.sent[j]
      BY <1>2, <2>1 DEF Trajectory
    <2> QED
      BY <2>3, <2>4
  <1>8. /\ d[q] \in Seq(Message) /\ Len(d[q]) = Len(c[q]) + count
        /\ \A i \in 1 .. Len(c[q]) : d[q][i] = c[q][i]
        /\ count = 1 => d[q][Len(c[q]) + 1] = m
    <2>1. CASE count = 0
      BY <1>2, <2>1
    <2>2. CASE count = 1
      <3>1. d[q] = Append(c[q], m) /\ m \in Message
        BY <2>2
      <3>2. c[q] \in Seq(Message)
        BY <1>2
      <3>3. /\ d[q] \in Seq(Message) /\ Len(d[q]) = Len(c[q]) + 1
            /\ \A i \in 1 .. Len(c[q]) : d[q][i] = c[q][i]
            /\ d[q][Len(c[q]) + 1] = m
        BY <3>1, <3>2, AppendProperties
      <3> QED
        BY <2>2, <3>3
    <2> QED
      BY <2>1, <2>2
  <1>9. Len(d[q]) = g.sent[N + 1] - g.sent[lag]
    <2>1. /\ Len(c[q]) = h.sent[N] - h.sent[lag] /\ Len(d[q]) = Len(c[q]) + count
          /\ h.sent[N] \in Nat /\ h.sent[lag] \in Nat
      BY <1>3, <1>7, <1>8
    <2>2. g.sent[lag] = h.sent[lag] /\ g.sent[N + 1] = h.sent[N] + count
      BY <1>2, <1>6
    <2> QED
      BY <2>1, <2>2
  <1>10. ASSUME NEW j \in lag .. N, Kind(g.state[j]) # "free"
         PROVE  /\ Author(g.state[j]) = p
                /\ d[q][g.sent[j] - g.sent[lag] + 1] = g.msg[j]
    <2>1. lag \in 0 .. N /\ j \in 0 .. N
      BY <1>2
    <2>2. g.state[j] = h.state[j] /\ g.sent[j] = h.sent[j] /\ g.sent[lag] = h.sent[lag]
      BY <1>6, <2>1
    <2>3. CASE j = N
      <3>1. count = 1 /\ Author(x) = p
        BY <1>1, <1>10, <2>2, <2>3
      <3>2. h.sent[N] - h.sent[lag] + 1 = Len(c[q]) + 1
        BY <1>3
      <3> QED
        BY <1>6, <1>8, <2>2, <2>3, <3>1, <3>2
    <2>4. CASE j # N
      <3>1. j \in lag .. N - 1 /\ j \in 0 .. N - 1 /\ g.msg[j] = h.msg[j]
        BY <1>2, <1>6, <2>4
      <3>2. /\ Author(h.state[j]) = p
            /\ c[q][h.sent[j] - h.sent[lag] + 1] = h.msg[j]
        BY <1>3, <1>10, <2>2, <3>1
      <3>3. h.sent[j] - h.sent[lag] + 1 \in 1 .. Len(c[q])
        <4>1. /\ h.sent[j] \in Nat /\ h.sent[lag] \in Nat /\ h.sent[N] \in Nat
              /\ h.sent[lag] <= h.sent[j] /\ h.sent[j] + 1 <= h.sent[N]
          BY <1>7, <1>10, <2>2, <3>1
        <4>2. Len(c[q]) = h.sent[N] - h.sent[lag]
          BY <1>3
        <4>3. PICK now, from, to, len : /\ now = h.sent[j] /\ from = h.sent[lag]
                                        /\ to = h.sent[N] /\ len = Len(c[q])
          OBVIOUS
        <4>4. /\ now \in Nat /\ from \in Nat /\ to \in Nat
              /\ from <= now /\ now + 1 <= to /\ len = to - from
          BY <4>1, <4>2, <4>3
        <4>5. now - from + 1 \in 1 .. len
          BY <4>4
        <4> QED
          BY <4>3, <4>5
      <3> QED
        BY <1>8, <2>2, <3>1, <3>2, <3>3
    <2> QED
      BY <2>3, <2>4
  <1>11. Leads(g, p, d[q])
    <2>1. g.last - 1 = N
      BY <1>2, <1>6
    <2> QED
      BY <1>6, <1>9, <1>10, <2>1 DEF Leads
  <1>12. Linked(g, calls, d)
    <2>1. ASSUME NEW r \in Parties PROVE g.at[r] \in 0 .. g.last /\ d[r] \in Seq(Message)
      <3>1. CASE r = p
        BY <1>2, <1>6, <3>1
      <3>2. CASE r = q
        BY <1>2, <1>6, <1>8, <3>2
      <3> QED
        BY <1>1, <3>1, <3>2
    <2>2. d[p] = <<>>
      BY <1>3
    <2> QED
      BY <1>5, <1>11, <2>1, <2>2 DEF Linked
  <1>13. Here(g, p) = y /\ Here(g, q) = Here(h, q)
    BY <1>2, <1>6 DEF Here
  <1> QED
    BY <1>12, <1>13 DEF g

\* The end that lags follows, and takes a message unless the step is free.
LEMMA LaggardMoves ==
  ASSUME NEW calls \in Seq(Call), NEW h, NEW c, NEW d, Linked(h, calls, c),
         NEW p \in Parties, h.at[p] # h.last,
         d[Peer(p)] = c[Peer(p)],
         d[p] = IF Kind(Here(h, p)) = "free" THEN c[p] ELSE Tail(c[p])
  PROVE  /\ Linked(Moving(h, p), calls, d)
         /\ Follows(h, calls, h.at[p])
         /\ Here(Moving(h, p), p) = h.state[h.at[p] + 1]
         /\ Here(Moving(h, p), Peer(p)) = Here(h, Peer(p))
         /\ Kind(Here(h, p)) # "free" =>
              /\ c[p] # <<>> /\ Head(c[p]) = h.msg[h.at[p]]
              /\ Author(Here(h, p)) = Peer(p)
  <1> DEFINE g == Moving(h, p)
             N == h.last
             q == Peer(p)
             lag == h.at[p]
             x == h.state[lag]
  <1>1. /\ q \in Parties /\ q # p /\ Here(h, p) = x /\ Peer(q) = p
        /\ \A r \in Parties : r = p \/ r = q
    BY PeerType DEF Here, Parties, Peer
  <1>2. /\ N \in Nat /\ Trajectory(h, calls) /\ h.at[q] \in 0 .. N /\ lag \in 0 .. N
        /\ c[q] \in Seq(Message) /\ c[p] \in Seq(Message)
    BY <1>1 DEF Linked, Trajectory
  <1>3. lag \in 0 .. N - 1 /\ lag + 1 \in 0 .. N
    BY <1>2
  <1>4. c[q] = <<>> /\ Leads(h, q, c[p])
    BY OtherLeads
  <1>5. /\ h.at[q] = N /\ Len(c[p]) = h.sent[N] - h.sent[lag]
        /\ \A j \in lag .. N - 1 : Kind(h.state[j]) # "free" =>
             /\ Author(h.state[j]) = q
             /\ c[p][h.sent[j] - h.sent[lag] + 1] = h.msg[j]
    BY <1>1, <1>4 DEF Leads
  <1>6. Follows(h, calls, lag)
    BY <1>2, <1>3 DEF Trajectory
  <1>7. /\ g.state = h.state /\ g.msg = h.msg /\ g.sent = h.sent /\ g.last = N
        /\ g.at[p] = lag + 1 /\ g.at[q] = h.at[q]
    BY <1>1 DEF Moving
  <1> HIDE DEF g
  <1>8. Trajectory(g, calls)
    BY <1>2, <1>7 DEF Trajectory, Follows
  <1>9. /\ h.sent[N] \in Nat /\ h.sent[lag] \in Nat /\ h.sent[lag + 1] \in Nat
        /\ h.sent[lag + 1] <= h.sent[N]
        /\ \A j \in lag + 1 .. N - 1 : /\ h.sent[j] \in Nat
                                       /\ h.sent[lag + 1] <= h.sent[j]
    <2>1. \A j \in lag + 1 .. N - 1 : j \in 0 .. N /\ lag + 1 <= j
      BY <1>2
    <2>2. N \in 0 .. N /\ lag + 1 <= N
      BY <1>2, <1>3
    <2> QED
      BY <1>2, <1>3, <2>1, <2>2 DEF Trajectory
  <1>10. \A j \in lag + 1 .. N - 1 : Kind(h.state[j]) # "free" =>
           h.sent[j] + 1 <= h.sent[N]
    <2> SUFFICES ASSUME NEW j \in lag + 1 .. N - 1, Kind(h.state[j]) # "free"
                 PROVE  h.sent[j] + 1 <= h.sent[N]
      OBVIOUS
    <2>1. j \in 0 .. N - 1 /\ j + 1 \in 0 .. N /\ N \in 0 .. N /\ j + 1 <= N
      BY <1>2
    <2>2. Follows(h, calls, j) /\ h.sent[j + 1] <= h.sent[N]
      BY <1>2, <2>1 DEF Trajectory
    <2> QED
      BY <2>2 DEF Follows
  <1>11. Kind(x) # "free" =>
           /\ c[p] # <<>> /\ Head(c[p]) = h.msg[lag] /\ Author(x) = q
    <2> SUFFICES ASSUME Kind(x) # "free"
                 PROVE  c[p] # <<>> /\ Head(c[p]) = h.msg[lag] /\ Author(x) = q
      OBVIOUS
    <2>1. h.sent[lag + 1] = h.sent[lag] + 1
      BY <1>6 DEF Follows
    <2>2. Len(c[p]) >= 1 /\ h.sent[lag] - h.sent[lag] + 1 = 1
      BY <1>5, <1>9, <2>1
    <2>3. lag \in lag .. N - 1
      BY <1>2, <1>3
    <2>4. c[p][1] = h.msg[lag] /\ Author(x) = q
      BY <1>5, <2>2, <2>3
    <2> QED
      BY <1>2, <2>2, <2>4
  <1> DEFINE moved == IF Kind(x) = "free" THEN 0 ELSE 1
  <1>12. /\ h.sent[lag + 1] = h.sent[lag] + moved /\ moved \in {0, 1}
         /\ d[p] \in Seq(Message) /\ Len(d[p]) = Len(c[p]) - moved
         /\ \A i \in 1 .. Len(d[p]) : d[p][i] = c[p][i + moved]
    <2>1. h.sent[lag + 1] = h.sent[lag] + moved /\ moved \in {0, 1}
      BY <1>6, <1>9 DEF Follows
    <2>2. CASE Kind(x) = "free"
      BY <1>1, <1>2, <2>1, <2>2
    <2>3. CASE Kind(x) # "free"
      BY <1>1, <1>2, <1>11, <2>1, <2>3
    <2> QED
      BY <2>2, <2>3
  <1> HIDE DEF moved
  <1>13. Leads(g, q, d[p])
    <2>1. Len(d[p]) = h.sent[N] - h.sent[lag + 1]
      <3>1. /\ Len(c[p]) = h.sent[N] - h.sent[lag] /\ Len(d[p]) = Len(c[p]) - moved
            /\ h.sent[lag + 1] = h.sent[lag] + moved /\ moved \in {0, 1}
            /\ h.sent[N] \in Nat /\ h.sent[lag] \in Nat
        BY <1>5, <1>9, <1>12
      <3> QED
        BY <3>1
    <2>2. ASSUME NEW j \in lag + 1 .. N - 1, Kind(h.state[j]) # "free"
          PROVE  /\ Author(h.state[j]) = q
                 /\ d[p][h.sent[j] - h.sent[lag + 1] + 1] = h.msg[j]
      <3>1. j \in lag .. N - 1
        BY <1>2
      <3>2. /\ Author(h.state[j]) = q
            /\ c[p][h.sent[j] - h.sent[lag] + 1] = h.msg[j]
        BY <1>5, <2>2, <3>1
      <3> DEFINE i == h.sent[j] - h.sent[lag + 1] + 1
      <3>3. i \in 1 .. Len(d[p]) /\ h.sent[j] - h.sent[lag] + 1 = i + moved
        <4>1. /\ h.sent[j] \in Nat /\ h.sent[lag + 1] <= h.sent[j]
              /\ h.sent[j] + 1 <= h.sent[N]
          BY <1>9, <1>10, <2>2
        <4>2. /\ h.sent[lag + 1] = h.sent[lag] + moved /\ moved \in {0, 1}
              /\ h.sent[N] \in Nat /\ h.sent[lag] \in Nat
              /\ Len(d[p]) = h.sent[N] - h.sent[lag + 1]
          BY <1>9, <1>12, <2>1
        <4> DEFINE u == h.sent[j]  v == h.sent[lag]
                   w == h.sent[lag + 1]  z == h.sent[N]
        <4>3. /\ u \in Nat /\ v \in Nat /\ z \in Nat /\ w <= u /\ u + 1 <= z
              /\ w = v + moved /\ moved \in {0, 1} /\ Len(d[p]) = z - w
          BY <4>1, <4>2
        <4> HIDE DEF u, v, w, z
        <4>4. u - w + 1 \in 1 .. Len(d[p]) /\ u - v + 1 = (u - w + 1) + moved
          BY <4>3
        <4> QED
          BY <4>4 DEF u, v, w, z
      <3>4. d[p][i] = c[p][i + moved]
        BY <1>12, <3>3
      <3> QED
        BY <3>2, <3>3, <3>4
    <2> QED
      BY <1>1, <1>5, <1>7, <2>1, <2>2 DEF Leads
  <1>14. Linked(g, calls, d)
    <2>1. ASSUME NEW r \in Parties PROVE g.at[r] \in 0 .. g.last /\ d[r] \in Seq(Message)
      <3>1. CASE r = p
        BY <1>3, <1>7, <1>12, <3>1
      <3>2. CASE r = q
        BY <1>2, <1>7, <3>2
      <3> QED
        BY <1>1, <3>1, <3>2
    <2> QED
      BY <1>1, <1>4, <1>8, <1>13, <2>1 DEF Linked
  <1>15. Here(g, p) = h.state[lag + 1] /\ Here(g, q) = Here(h, q)
    BY <1>7 DEF Here
  <1> QED
    BY <1>1, <1>6, <1>11, <1>14, <1>15 DEF g

\* An end that lags has what the next step needs.
LEMMA LaggardCan ==
  ASSUME NEW calls \in Seq(Call), NEW h, NEW c, Linked(h, calls, c),
         NEW p \in Parties, h.at[p] # h.last
  PROVE  /\ Possible(Here(h, p), calls)
         /\ Kind(Here(h, p)) # "free" => c[p] # <<>> /\ Author(Here(h, p)) = Peer(p)
  <1> DEFINE d == [q \in Parties |-> IF q = p /\ Kind(Here(h, p)) # "free"
                                     THEN Tail(c[q]) ELSE c[q]]
  <1>1. Peer(p) \in Parties /\ Peer(p) # p
    BY PeerType
  <1>2. /\ d[Peer(p)] = c[Peer(p)]
        /\ d[p] = IF Kind(Here(h, p)) = "free" THEN c[p] ELSE Tail(c[p])
    BY <1>1
  <1> HIDE DEF d
  <1>3. /\ Follows(h, calls, h.at[p])
        /\ Kind(Here(h, p)) # "free" => c[p] # <<>> /\ Author(Here(h, p)) = Peer(p)
    BY <1>2, LaggardMoves
  <1> QED
    BY <1>3 DEF Follows, Here

\* A step keeps the results, and adds one at most.
LEMMA SuccContinues ==
  ASSUME NEW x, NEW calls, NEW m, x.n \in Nat
  PROVE  Continues(x, Succ(x, calls, m)) /\ Succ(x, calls, m).n \in {x.n, x.n + 1}
  <1> DEFINE Same(y) == y.n = x.n /\ y.res = x.res
             Added(y) == y.n = x.n + 1 /\ \A k \in 1 .. x.n : y.res[k] = x.res[k]
  <1>1. \A y : Same(y) \/ Added(y) => Continues(x, y) /\ y.n \in {x.n, x.n + 1}
    BY DEF Continues
  <1>2. \A elements, par, own : /\ Added(Ends(x, TRUE, elements, par, own))
                                /\ Added(Ends(x, FALSE, elements, par, own))
    BY DEF Ends, JointState
  <1>3. \A pos : Same(Go(x, pos))
    BY DEF Go, JointState
  <1>4. /\ Same(PastIdle(x, calls)) /\ Same(First(x)) /\ Same(PastGilboa0(x, m))
        /\ Same(PastGilboa1(x, m)) /\ Same(PastLoop(x)) /\ Same(PastWait0(x, m))
    BY DEF PastIdle, First, PastGilboa0, PastGilboa1, PastLoop, PastWait0, JointState
  <1>5. Same(PastWait1(x))
    BY DEF PastWait1, JointState
  <1>6. /\ Same(PastBegin(x)) \/ Added(PastBegin(x))
        /\ Same(PastExpand(x)) \/ Added(PastExpand(x))
        /\ Same(PastFetch(x)) \/ Added(PastFetch(x))
    <2> HIDE DEF Same, Added
    <2> QED
      BY <1>2, <1>3, <1>4 DEF PastBegin, PastExpand, PastFetch
  <1>7. Same(PastSeed(x, m)) \/ Added(PastSeed(x, m))
    <2>1. CASE x.call.output > MaxGenerator
      <3> HIDE DEF Added, Same
      <3> QED
        BY <1>2, <2>1 DEF PastSeed
    <2>2. CASE ~(x.call.output > MaxGenerator) /\ ~x.call.final
      BY <2>2 DEF PastSeed, JointState
    <2>3. CASE /\ ~(x.call.output > MaxGenerator) /\ x.call.final
               /\ x.call.op = "Precompute"
      <3> HIDE DEF Added, Same
      <3> QED
        BY <1>2, <2>3 DEF PastSeed
    <2>4. CASE /\ ~(x.call.output > MaxGenerator) /\ x.call.final
               /\ x.call.op # "Precompute"
      BY <2>4 DEF PastSeed, JointState
    <2> QED
      BY <2>1, <2>2, <2>3, <2>4
  <1>8. Same(PastCopy(x)) \/ Added(PastCopy(x))
    <2> DEFINE missing == x.call.size - Len(x.call.copied)
    <2>1. CASE Len(Own(x).cached) > missing
      <3> HIDE DEF Added, Same
      <3> QED
        BY <1>2, <2>1 DEF PastCopy
    <2>2. CASE /\ ~(Len(Own(x).cached) > missing)
               /\ Len(x.call.copied \o Own(x).cached) = x.call.size
      <3> HIDE DEF Added, Same
      <3> QED
        BY <1>2, <2>2 DEF PastCopy
    <2>3. CASE /\ ~(Len(Own(x).cached) > missing)
               /\ Len(x.call.copied \o Own(x).cached) # x.call.size
      BY <2>3 DEF PastCopy, JointState
    <2> QED
      BY <2>1, <2>2, <2>3
  <1>9. Same(Succ(x, calls, m)) \/ Added(Succ(x, calls, m))
    <2> HIDE DEF Same, Added
    <2> QED
      BY <1>4, <1>5, <1>6, <1>7, <1>8 DEF Succ
  <1> QED
    BY <1>1, <1>9

\* The end p takes a step that needs no message: the first of the two to do so
\* shows that the new state is a good one.
LEMMA LinkedFree ==
  ASSUME NEW calls \in Seq(Call), NEW h, NEW c, Linked(h, calls, c),
         NEW p \in Parties, Kind(Here(h, p)) = "free", Possible(Here(h, p), calls),
         Good(Succ(Here(h, p), calls, NoMessage), calls)
  PROVE  \E g : /\ Linked(g, calls, c)
                /\ Here(g, p) = Succ(Here(h, p), calls, NoMessage)
                /\ Here(g, Peer(p)) = Here(h, Peer(p))
  <1> DEFINE x == Here(h, p)
             y == Succ(x, calls, NoMessage)
  <1>1. x.n \in Nat
    BY LinkedGood DEF Good, ResultsGiven
  <1>2. Continues(x, y)
    BY <1>1, SuccContinues
  <1>3. CASE h.at[p] = h.last
    <2> DEFINE g == Longer(h, p, y, NoMessage, 0)
    <2>1. /\ Linked(g, calls, c) /\ Here(g, p) = y
          /\ Here(g, Peer(p)) = Here(h, Peer(p))
      <3> HIDE DEF y
      <3>1. y = Succ(Here(h, p), calls, NoMessage)
        BY DEF y
      <3> QED
        BY <1>2, <1>3, <3>1, LeaderMoves
    <2> HIDE DEF g
    <2> QED
      BY <2>1
  <1>4. CASE h.at[p] # h.last
    <2> DEFINE g == Moving(h, p)
    <2>1. /\ Linked(g, calls, c) /\ Follows(h, calls, h.at[p])
          /\ Here(g, p) = h.state[h.at[p] + 1]
          /\ Here(g, Peer(p)) = Here(h, Peer(p))
      BY <1>4, LaggardMoves
    <2> HIDE DEF g
    <2>2. Here(g, p) = y
      BY <2>1 DEF Follows, Here
    <2> QED
      BY <2>1, <2>2
  <1> QED
    BY <1>3, <1>4

\* The channels before and after p sends the message m, or takes one.
Told(c, d, p, m) == d[p] = c[p] /\ d[Peer(p)] = Append(c[Peer(p)], m)
Taken(c, d, p) == d[Peer(p)] = c[Peer(p)] /\ d[p] = Tail(c[p])

\* The end p takes a step with a message that it sends: it leads.
LEMMA LinkedSend ==
  ASSUME NEW calls \in Seq(Call), NEW h, NEW c, NEW d, Linked(h, calls, c),
         NEW p \in Parties, Kind(Here(h, p)) # "free", Author(Here(h, p)) = p,
         Possible(Here(h, p), calls), NEW m \in Message, Proper(Here(h, p), m),
         Told(c, d, p, m), Good(Succ(Here(h, p), calls, m), calls)
  PROVE  \E g : /\ Linked(g, calls, d)
                /\ Here(g, p) = Succ(Here(h, p), calls, m)
                /\ Here(g, Peer(p)) = Here(h, Peer(p))
  <1> DEFINE x == Here(h, p)
             y == Succ(x, calls, m)
             g == Longer(h, p, y, m, 1)
  <1>1. x.n \in Nat
    BY LinkedGood DEF Good, ResultsGiven
  <1>2. Continues(x, y)
    BY <1>1, SuccContinues
  <1>3. h.at[p] = h.last
    BY PeerType, LaggardCan
  <1>4. /\ Linked(g, calls, d) /\ Here(g, p) = y
        /\ Here(g, Peer(p)) = Here(h, Peer(p))
    <2> HIDE DEF y
    <2>1. y = Succ(Here(h, p), calls, m)
      BY DEF y
    <2> QED
      BY <1>2, <1>3, <2>1, LeaderMoves DEF Told
  <1> HIDE DEF g
  <1> QED
    BY <1>4

\* The end p takes a step with a message that its peer sends: once there is one, it
\* is the one that the step is made with.
LEMMA LinkedReceive ==
  ASSUME NEW calls \in Seq(Call), NEW h, NEW c, NEW d, Linked(h, calls, c),
         NEW p \in Parties, Kind(Here(h, p)) # "free", Author(Here(h, p)) = Peer(p),
         c[p] # <<>>, Taken(c, d, p)
  PROVE  /\ Proper(Here(h, p), Head(c[p]))
         /\ \E g : /\ Linked(g, calls, d)
                   /\ Here(g, p) = Succ(Here(h, p), calls, Head(c[p]))
                   /\ Here(g, Peer(p)) = Here(h, Peer(p))
  <1> DEFINE g == Moving(h, p)
  <1>1. h.at[p] # h.last
    BY LastLeads
  <1>2. /\ Linked(g, calls, d) /\ Follows(h, calls, h.at[p])
        /\ Here(g, p) = h.state[h.at[p] + 1]
        /\ Here(g, Peer(p)) = Here(h, Peer(p))
        /\ Head(c[p]) = h.msg[h.at[p]]
    BY <1>1, LaggardMoves DEF Taken
  <1> HIDE DEF g
  <1>3. /\ Proper(Here(h, p), Head(c[p]))
        /\ Here(g, p) = Succ(Here(h, p), calls, Head(c[p]))
    BY <1>2 DEF Follows, Here
  <1> QED
    BY <1>2, <1>3

\* An end that waits leads: the other one has the same state before it, or can go
\* on, with the message of its step if it needs one.
LEMMA LinkedWaits ==
  ASSUME NEW calls \in Seq(Call), NEW h, NEW c, Linked(h, calls, c),
         NEW p \in Parties, Kind(Here(h, p)) # "free", c[p] = <<>>
  PROVE  \/ Here(h, Peer(p)) = Here(h, p)
         \/ /\ Possible(Here(h, Peer(p)), calls)
            /\ Kind(Here(h, Peer(p))) # "free" => c[Peer(p)] # <<>>
  <1>1. Peer(p) \in Parties
    BY PeerType
  <1>2. h.at[p] = h.last
    BY LaggardCan
  <1>3. CASE h.at[Peer(p)] = h.last
    BY <1>2, <1>3 DEF Here
  <1>4. CASE h.at[Peer(p)] # h.last
    BY <1>1, <1>4, LaggardCan
  <1> QED
    BY <1>3, <1>4

\* The results of one end are the first ones of the other end.
LEMMA LinkedResults ==
  ASSUME NEW calls, NEW h, NEW c, Linked(h, calls, c), NEW p \in Parties
  PROVE  \/ Continues(Here(h, p), Here(h, Peer(p)))
         \/ Continues(Here(h, Peer(p)), Here(h, p))
  <1>1. PICK l \in Parties : Leads(h, l, c[Peer(l)])
    BY DEF Linked
  <1>2. \A q \in Parties : Continues(Here(h, q), Here(h, l))
    BY <1>1 DEF Linked, Trajectory, Leads, Here
  <1>3. Peer(p) \in Parties /\ (l = p \/ l = Peer(p))
    BY PeerType DEF Parties, Peer
  <1> QED
    BY <1>2, <1>3

\* The applications agree on a further call.
LEMMA LinkedScript ==
  ASSUME NEW calls \in Seq(Call), NEW call \in Call, NEW h, NEW c,
         Linked(h, calls, c)
  PROVE  Linked(h, Append(calls, call), c)
  <1> DEFINE more == Append(calls, call)
  <1>1. /\ Len(calls) \in Nat /\ Len(more) = Len(calls) + 1
        /\ \A k \in 1 .. Len(calls) : more[k] = calls[k]
    BY AppendProperties
  <1> HIDE DEF more
  <1>2. ASSUME NEW x, Possible(x, calls), NEW m
        PROVE  Possible(x, more) /\ Succ(x, more, m) = Succ(x, calls, m)
    <2>1. Possible(x, more)
      BY <1>1, <1>2 DEF Possible
    <2>2. x.pos = "idle" => PastIdle(x, more) = PastIdle(x, calls)
      BY <1>1, <1>2 DEF Possible, PastIdle
    <2> QED
      BY <2>1, <2>2 DEF Succ
  <1>3. \A x : Good(x, calls) => Good(x, more)
    <2> SUFFICES ASSUME NEW x, Good(x, calls) PROVE Good(x, more)
      OBVIOUS
    <2>1. InCall(x, more)
      BY <1>1 DEF Good, InCall
    <2>2. ResultsGiven(x, more)
      <3>1. x.n \in 0 .. Len(more) /\ \A k \in 1 .. x.n : k \in 1 .. Len(calls)
        BY <1>1 DEF Good, ResultsGiven
      <3>2. \A k \in 1 .. x.n : more[k] = calls[k]
        BY <1>1, <3>1
      <3> QED
        BY <3>1, <3>2 DEF Good, ResultsGiven
    <2> QED
      BY <2>1, <2>2 DEF Good
  <1>4. \A j \in 0 .. h.last - 1 : Follows(h, more, j)
    BY <1>2 DEF Linked, Trajectory, Follows
  <1>5. Trajectory(h, more)
    BY <1>3, <1>4 DEF Linked, Trajectory
  <1>6. Linked(h, more, c)
    BY <1>5 DEF Linked
  <1> QED
    BY <1>6 DEF more

-----------------------------------------------------------------------------
(* Correlated vectors.                                                     *)

\* The empty vector is under every delta.
LEMMA UnderEmpty == \A delta : Under(<<>>, delta)
  BY DEF Under, Vector

\* New elements are under the delta they are made with.
LEMMA UnderFresh ==
  ASSUME NEW delta \in Nat, NEW run \in Nat \ {0}, NEW len \in Nat
  PROVE  Under(Fresh(delta, run, len), delta) /\ Len(Fresh(delta, run, len)) = len
  <1>1. Fresh(delta, run, len) \in Vector /\ Len(Fresh(delta, run, len)) = len
    BY NewVectorTypes
  <1>2. \A i \in DOMAIN Fresh(delta, run, len) :
          Fresh(delta, run, len)[i][1] = delta /\ Fresh(delta, run, len)[i][2] # 0
    BY DEF Fresh
  <1> QED
    BY <1>1, <1>2 DEF Under

\* Vectors under one delta can be joined.
LEMMA UnderConcat ==
  ASSUME NEW a, NEW b, NEW delta, Under(a, delta), Under(b, delta)
  PROVE  Under(a \o b, delta) /\ Len(a \o b) = Len(a) + Len(b)
  <1>1. /\ a \in Vector /\ b \in Vector /\ a \o b \in Vector
        /\ Len(a \o b) = Len(a) + Len(b)
    BY ConcatType DEF Under
  <1>2. /\ Len(a) \in Nat /\ Len(b) \in Nat
        /\ DOMAIN a = 1 .. Len(a) /\ DOMAIN b = 1 .. Len(b)
        /\ DOMAIN (a \o b) = 1 .. Len(a) + Len(b)
    BY <1>1 DEF Vector
  <1>3. ASSUME NEW i \in DOMAIN (a \o b)
        PROVE  (a \o b)[i][1] = delta /\ (a \o b)[i][2] # 0
    <2>1. CASE i <= Len(a)
      <3>1. i \in DOMAIN a /\ (a \o b)[i] = a[i]
        BY <1>1, <1>2, <2>1 DEF Vector
      <3> QED
        BY <3>1 DEF Under
    <2>2. CASE ~(i <= Len(a))
      <3>1. i - Len(a) \in DOMAIN b /\ (a \o b)[i] = b[i - Len(a)]
        BY <1>1, <1>2, <2>2 DEF Vector
      <3> QED
        BY <3>1 DEF Under
    <2> QED
      BY <2>1, <2>2
  <1> QED
    BY <1>1, <1>3 DEF Under

\* What is taken from the end of a correlated vector, and what is left.
LEMMA UnderSplit ==
  ASSUME NEW vec, NEW delta, Under(vec, delta), NEW n \in Nat, n <= Len(vec)
  PROVE  /\ Under(TailOf(vec, n), delta) /\ Len(TailOf(vec, n)) = n
         /\ Under(WithoutTail(vec, n), delta)
         /\ Len(WithoutTail(vec, n)) = Len(vec) - n
  <1>1. /\ vec \in Vector /\ Len(vec) \in Nat /\ Len(vec) - n \in Nat
        /\ DOMAIN vec = 1 .. Len(vec)
    BY DEF Under, Vector
  <1>2. /\ TailOf(vec, n) \in Vector /\ Len(TailOf(vec, n)) = n
        /\ WithoutTail(vec, n) \in Vector
        /\ Len(WithoutTail(vec, n)) = Len(vec) - n
    BY <1>1, TailType
  <1>3. ASSUME NEW i \in DOMAIN TailOf(vec, n)
        PROVE  TailOf(vec, n)[i][1] = delta /\ TailOf(vec, n)[i][2] # 0
    <2>1. i \in 1 .. n
      BY <1>2, <1>3 DEF Vector
    <2>2. Len(vec) - n + i \in DOMAIN vec
      BY <1>1, <2>1
    <2>3. TailOf(vec, n)[i] = vec[Len(vec) - n + i]
      BY <1>1, <2>1 DEF TailOf, Vector
    <2> QED
      BY <2>2, <2>3 DEF Under
  <1>4. ASSUME NEW i \in DOMAIN WithoutTail(vec, n)
        PROVE  WithoutTail(vec, n)[i][1] = delta /\ WithoutTail(vec, n)[i][2] # 0
    <2>1. i \in 1 .. Len(vec) - n
      BY <1>2, <1>4 DEF Vector
    <2>2. i \in DOMAIN vec
      BY <1>1, <2>1
    <2>3. WithoutTail(vec, n)[i] = vec[i]
      BY <1>1, <2>1 DEF WithoutTail, Vector
    <2> QED
      BY <2>2, <2>3 DEF Under
  <1> QED
    BY <1>2, <1>3, <1>4 DEF Under

-----------------------------------------------------------------------------
(* What a step keeps of a good state.                                      *)

\* What both ends hold of a Sender other than the current one.
LEMMA StockKept ==
  ASSUME NEW x, NEW y, StockUnder(x), y.stock = x.stock,
         \A d \in Parties : Renewing(x, d) => Renewing(y, d)
  PROVE  StockUnder(y)
  BY DEF StockUnder

OwnUnder(o) ==
  /\ o.delta \in Nat /\ o.done \in BOOLEAN /\ o.mpfss_delta = o.delta
  /\ Under(o.vole_seed, o.delta) /\ Under(o.mpfss_seed, o.delta)
  /\ Under(o.cached, o.delta)

\* What is held of the current Sender, unless it renews its first seeds.
LEMMA OwnStock ==
  ASSUME NEW x, StockUnder(x), x.sender \in Parties,
         x.pos \notin {"gilboa0", "gilboa1"}
  PROVE  OwnUnder(Own(x))
  BY DEF StockUnder, Renewing, Own, OwnUnder

\* A change to the members of one role keeps those of both under their deltas.
LEMMA StockOwn ==
  ASSUME NEW x, NEW y, NEW own, StockUnder(x), x.sender \in Parties,
         y.stock = WithOwn(x, own), y.sender = x.sender, OwnUnder(own)
  PROVE  StockUnder(y)
  BY DEF StockUnder, WithOwn, OwnUnder, Renewing

\* A step within a call changes no result, and delta only with the first seeds.
LEMMA GoodMoves ==
  ASSUME NEW calls \in Seq(Call), NEW x, NEW y, Good(x, calls),
         y.n = x.n, y.res = x.res, y.pos # "idle",
         x.pos # "idle" => y.sender = x.sender /\ y.call.op = x.call.op,
         \A d \in Parties :
           /\ x.stock[d].done => y.stock[d].done
           /\ \/ y.stock[d].delta = x.stock[d].delta
              \/ y.sender = d /\ (y.call.op = "Precompute" \/ ~x.stock[d].done),
         StockUnder(y), InCall(y, calls)
  PROVE  Good(y, calls)
  <1>1. ResultsGiven(x, calls) /\ DeltaKept(x)
    BY DEF Good
  <1>2. ResultsGiven(y, calls)
    BY <1>1 DEF ResultsGiven
  <1>3. \A k \in 1 .. x.n : x.res[k].sender \in Parties
    BY <1>1 DEF ResultsGiven, Call
  <1>4. \A j, k : SameDelta(y, j, k) <=> SameDelta(x, j, k)
    BY DEF SameDelta
  <1>5. DeltaKept(y)
    <2> SUFFICES ASSUME NEW j \in 1 .. x.n, GaveElements(x.res[j])
                 PROVE  /\ \A k \in j .. x.n :
                             /\ GaveElements(x.res[k])
                             /\ x.res[k].sender = x.res[j].sender
                             /\ SameDelta(x, j, k)
                             => x.res[k].delta = x.res[j].delta
                        /\ SameDelta(x, j, x.n) =>
                             LET d == x.res[j].sender
                             IN  /\ y.stock[d].done
                                 /\ \/ y.stock[d].delta = x.res[j].delta
                                    \/ /\ y.pos # "idle" /\ y.sender = d
                                       /\ y.call.op = "Precompute"
      BY <1>4 DEF DeltaKept
    <2>1. \A k \in j .. x.n :
            /\ GaveElements(x.res[k]) /\ x.res[k].sender = x.res[j].sender
            /\ SameDelta(x, j, k)
            => x.res[k].delta = x.res[j].delta
      BY <1>1 DEF DeltaKept
    <2>2. ASSUME SameDelta(x, j, x.n)
          PROVE  LET d == x.res[j].sender
                 IN  /\ y.stock[d].done
                     /\ \/ y.stock[d].delta = x.res[j].delta
                        \/ /\ y.pos # "idle" /\ y.sender = d
                           /\ y.call.op = "Precompute"
      <3> DEFINE d == x.res[j].sender
      <3>1. /\ x.stock[d].done
            /\ \/ x.stock[d].delta = x.res[j].delta
               \/ x.pos # "idle" /\ x.sender = d /\ x.call.op = "Precompute"
        BY <1>1, <2>2 DEF DeltaKept
      <3>2. d \in Parties
        BY <1>3
      <3> HIDE DEF d
      <3>3. /\ y.stock[d].done
            /\ \/ y.stock[d].delta = x.res[j].delta
               \/ y.pos # "idle" /\ y.sender = d /\ y.call.op = "Precompute"
        BY <3>1, <3>2
      <3> QED
        BY <3>3 DEF d
    <2> QED
      BY <2>1, <2>2
  <1> QED
    BY <1>2, <1>5 DEF Good

\* A call returns, with elements under the current delta or none.
LEMMA GoodReturns ==
  ASSUME NEW calls \in Seq(Call), NEW x, Good(x, calls),
         x.pos \notin {"idle", "gilboa0", "gilboa1"},
         NEW ok \in BOOLEAN, NEW elements, NEW par, NEW own,
         Under(elements, Own(x).delta),
         IF ok /\ x.call.op = "Run" THEN Len(elements) = x.call.size /\ own.done
                                    ELSE elements = <<>>,
         OwnUnder(own), own.delta = Own(x).delta, Own(x).done => own.done
  PROVE  Good(Ends(x, ok, elements, par, own), calls)
  <1> DEFINE y == Ends(x, ok, elements, par, own)
             n == x.n + 1
             r == [op |-> x.call.op, sender |-> x.sender, ok |-> ok,
                   elements |-> elements, delta |-> Own(x).delta]
  <1>1. /\ StockUnder(x) /\ InCall(x, calls) /\ ResultsGiven(x, calls)
        /\ DeltaKept(x)
    BY DEF Good
  <1>2. /\ n \in 1 .. Len(calls) /\ x.sender = calls[n].sender
        /\ x.call.op = calls[n].op /\ x.call.size = calls[n].size
        /\ x.n \in Nat
    BY <1>1 DEF InCall, ResultsGiven
  <1>3. x.sender \in Parties
    BY <1>2 DEF Call
  <1>4. /\ y.pos = "idle" /\ y.n = n /\ y.sender = x.sender
        /\ y.stock = WithOwn(x, own)
        /\ y.res[n] = r /\ \A k \in 1 .. x.n : y.res[k] = x.res[k]
    BY <1>2 DEF Ends, JointState
  <1>5. /\ y.stock[x.sender] = own
        /\ \A d \in Parties \ {x.sender} : y.stock[d] = x.stock[d]
    BY <1>3, <1>4 DEF WithOwn
  <1> HIDE DEF y
  <1>6. StockUnder(y) /\ InCall(y, calls)
    BY <1>1, <1>3, <1>4, StockOwn DEF InCall
  <1>7. \A k \in 1 .. n : k = n \/ k \in 1 .. x.n
    BY <1>2
  <1>8. ResultsGiven(y, calls)
    <2>1. y.n \in 0 .. Len(calls)
      BY <1>2, <1>4
    <2>2. ASSUME NEW k \in 1 .. n
          PROVE  LET s == y.res[k]
                 IN  /\ s.op = calls[k].op /\ s.sender = calls[k].sender
                     /\ s.ok \in BOOLEAN
                     /\ Under(s.elements, s.delta)
                     /\ IF s.ok /\ s.op = "Run" THEN Len(s.elements) = calls[k].size
                                                ELSE s.elements = <<>>
      <3>1. CASE k = n
        BY <1>2, <1>4, <3>1
      <3>2. CASE k \in 1 .. x.n
        BY <1>1, <1>4, <3>2 DEF ResultsGiven
      <3> QED
        BY <1>7, <3>1, <3>2
    <2> QED
      BY <1>4, <2>1, <2>2 DEF ResultsGiven
  <1>9. ASSUME NEW j \in 1 .. x.n, NEW k \in j .. n, SameDelta(y, j, k)
        PROVE  /\ k = n => (x.res[j].sender = x.sender => x.call.op = "Run")
               /\ IF k = n THEN SameDelta(x, j, x.n) ELSE SameDelta(x, j, k)
    <2>1. \A i \in j .. k : i = n \/ i \in 1 .. x.n
      BY <1>2
    <2>2. y.res[j] = x.res[j]
      BY <1>4
    <2>3. CASE k = n
      <3>1. \A i \in j .. x.n : i \in j .. k /\ y.res[i] = x.res[i]
        BY <1>2, <1>4, <2>3
      <3>2. SameDelta(x, j, x.n)
        BY <1>9, <2>2, <3>1 DEF SameDelta
      <3>3. n \in j .. k
        BY <1>2, <2>3
      <3>4. y.res[n].sender = x.sender /\ y.res[n].op = x.call.op
        BY <1>4
      <3> QED
        BY <1>9, <2>2, <2>3, <3>2, <3>3, <3>4 DEF SameDelta
    <2>4. CASE k # n
      <3>1. \A i \in j .. k : y.res[i] = x.res[i]
        BY <1>2, <1>4, <2>1, <2>4
      <3> QED
        BY <1>9, <2>2, <2>4, <3>1 DEF SameDelta
    <2> QED
      BY <2>3, <2>4
  <1>10. DeltaKept(y)
    <2> SUFFICES ASSUME NEW j \in 1 .. n, GaveElements(y.res[j])
                 PROVE  /\ \A k \in j .. n :
                             /\ GaveElements(y.res[k])
                             /\ y.res[k].sender = y.res[j].sender
                             /\ SameDelta(y, j, k)
                             => y.res[k].delta = y.res[j].delta
                        /\ SameDelta(y, j, n) =>
                             LET d == y.res[j].sender
                             IN  /\ y.stock[d].done
                                 /\ y.stock[d].delta = y.res[j].delta
      BY <1>4 DEF DeltaKept
    <2>1. CASE j = n
      <3>1. \A k \in j .. n : k = n
        BY <1>2, <2>1
      <3>2. own.done /\ y.stock[r.sender] = own /\ own.delta = r.delta
        BY <1>4, <1>5, <2>1 DEF GaveElements
      <3> QED
        BY <1>4, <2>1, <3>1, <3>2
    <2>2. CASE j \in 1 .. x.n
      <3> DEFINE d == x.res[j].sender
      <3>1. y.res[j] = x.res[j] /\ d \in Parties
        BY <1>1, <1>4, <2>2 DEF ResultsGiven, Call
      <3>2. ASSUME SameDelta(y, j, n)
            PROVE  /\ y.stock[d].done /\ y.stock[d].delta = x.res[j].delta
                   /\ d = x.sender => Own(x).delta = x.res[j].delta
        <4>1. n \in j .. n
          BY <1>2, <2>2
        <4>2. /\ SameDelta(x, j, x.n)
              /\ d = x.sender => x.call.op = "Run"
          BY <1>9, <2>2, <3>2, <4>1
        <4>3. /\ x.stock[d].done
              /\ \/ x.stock[d].delta = x.res[j].delta
                 \/ x.sender = d /\ x.call.op = "Precompute"
          BY <1>1, <2>2, <3>1, <4>2 DEF DeltaKept
        <4> HIDE DEF d
        <4>4. x.stock[d].done /\ x.stock[d].delta = x.res[j].delta
          BY <4>2, <4>3
        <4>5. CASE d = x.sender
          BY <1>5, <4>4, <4>5 DEF Own
        <4>6. CASE d # x.sender
          BY <1>5, <3>1, <4>4, <4>6
        <4> QED
          BY <4>5, <4>6
      <3>3. ASSUME NEW k \in j .. n, GaveElements(y.res[k]),
                   y.res[k].sender = d, SameDelta(y, j, k)
            PROVE  y.res[k].delta = x.res[j].delta
        <4>1. CASE k = n
          BY <1>4, <3>2, <3>3, <4>1
        <4>2. CASE k # n
          <5>1. k \in j .. x.n /\ k \in 1 .. x.n
            BY <1>2, <2>2, <4>2
          <5>2. y.res[k] = x.res[k] /\ SameDelta(x, j, k)
            BY <1>4, <1>9, <2>2, <3>3, <4>2, <5>1
          <5> QED
            BY <1>1, <2>2, <3>1, <3>3, <5>1, <5>2 DEF DeltaKept
        <4> QED
          BY <4>1, <4>2
      <3> QED
        BY <3>1, <3>2, <3>3
    <2> QED
      BY <1>7, <2>1, <2>2
  <1>11. Good(y, calls)
    BY <1>6, <1>8, <1>10 DEF Good
  <1> QED
    BY <1>11 DEF y

\* The two new seeds are cut from a correlated vector.
LEMMA ReseededUnder ==
  ASSUME NEW o, NEW vec, NEW vole \in Nat, NEW mpfss \in Nat,
         o.delta \in Nat, o.done \in BOOLEAN, Under(vec, o.delta),
         vole + mpfss <= Len(vec)
  PROVE  /\ OwnUnder(Reseeded(o, vec, vole, mpfss))
         /\ Reseeded(o, vec, vole, mpfss).delta = o.delta
         /\ Reseeded(o, vec, vole, mpfss).done = o.done
  <1> DEFINE rest == WithoutTail(vec, vole)
  <1>1. Len(vec) \in Nat /\ vole <= Len(vec)
    BY DEF Under, Vector
  <1>2. /\ Under(TailOf(vec, vole), o.delta) /\ Under(rest, o.delta)
        /\ Len(rest) = Len(vec) - vole
    BY <1>1, UnderSplit
  <1>3. mpfss <= Len(rest)
    BY <1>1, <1>2
  <1>4. Under(TailOf(rest, mpfss), o.delta) /\ Under(WithoutTail(rest, mpfss), o.delta)
    BY <1>2, <1>3, UnderSplit
  <1> QED
    BY <1>2, <1>4 DEF Reseeded, Holding, OwnUnder

\* What a step takes from the members is there.
Enough(x) ==
  /\ x.pos # "idle" /\ x.call.op = "Run" =>
       x.call.size \in Nat /\ Len(x.call.copied) <= x.call.size
  /\ x.pos = "gilboa1" => x.par.vole_seed_size \in Nat /\ x.par.mpfss_seed_size \in Nat
  /\ x.pos = "wait1" =>
       /\ x.call.output \in Nat /\ x.call.new_vole \in Nat /\ x.call.new_mpfss \in Nat
       /\ x.call.new_vole + x.call.new_mpfss <= x.call.output

\* Within a call, the Sender is one of the ends.
LEMMA CallTypes ==
  ASSUME NEW calls \in Seq(Call), NEW x, InCall(x, calls), x.pos # "idle"
  PROVE  x.sender \in Parties /\ x.call.op \in {"Precompute", "Run"}
  <1>1. calls[x.n + 1] \in Call
    BY DEF InCall
  <1> QED
    BY <1>1 DEF InCall, Call

\* A call begins.
LEMMA GoodFromIdle ==
  ASSUME NEW calls \in Seq(Call), NEW x, Good(x, calls), x.pos = "idle",
         Possible(x, calls)
  PROVE  Good(PastIdle(x, calls), calls)
  <1> DEFINE y == PastIdle(x, calls)
  <1>1. /\ y.pos = "begin" /\ y.n = x.n /\ y.res = x.res /\ y.stock = x.stock
        /\ y.sender = calls[x.n + 1].sender /\ y.call.op = calls[x.n + 1].op
        /\ y.call.size = calls[x.n + 1].size /\ y.call.copied = <<>>
    BY DEF PastIdle, JointState, Frame, NoCall
  <1>2. x.n + 1 \in 1 .. Len(calls)
    BY DEF Possible
  <1> HIDE DEF y
  <1>3. StockUnder(y) /\ InCall(y, calls)
    BY <1>1, <1>2, StockKept DEF Good, InCall, Renewing
  <1>4. Good(y, calls)
    BY <1>1, <1>3, GoodMoves
  <1> QED
    BY <1>4 DEF y

\* A call is refused, precomputes, or goes on to fetch.
LEMMA GoodFromBegin ==
  ASSUME NEW calls \in Seq(Call), NEW x, Good(x, calls), x.pos = "begin"
  PROVE  Good(PastBegin(x), calls)
  <1>1. /\ StockUnder(x) /\ InCall(x, calls) /\ x.sender \in Parties
        /\ x.call.op \in {"Precompute", "Run"} /\ x.call.copied = <<>>
    BY CallTypes DEF Good, InCall
  <1>2. OwnUnder(Own(x))
    BY <1>1, OwnStock
  <1>3. CASE ~NeedsFirst(x)
    <2> DEFINE y == Go(x, "fetch")
    <2>1. /\ y.pos = "fetch" /\ y.n = x.n /\ y.res = x.res /\ y.stock = x.stock
          /\ y.sender = x.sender /\ y.call = x.call
      BY DEF Go, JointState
    <2> HIDE DEF y
    <2>2. x.call.op = "Run" /\ Own(x).done /\ Own(y).done
      BY <1>1, <1>3, <2>1 DEF NeedsFirst, Own
    <2>3. StockUnder(y) /\ InCall(y, calls)
      BY <1>1, <2>1, <2>2, StockKept, UnderEmpty DEF InCall, Renewing
    <2>4. Good(y, calls)
      BY <2>1, <2>3, GoodMoves
    <2> QED
      BY <1>3, <2>4 DEF y, PastBegin
  <1>4. CASE NeedsFirst(x) /\ x.call.size < 1
    <2>1. Good(Ends(x, FALSE, <<>>, x.par, Own(x)), calls)
      BY <1>2, UnderEmpty, GoodReturns
    <2> QED
      BY <1>4, <2>1 DEF PastBegin
  <1>5. CASE NeedsFirst(x) /\ ~(x.call.size < 1)
    <2> DEFINE y == First(x)
               own == Recached(Own(x), Unshared(VoleSize(1) + MpfssSize(1)))
    <2>1. /\ y.pos = "gilboa0" /\ y.n = x.n /\ y.res = x.res
          /\ y.stock = WithOwn(x, own)
          /\ y.sender = x.sender /\ y.call = x.call
      BY DEF First, JointState
    <2>2. /\ own.vole_seed = Own(x).vole_seed /\ own.mpfss_seed = Own(x).mpfss_seed
          /\ own.done = Own(x).done /\ own.delta = Own(x).delta
          /\ own.mpfss_delta = Own(x).mpfss_delta
      BY DEF Recached, Holding
    <2> HIDE DEF y, own
    <2>3. /\ y.stock[x.sender] = own /\ Own(y) = own
          /\ \A d \in Parties \ {x.sender} : y.stock[d] = x.stock[d]
      BY <1>1, <2>1 DEF WithOwn, Own
    <2>4. StockUnder(y)
      <3> SUFFICES ASSUME NEW d \in Parties
                   PROVE  LET o == y.stock[d]
                          IN  /\ o.delta \in Nat /\ o.done \in BOOLEAN
                              /\ Under(o.vole_seed, o.mpfss_delta)
                              /\ Under(o.mpfss_seed, o.mpfss_delta)
                              /\ ~Renewing(y, d) =>
                                   Under(o.cached, o.delta) /\ o.mpfss_delta = o.delta
        BY DEF StockUnder
      <3>1. CASE d = x.sender
        BY <1>2, <2>1, <2>2, <2>3, <3>1 DEF OwnUnder, Renewing
      <3>2. CASE d # x.sender
        BY <1>1, <2>3, <3>2 DEF StockUnder, Renewing
      <3> QED
        BY <3>1, <3>2
    <2>5. NeedsFirst(y)
      BY <1>5, <2>1, <2>2, <2>3 DEF NeedsFirst
    <2>6. InCall(y, calls)
      BY <1>1, <2>1, <2>5 DEF InCall
    <2>7. \A d \in Parties : /\ x.stock[d].done => y.stock[d].done
                             /\ y.stock[d].delta = x.stock[d].delta
      BY <2>2, <2>3 DEF Own
    <2>8. Good(y, calls)
      BY <2>1, <2>4, <2>6, <2>7, GoodMoves
    <2> QED
      BY <1>5, <2>8 DEF y, PastBegin
  <1> QED
    BY <1>3, <1>4, <1>5

\* delta is drawn, and the choices are sent.
LEMMA GoodFromGilboa0 ==
  ASSUME NEW calls \in Seq(Call), NEW x, Good(x, calls), x.pos = "gilboa0",
         NEW m, Proper(x, m)
  PROVE  Good(PastGilboa0(x, m), calls)
  <1> DEFINE y == PastGilboa0(x, m)
             o == Own(x)
             own == Holding(o.cached, o.vole_seed, o.mpfss_seed, o.done, m.delta,
                            o.mpfss_delta)
  <1>1. /\ StockUnder(x) /\ InCall(x, calls) /\ x.sender \in Parties
        /\ NeedsFirst(x) /\ x.call.copied = <<>> /\ m.delta \in Nat
    BY CallTypes DEF Good, InCall, Proper
  <1>2. /\ y.pos = "gilboa1" /\ y.n = x.n /\ y.res = x.res
        /\ y.stock = WithOwn(x, own) /\ y.sender = x.sender /\ y.call = x.call
    BY DEF PastGilboa0, JointState
  <1>3. /\ own.vole_seed = o.vole_seed /\ own.mpfss_seed = o.mpfss_seed
        /\ own.done = o.done /\ own.delta = m.delta
        /\ own.mpfss_delta = o.mpfss_delta
    BY DEF Holding
  <1> HIDE DEF y, own
  <1>4. /\ y.stock[x.sender] = own /\ Own(y) = own /\ o = x.stock[x.sender]
        /\ \A d \in Parties \ {x.sender} : y.stock[d] = x.stock[d]
    BY <1>1, <1>2 DEF WithOwn, Own
  <1> HIDE DEF o
  <1>5. StockUnder(y)
    <2> SUFFICES ASSUME NEW d \in Parties
                 PROVE  LET s == y.stock[d]
                        IN  /\ s.delta \in Nat /\ s.done \in BOOLEAN
                            /\ Under(s.vole_seed, s.mpfss_delta)
                            /\ Under(s.mpfss_seed, s.mpfss_delta)
                            /\ ~Renewing(y, d) =>
                                 Under(s.cached, s.delta) /\ s.mpfss_delta = s.delta
      BY DEF StockUnder
    <2>1. CASE d = x.sender
      BY <1>1, <1>2, <1>3, <1>4, <2>1 DEF StockUnder, Renewing
    <2>2. CASE d # x.sender
      BY <1>1, <1>4, <2>2 DEF StockUnder, Renewing
    <2> QED
      BY <2>1, <2>2
  <1>6. NeedsFirst(y)
    BY <1>1, <1>2, <1>3, <1>4 DEF NeedsFirst, o
  <1>7. InCall(y, calls)
    BY <1>1, <1>2, <1>6 DEF InCall
  <1>8. \A d \in Parties :
          /\ x.stock[d].done => y.stock[d].done
          /\ \/ y.stock[d].delta = x.stock[d].delta
             \/ y.sender = d /\ (y.call.op = "Precompute" \/ ~x.stock[d].done)
    BY <1>1, <1>2, <1>3, <1>4 DEF NeedsFirst, o
  <1>9. Good(y, calls)
    BY <1>2, <1>5, <1>7, <1>8, GoodMoves
  <1> QED
    BY <1>9 DEF y

\* The first seeds are made under that delta.
LEMMA GoodFromGilboa1 ==
  ASSUME NEW calls \in Seq(Call), NEW x, Good(x, calls), x.pos = "gilboa1",
         NEW m, Proper(x, m), Enough(x)
  PROVE  Good(PastGilboa1(x, m), calls)
  <1> DEFINE y == PastGilboa1(x, m)
             vole == x.par.vole_seed_size
             mpfss == x.par.mpfss_seed_size
             own == Reseeded(Own(x), m.vec, vole, mpfss)
  <1>1. /\ StockUnder(x) /\ InCall(x, calls) /\ x.sender \in Parties
        /\ x.call.copied = <<>> /\ vole \in Nat /\ mpfss \in Nat
    BY CallTypes DEF Good, InCall, Enough
  <1>2. PICK run \in Nat \ {0} : m.vec = Fresh(Own(x).delta, run, vole + mpfss)
    BY DEF Proper
  <1>3. Own(x).delta \in Nat /\ Own(x).done \in BOOLEAN
    BY <1>1 DEF StockUnder, Own
  <1>4. Under(m.vec, Own(x).delta) /\ Len(m.vec) = vole + mpfss
    <2>1. PICK delta, len : delta = Own(x).delta /\ len = vole + mpfss
      OBVIOUS
    <2>2. delta \in Nat /\ len \in Nat
      BY <1>1, <1>3, <2>1
    <2>3. Under(Fresh(delta, run, len), delta) /\ Len(Fresh(delta, run, len)) = len
      BY <2>2, UnderFresh
    <2> QED
      BY <1>2, <2>1, <2>3
  <1>5. OwnUnder(own) /\ own.delta = Own(x).delta /\ own.done = Own(x).done
    <2>1. PICK o, vec, vn, mn : o = Own(x) /\ vec = m.vec /\ vn = vole /\ mn = mpfss
      OBVIOUS
    <2>2. /\ o.delta \in Nat /\ o.done \in BOOLEAN /\ Under(vec, o.delta)
          /\ vn \in Nat /\ mn \in Nat /\ vn + mn <= Len(vec)
      BY <1>1, <1>3, <1>4, <2>1
    <2>3. /\ OwnUnder(Reseeded(o, vec, vn, mn))
          /\ Reseeded(o, vec, vn, mn).delta = o.delta
          /\ Reseeded(o, vec, vn, mn).done = o.done
      BY <2>2, ReseededUnder
    <2> QED
      BY <2>1, <2>3
  <1>6. /\ y.pos = "loop" /\ y.n = x.n /\ y.res = x.res
        /\ y.stock = WithOwn(x, own) /\ y.sender = x.sender /\ y.call = x.call
    BY DEF PastGilboa1, JointState
  <1> HIDE DEF y, own
  <1>7. StockUnder(y)
    BY <1>1, <1>5, <1>6, StockOwn
  <1>8. InCall(y, calls)
    BY <1>1, <1>6, UnderEmpty DEF InCall
  <1>9. \A d \in Parties : /\ x.stock[d].done => y.stock[d].done
                           /\ y.stock[d].delta = x.stock[d].delta
    BY <1>1, <1>5, <1>6 DEF WithOwn, Own
  <1>10. Good(y, calls)
    BY <1>6, <1>7, <1>8, <1>9, GoodMoves
  <1> QED
    BY <1>10 DEF y

\* A step that changes only where the call is and the sizes.
LEMMA GoodOnward ==
  ASSUME NEW calls \in Seq(Call), NEW x, NEW y, Good(x, calls),
         x.pos \notin {"idle", "begin", "gilboa0", "gilboa1"},
         y.pos \in {"loop", "seed", "expand", "wait0", "wait1", "fetch", "copy"},
         y.n = x.n, y.res = x.res, y.sender = x.sender,
         y.call.op = x.call.op, y.call.size = x.call.size,
         y.stock = x.stock, y.call.copied = x.call.copied,
         y.pos \in {"fetch", "copy"}
           \/ (y.pos \in {"expand", "wait0", "wait1"} /\ y.call.final)
           => x.call.op = "Run" /\ Own(x).done,
         y.pos = "wait1" => y.run \in Nat \ {0}
  PROVE  Good(y, calls)
  <1>1. StockUnder(x) /\ InCall(x, calls)
    BY DEF Good
  <1>2. StockUnder(y)
    BY <1>1, StockKept DEF Renewing
  <1>3. Own(y) = Own(x)
    BY DEF Own
  <1>4. InCall(y, calls)
    BY <1>1, <1>3 DEF InCall
  <1> QED
    BY <1>2, <1>4, GoodMoves

\* A step that changes what is held of the current Sender, too.
LEMMA GoodOnwardOwn ==
  ASSUME NEW calls \in Seq(Call), NEW x, NEW y, NEW own, Good(x, calls),
         x.pos \notin {"idle", "begin", "gilboa0", "gilboa1"},
         y.pos \in {"loop", "seed", "expand", "fetch", "copy"},
         y.n = x.n, y.res = x.res, y.sender = x.sender,
         y.call.op = x.call.op, y.call.size = x.call.size,
         y.stock = WithOwn(x, own), OwnUnder(own), own.delta = Own(x).delta,
         Own(x).done => own.done, Under(y.call.copied, own.delta),
         y.pos \in {"fetch", "copy"} \/ (y.pos = "expand" /\ y.call.final)
           => x.call.op = "Run" /\ own.done
  PROVE  Good(y, calls)
  <1>1. StockUnder(x) /\ InCall(x, calls) /\ x.sender \in Parties
    BY CallTypes DEF Good
  <1>2. StockUnder(y)
    BY <1>1, StockOwn
  <1>3. Own(y) = own
    BY <1>1 DEF Own, WithOwn
  <1>4. InCall(y, calls)
    BY <1>1, <1>3 DEF InCall
  <1>5. \A d \in Parties : /\ x.stock[d].done => y.stock[d].done
                           /\ y.stock[d].delta = x.stock[d].delta
    BY <1>1 DEF WithOwn, Own
  <1> QED
    BY <1>2, <1>4, <1>5, GoodMoves

\* The next level, or the batch size.
LEMMA GoodFromLoop ==
  ASSUME NEW calls \in Seq(Call), NEW x, Good(x, calls), x.pos = "loop"
  PROVE  Good(PastLoop(x), calls)
  <1> DEFINE y == PastLoop(x)
  <1>1. /\ y.pos = "seed" /\ y.n = x.n /\ y.res = x.res /\ y.stock = x.stock
        /\ y.sender = x.sender /\ y.call.op = x.call.op
        /\ y.call.size = x.call.size /\ y.call.copied = x.call.copied
    BY DEF PastLoop, JointState, Planned
  <1> HIDE DEF y
  <1>2. Good(y, calls)
    BY <1>1, GoodOnward
  <1> QED
    BY <1>2 DEF y

\* A generator is filled.
LEMMA GoodFromSeed ==
  ASSUME NEW calls \in Seq(Call), NEW x, Good(x, calls), x.pos = "seed", NEW m
  PROVE  Good(PastSeed(x, m), calls)
  <1>1. /\ StockUnder(x) /\ InCall(x, calls) /\ x.sender \in Parties
        /\ x.call.op \in {"Precompute", "Run"}
        /\ Under(x.call.copied, Own(x).delta)
    BY CallTypes DEF Good, InCall
  <1>2. OwnUnder(Own(x))
    BY <1>1, OwnStock
  <1>3. /\ OwnUnder(Ready(Own(x))) /\ Ready(Own(x)).delta = Own(x).delta
        /\ Ready(Own(x)).done
    BY <1>2 DEF OwnUnder, Ready, Holding
  <1>4. CASE x.call.output > MaxGenerator
    <2>1. Good(Ends(x, FALSE, <<>>, x.par, Own(x)), calls)
      BY <1>2, UnderEmpty, GoodReturns
    <2> QED
      BY <1>4, <2>1 DEF PastSeed
  <1>5. CASE ~(x.call.output > MaxGenerator) /\ ~x.call.final
    <2> DEFINE y == JointState("expand", x.n, x.res, x.sender, x.call,
                               Filled(x.par, m.id), x.stock, x.run)
    <2>1. /\ y.pos = "expand" /\ y.n = x.n /\ y.res = x.res /\ y.stock = x.stock
          /\ y.sender = x.sender /\ y.call = x.call
      BY DEF JointState
    <2> HIDE DEF y
    <2>2. Good(y, calls)
      BY <1>5, <2>1, GoodOnward
    <2> QED
      BY <1>5, <2>2 DEF PastSeed, y
  <1>6. CASE /\ ~(x.call.output > MaxGenerator) /\ x.call.final
             /\ x.call.op = "Precompute"
    <2>1. Good(Ends(x, TRUE, <<>>, Filled(x.par, m.id), Ready(Own(x))), calls)
      BY <1>3, <1>6, UnderEmpty, GoodReturns
    <2> QED
      BY <1>6, <2>1 DEF PastSeed
  <1>7. CASE /\ ~(x.call.output > MaxGenerator) /\ x.call.final
             /\ x.call.op # "Precompute"
    <2> DEFINE y == JointState("fetch", x.n, x.res, x.sender, x.call,
                      Filled(x.par, m.id), WithOwn(x, Ready(Own(x))), x.run)
    <2>1. /\ y.pos = "fetch" /\ y.n = x.n /\ y.res = x.res
          /\ y.stock = WithOwn(x, Ready(Own(x)))
          /\ y.sender = x.sender /\ y.call = x.call
      BY DEF JointState
    <2> HIDE DEF y
    <2>2. Good(y, calls)
      BY <1>1, <1>3, <1>7, <2>1, GoodOnwardOwn
    <2> QED
      BY <1>7, <2>2 DEF PastSeed, y
  <1> QED
    BY <1>4, <1>5, <1>6, <1>7

\* An expansion is refused, or begins.
LEMMA GoodFromExpand ==
  ASSUME NEW calls \in Seq(Call), NEW x, Good(x, calls), x.pos = "expand"
  PROVE  Good(PastExpand(x), calls)
  <1>1. /\ StockUnder(x) /\ InCall(x, calls) /\ x.sender \in Parties
    BY CallTypes DEF Good
  <1>2. OwnUnder(Own(x))
    BY <1>1, OwnStock
  <1>3. CASE ~Fits(x)
    <2>1. Good(Ends(x, FALSE, <<>>, x.par, Own(x)), calls)
      BY <1>2, UnderEmpty, GoodReturns
    <2> QED
      BY <1>3, <2>1 DEF PastExpand
  <1>4. CASE Fits(x)
    <2> DEFINE y == Go(x, "wait0")
    <2>1. /\ y.pos = "wait0" /\ y.n = x.n /\ y.res = x.res /\ y.stock = x.stock
          /\ y.sender = x.sender /\ y.call = x.call
      BY DEF Go, JointState
    <2> HIDE DEF y
    <2>2. Good(y, calls)
      BY <1>1, <2>1, GoodOnward DEF InCall
    <2> QED
      BY <1>4, <2>2 DEF PastExpand, y
  <1> QED
    BY <1>3, <1>4

\* The masked values are sent.
LEMMA GoodFromWait0 ==
  ASSUME NEW calls \in Seq(Call), NEW x, Good(x, calls), x.pos = "wait0",
         NEW m, Proper(x, m)
  PROVE  Good(PastWait0(x, m), calls)
  <1> DEFINE y == PastWait0(x, m)
  <1>1. /\ y.pos = "wait1" /\ y.n = x.n /\ y.res = x.res /\ y.stock = x.stock
        /\ y.sender = x.sender /\ y.call = x.call /\ y.run = m.run
    BY DEF PastWait0, JointState
  <1> HIDE DEF y
  <1>2. InCall(x, calls) /\ m.run \in Nat \ {0}
    BY DEF Good, Proper
  <1>3. Good(y, calls)
    BY <1>1, <1>2, GoodOnward DEF InCall
  <1> QED
    BY <1>3 DEF y

\* The expansion makes elements under the delta of its seeds.
LEMMA GoodFromWait1 ==
  ASSUME NEW calls \in Seq(Call), NEW x, Good(x, calls), x.pos = "wait1", Enough(x)
  PROVE  Good(PastWait1(x), calls)
  <1> DEFINE y == PastWait1(x)
             c == x.call
             o == Own(x)
             own == Reseeded(o, Expansion(x), c.new_vole, c.new_mpfss)
  <1>1. /\ StockUnder(x) /\ InCall(x, calls) /\ x.sender \in Parties
        /\ Under(c.copied, o.delta) /\ x.run \in Nat \ {0}
        /\ c.final => c.op = "Run" /\ o.done
    BY CallTypes DEF Good, InCall
  <1>2. /\ c.output \in Nat /\ c.new_vole \in Nat /\ c.new_mpfss \in Nat
        /\ c.new_vole + c.new_mpfss <= c.output
    BY DEF Enough
  <1>3. OwnUnder(o)
    BY <1>1, OwnStock
  <1>4. Under(Expansion(x), o.delta) /\ c.new_vole + c.new_mpfss <= Len(Expansion(x))
    <2>1. /\ Under(Fresh(o.delta, x.run, c.output), o.delta)
          /\ Len(Fresh(o.delta, x.run, c.output)) = c.output
      <3>1. PICK delta, run, len : delta = o.delta /\ run = x.run /\ len = c.output
        OBVIOUS
      <3>2. delta \in Nat /\ run \in Nat \ {0} /\ len \in Nat
        BY <1>1, <1>2, <1>3, <3>1 DEF OwnUnder
      <3>3. Under(Fresh(delta, run, len), delta) /\ Len(Fresh(delta, run, len)) = len
        BY <3>2, UnderFresh
      <3> QED
        BY <3>1, <3>3
    <2>2. Expansion(x) = o.cached \o Fresh(o.delta, x.run, c.output)
      BY <1>3 DEF Expansion, OwnUnder
    <2>3. /\ Under(Expansion(x), o.delta)
          /\ Len(Expansion(x)) = Len(o.cached) + c.output
      BY <1>3, <2>1, <2>2, UnderConcat DEF OwnUnder
    <2>4. Len(o.cached) \in Nat
      BY <1>3 DEF OwnUnder, Under, Vector
    <2> QED
      BY <1>2, <2>3, <2>4
  <1>5. OwnUnder(own) /\ own.delta = o.delta /\ own.done = o.done
    <2>1. o.delta \in Nat /\ o.done \in BOOLEAN
      BY <1>3 DEF OwnUnder
    <2>2. PICK old, vec, vole, mpfss : /\ old = o /\ vec = Expansion(x)
                                       /\ vole = c.new_vole /\ mpfss = c.new_mpfss
      OBVIOUS
    <2>3. /\ old.delta \in Nat /\ old.done \in BOOLEAN /\ Under(vec, old.delta)
          /\ vole \in Nat /\ mpfss \in Nat /\ vole + mpfss <= Len(vec)
      BY <1>2, <1>4, <2>1, <2>2
    <2>4. /\ OwnUnder(Reseeded(old, vec, vole, mpfss))
          /\ Reseeded(old, vec, vole, mpfss).delta = old.delta
          /\ Reseeded(old, vec, vole, mpfss).done = old.done
      BY <2>3, ReseededUnder
    <2> QED
      BY <2>2, <2>4
  <1>6. /\ y.pos = IF c.final THEN "copy" ELSE "loop"
        /\ y.n = x.n /\ y.res = x.res
        /\ y.stock = WithOwn(x, own) /\ y.sender = x.sender
        /\ y.call.op = c.op /\ y.call.size = c.size /\ y.call.copied = c.copied
    BY DEF PastWait1, JointState
  <1> HIDE DEF y, own, o
  <1>7. Good(y, calls)
    BY <1>1, <1>5, <1>6, GoodOnwardOwn DEF o
  <1> QED
    BY <1>7 DEF y

\* The tail of the cache is taken.
LEMMA RecachedUnder ==
  ASSUME NEW o, OwnUnder(o), NEW vec, Under(vec, o.delta)
  PROVE  /\ OwnUnder(Recached(o, vec)) /\ Recached(o, vec).delta = o.delta
         /\ Recached(o, vec).done = o.done
  BY DEF OwnUnder, Recached, Holding

\* A run is served from the cache, or copies it.
LEMMA GoodFromFetch ==
  ASSUME NEW calls \in Seq(Call), NEW x, Good(x, calls), x.pos = "fetch", Enough(x)
  PROVE  Good(PastFetch(x), calls)
  <1> DEFINE o == Own(x)
             size == x.call.size
             own == Recached(o, WithoutTail(o.cached, size))
  <1>1. /\ StockUnder(x) /\ InCall(x, calls) /\ x.sender \in Parties
        /\ x.call.op = "Run" /\ o.done /\ size \in Nat
    BY CallTypes DEF Good, InCall, Enough
  <1>2. OwnUnder(o)
    BY <1>1, OwnStock
  <1>3. CASE Len(o.cached) >= size
    <2>1. Under(o.cached, o.delta) /\ Len(o.cached) \in Nat
      BY <1>2 DEF OwnUnder, Under, Vector
    <2>2. /\ Under(TailOf(o.cached, size), o.delta)
          /\ Len(TailOf(o.cached, size)) = size
          /\ Under(WithoutTail(o.cached, size), o.delta)
      BY <1>1, <1>3, <2>1, UnderSplit
    <2>3. OwnUnder(own) /\ own.delta = o.delta /\ own.done
      BY <1>1, <1>2, <2>2, RecachedUnder
    <2> HIDE DEF own
    <2>4. Good(Ends(x, TRUE, TailOf(o.cached, size), x.par, own), calls)
      BY <1>1, <2>2, <2>3, GoodReturns
    <2> QED
      BY <1>3, <2>4 DEF PastFetch, own
  <1>4. CASE ~(Len(o.cached) >= size)
    <2> DEFINE y == Go(x, "copy")
    <2>1. /\ y.pos = "copy" /\ y.n = x.n /\ y.res = x.res /\ y.stock = x.stock
          /\ y.sender = x.sender /\ y.call = x.call
      BY DEF Go, JointState
    <2> HIDE DEF y
    <2>2. Good(y, calls)
      BY <1>1, <2>1, GoodOnward
    <2> QED
      BY <1>4, <2>2 DEF PastFetch, y
  <1> QED
    BY <1>3, <1>4

\* A run returns what it has copied, or expands.
LEMMA GoodFromCopy ==
  ASSUME NEW calls \in Seq(Call), NEW x, Good(x, calls), x.pos = "copy", Enough(x)
  PROVE  Good(PastCopy(x), calls)
  <1> DEFINE o == Own(x)
             c == x.call
             size == c.size
             missing == size - Len(c.copied)
             both == c.copied \o o.cached
  <1>1. /\ StockUnder(x) /\ InCall(x, calls) /\ x.sender \in Parties
        /\ x.call.op = "Run" /\ o.done /\ size \in Nat
        /\ Len(c.copied) <= size /\ Under(c.copied, o.delta)
    BY CallTypes DEF Good, InCall, Enough
  <1>2. OwnUnder(o)
    BY <1>1, OwnStock
  <1>3. /\ Under(o.cached, o.delta) /\ Len(o.cached) \in Nat
        /\ Len(c.copied) \in Nat /\ missing \in Nat
        /\ size = Len(c.copied) + missing
    <2>1. /\ Under(o.cached, o.delta) /\ Len(o.cached) \in Nat
          /\ Len(c.copied) \in Nat
      BY <1>1, <1>2 DEF OwnUnder, Under, Vector
    <2> QED
      BY <1>1, <2>1
  <1> HIDE DEF missing
  <1>4. CASE Len(o.cached) > missing
    <2> DEFINE tail == TailOf(o.cached, missing)
               own == Recached(o, WithoutTail(o.cached, missing))
    <2>1. /\ Under(tail, o.delta) /\ Len(tail) = missing
          /\ Under(WithoutTail(o.cached, missing), o.delta)
      BY <1>3, <1>4, UnderSplit
    <2>2. OwnUnder(own) /\ own.delta = o.delta /\ own.done
      BY <1>1, <1>2, <2>1, RecachedUnder
    <2> HIDE DEF own, tail
    <2>3. Under(c.copied \o tail, o.delta) /\ Len(c.copied \o tail) = size
      <3>1. /\ Under(c.copied \o tail, o.delta)
            /\ Len(c.copied \o tail) = Len(c.copied) + Len(tail)
        BY <1>1, <2>1, UnderConcat
      <3> QED
        BY <1>3, <2>1, <3>1
    <2>4. Good(Ends(x, TRUE, c.copied \o tail, x.par, own), calls)
      BY <1>1, <2>2, <2>3, GoodReturns
    <2> QED
      BY <1>4, <2>4 DEF PastCopy, own, tail, missing
  <1> DEFINE own == Recached(o, <<>>)
  <1>5. OwnUnder(own) /\ own.delta = o.delta /\ own.done
    BY <1>1, <1>2, UnderEmpty, RecachedUnder
  <1>6. Under(both, o.delta)
    BY <1>1, <1>3, UnderConcat
  <1> HIDE DEF own, both
  <1>7. CASE ~(Len(o.cached) > missing) /\ Len(both) = size
    <2>1. Good(Ends(x, TRUE, both, x.par, own), calls)
      BY <1>1, <1>5, <1>6, <1>7, GoodReturns
    <2> QED
      BY <1>7, <2>1 DEF PastCopy, own, both, missing
  <1>8. CASE ~(Len(o.cached) > missing) /\ Len(both) # size
    <2> DEFINE y == JointState("expand", x.n, x.res, x.sender,
                      Planned(c, TRUE, x.par.batch_size + SeedSizes(x),
                              x.par.vole_seed_size, x.par.mpfss_seed_size, both),
                      x.par, WithOwn(x, own), x.run)
    <2>1. /\ y.pos = "expand" /\ y.n = x.n /\ y.res = x.res
          /\ y.stock = WithOwn(x, own) /\ y.sender = x.sender
          /\ y.call.op = c.op /\ y.call.size = c.size /\ y.call.copied = both
      BY DEF JointState, Planned
    <2>2. PastCopy(x) = y
      BY <1>8 DEF PastCopy, own, both, missing
    <2> HIDE DEF y, o, c
    <2>3. Good(y, calls)
      BY <1>1, <1>5, <1>6, <2>1, GoodOnwardOwn DEF o, c
    <2> QED
      BY <2>2, <2>3
  <1> QED
    BY <1>4, <1>7, <1>8

\* What follows a good state is good.
LEMMA GoodSucc ==
  ASSUME NEW calls \in Seq(Call), NEW x, Good(x, calls), Possible(x, calls),
         Enough(x), NEW m, Kind(x) # "free" => Proper(x, m),
         x.pos \in {"idle", "begin", "gilboa0", "gilboa1", "loop", "seed", "expand",
                    "wait0", "wait1", "fetch", "copy"}
  PROVE  Good(Succ(x, calls, m), calls)
  <1>1. CASE x.pos \in {"idle", "begin", "loop", "expand", "fetch", "copy"}
    BY <1>1, GoodFromIdle, GoodFromBegin, GoodFromLoop, GoodFromExpand,
       GoodFromFetch, GoodFromCopy DEF Succ
  <1>2. CASE x.pos \in {"gilboa0", "gilboa1", "seed", "wait0", "wait1"}
    <2>1. Proper(x, m)
      BY <1>2 DEF Kind
    <2> QED
      BY <1>2, <2>1, GoodFromGilboa0, GoodFromGilboa1, GoodFromSeed, GoodFromWait0,
         GoodFromWait1 DEF Succ
  <1> QED
    BY <1>1, <1>2

-----------------------------------------------------------------------------
(* Where the two ends are.                                                 *)

\* What an end p can see of a result.
Seen(r, p) == [op |-> r.op, role |-> IF r.sender = p THEN "sender" ELSE "receiver",
               ok |-> r.ok, elements |-> r.elements,
               delta |-> IF r.sender = p THEN 0 ELSE r.delta]

ResultsView(p, x) ==
  /\ Len(results[p]) = x.n
  /\ \A k \in 1 .. x.n : results[p][k] = Seen(x.res[k], p)

\* The positions in the code that stand for a joint state.
PcAt(p, x) ==
  CASE x.pos \in {"idle", "begin", "loop", "seed", "fetch", "copy"} -> {x.pos}
    [] x.pos = "gilboa0" -> IF x.sender = p THEN {"gilboa"} ELSE {}
    [] x.pos = "gilboa1" -> IF x.sender = p THEN {} ELSE {"gilboa"}
    [] x.pos = "expand" -> IF x.sender = p THEN {"expand", "failed"} ELSE {"expand"}
    [] x.pos = "wait0" -> IF x.sender = p THEN {} ELSE {"masked"}
    [] x.pos = "wait1" -> IF x.sender = p THEN {"sums"} ELSE {"failed"}
    [] OTHER -> {}

Place(p, x) ==
  /\ pc[p] \in PcAt(p, x)
  /\ pc[p] # "idle" => /\ x.sender \in Parties
                       /\ loc[p].role = IF x.sender = p THEN "sender" ELSE "receiver"
  /\ Frame(loc[p]) = x.call
  /\ pc[p] = "sums" => loc[p].run = x.run
  /\ Sizes(params[p]) = x.par
  /\ pc[p] = "masked" => params[p].buckets = Buckets(x)

SenderView(p, o) ==
  /\ snd[p].cached = o.cached /\ snd[p].vole_seed = o.vole_seed
  /\ snd[p].mpfss_seed = o.mpfss_seed /\ snd[p].done = o.done

ReceiverView(p, o) ==
  /\ rcv[p].vole_seed = o.vole_seed /\ rcv[p].mpfss_seed = o.mpfss_seed
  /\ rcv[p].done = o.done /\ rcv[p].delta = o.delta
  /\ rcv[p].mpfss_delta = o.mpfss_delta

\* A Receiver within an expansion: its cache is longer by what it waits for.
Expanding(p) == pc[p] \in {"masked", "failed"} /\ loc[p].role = "receiver"

CacheView(p, x) ==
  IF Expanding(p)
  THEN pc[p] = "masked" =>
         rcv[p].cached = x.stock[Peer(p)].cached \o Unshared(x.call.output)
  ELSE rcv[p].cached = x.stock[Peer(p)].cached

\* p is at the joint state x.
View(p, x) ==
  /\ Place(p, x) /\ ResultsView(p, x)
  /\ SenderView(p, x.stock[p]) /\ ReceiverView(p, x.stock[Peer(p)])
  /\ CacheView(p, x)

JointInv ==
  \E h : /\ Linked(h, script, channel)
         /\ \A p \in Parties : View(p, Here(h, p))

-----------------------------------------------------------------------------
(* Views.                                                                  *)

\* Which joint state a position in the code stands for.
LEMMA PosAt ==
  ASSUME NEW p \in Parties, NEW x, Place(p, x)
  PROVE  /\ pc[p] \in {"idle", "begin", "loop", "seed", "fetch", "copy", "expand"}
              => x.pos = pc[p]
         /\ pc[p] = "gilboa" => x.pos = IF IsSender(p) THEN "gilboa0" ELSE "gilboa1"
         /\ pc[p] = "masked" => x.pos = "wait0" /\ ~IsSender(p)
         /\ pc[p] = "sums" => x.pos = "wait1" /\ IsSender(p)
         /\ pc[p] = "failed" => x.pos = IF IsSender(p) THEN "expand" ELSE "wait1"
         /\ pc[p] # "idle" =>
              /\ x.sender \in Parties
              /\ IF IsSender(p) THEN x.sender = p ELSE x.sender = Peer(p)
              /\ ~IsSender(p) => loc[p].role = "receiver"
         /\ x.pos \in {"idle", "begin", "gilboa0", "gilboa1", "loop", "seed", "expand",
                       "wait0", "wait1", "fetch", "copy"}
  <1>1. pc[p] \in PcAt(p, x)
    BY DEF Place
  <1>2. pc[p] # "idle" =>
          /\ x.sender \in Parties
          /\ IF IsSender(p) THEN x.sender = p ELSE x.sender = Peer(p)
          /\ ~IsSender(p) => loc[p].role = "receiver"
    BY DEF Place, IsSender, Peer, Parties
  <1>3. Peer(p) # p
    BY PeerType
  <1> QED
    BY <1>1, <1>2, <1>3 DEF PcAt

\* A step of the other end leaves the view alone.
Still(q) ==
  /\ pc'[q] = pc[q] /\ loc'[q] = loc[q] /\ params'[q] = params[q]
  /\ snd'[q] = snd[q] /\ rcv'[q] = rcv[q] /\ results'[q] = results[q]

\* An end that does nothing keeps its view.
LEMMA StillView ==
  ASSUME NEW q \in Parties, NEW x, View(q, x), Still(q)
  PROVE  View(q, x)'
  BY DEF Still, View, Place, ResultsView, SenderView, ReceiverView, CacheView, Expanding

\* What p has in both of its roles, and how a step changes it.
MembersView(p, x) ==
  /\ SenderView(p, x.stock[p]) /\ ReceiverView(p, x.stock[Peer(p)])
  /\ rcv[p].cached = x.stock[Peer(p)].cached

\* The members of an object that no step touches.
LEMMA MembersSame ==
  ASSUME NEW p \in Parties, NEW x, NEW y, MembersView(p, x), y.stock = x.stock,
         snd'[p] = snd[p], rcv'[p] = rcv[p]
  PROVE  MembersView(p, y)'
  BY DEF MembersView, SenderView, ReceiverView

\* A step that changes the members of one role, and leaves those of the other.
LEMMA MembersOwn ==
  ASSUME NEW p \in Parties, NEW x, NEW y, NEW own, MembersView(p, x),
         y.stock = WithOwn(x, own),
         \/ x.sender = p /\ SenderView(p, own)' /\ rcv'[p] = rcv[p]
         \/ /\ x.sender = Peer(p) /\ snd'[p] = snd[p]
            /\ ReceiverView(p, own)' /\ rcv'[p].cached = own.cached
  PROVE  MembersView(p, y)'
  <1>1. Peer(p) \in Parties /\ Peer(p) # p
    BY PeerType
  <1>2. CASE x.sender = p /\ SenderView(p, own)' /\ rcv'[p] = rcv[p]
    <2>1. y.stock[p] = own /\ y.stock[Peer(p)] = x.stock[Peer(p)]
      BY <1>1, <1>2 DEF WithOwn
    <2> QED
      BY <1>2, <2>1 DEF MembersView, SenderView, ReceiverView
  <1>3. CASE /\ x.sender = Peer(p) /\ snd'[p] = snd[p]
             /\ ReceiverView(p, own)' /\ rcv'[p].cached = own.cached
    <2>1. y.stock[Peer(p)] = own /\ y.stock[p] = x.stock[p]
      BY <1>1, <1>3 DEF WithOwn
    <2> QED
      BY <1>3, <2>1 DEF MembersView, SenderView, ReceiverView
  <1> QED
    BY <1>2, <1>3

\* The parts of a view outside of an expansion.
LEMMA ViewMembers ==
  ASSUME NEW p \in Parties, NEW x, View(p, x), ~Expanding(p)
  PROVE  Place(p, x) /\ ResultsView(p, x) /\ MembersView(p, x)
  BY DEF View, CacheView, MembersView

\* Outside an expansion, the view of the members includes the cache.
LEMMA MembersWhole ==
  ASSUME NEW p \in Parties, NEW y, Place(p, y)', ResultsView(p, y)',
         MembersView(p, y)', ~Expanding(p)'
  PROVE  View(p, y)'
  BY DEF View, CacheView, MembersView

\* A call returns.
LEMMA ReturnView ==
  ASSUME Inv, NEW p \in Parties, NEW x, NEW ok, NEW elements, NEW par, NEW own,
         Place(p, x), ResultsView(p, x), MembersView(p, x), pc[p] # "idle",
         Return(p, ok, elements), Sizes(params'[p]) = par,
         \/ x.sender = p /\ SenderView(p, own)' /\ rcv'[p] = rcv[p]
         \/ /\ x.sender = Peer(p) /\ snd'[p] = snd[p]
            /\ ReceiverView(p, own)' /\ rcv'[p].cached = own.cached
  PROVE  View(p, Ends(x, ok, elements, par, own))'
  <1> DEFINE y == Ends(x, ok, elements, par, own)
             n == x.n + 1
             r == [op |-> x.call.op, sender |-> x.sender, ok |-> ok,
                   elements |-> elements, delta |-> Own(x).delta]
  <1>0. x.n \in Nat
    BY InvParts DEF GlobalTypes, ResultsView
  <1>1. /\ y.pos = "idle" /\ y.n = n /\ y.sender = x.sender /\ y.par = par
        /\ y.call = Frame(NoCall) /\ y.stock = WithOwn(x, own)
        /\ y.res[n] = r /\ \A k \in 1 .. x.n : y.res[k] = x.res[k]
    BY <1>0 DEF Ends, JointState
  <1> HIDE DEF y
  <1>2. /\ pc \in Counters /\ loc \in [Parties -> Locals]
        /\ results \in [Parties -> Seq(Result)] /\ loc[p].role # "none"
    BY InvParts DEF LocalTypes, GlobalTypes
  <1>3. /\ pc'[p] = "idle" /\ loc'[p] = NoCall
    BY <1>2 DEF Return, Goto, Counters
  <1>4. Place(p, y)'
    BY <1>1, <1>3 DEF Place, PcAt
  <1>5. MembersView(p, y)'
    BY <1>1, MembersOwn
  <1>6. ~Expanding(p)'
    BY <1>3 DEF Expanding
  <1>7. Seen(r, p) = [op |-> loc[p].op, role |-> loc[p].role, ok |-> ok,
                      elements |-> elements,
                      delta |-> IF loc[p].role = "receiver" THEN rcv[p].delta ELSE 0]
    <2>1. /\ x.sender \in Parties /\ loc[p].op = x.call.op
          /\ loc[p].role = IF x.sender = p THEN "sender" ELSE "receiver"
      BY DEF Place, Frame
    <2>2. x.sender # p => x.sender = Peer(p)
      BY <2>1 DEF Peer, Parties
    <2>3. x.sender # p => rcv[p].delta = Own(x).delta
      BY <2>2 DEF MembersView, ReceiverView, Own
    <2> QED
      BY <2>1, <2>3 DEF Seen
  <1>8. ResultsView(p, y)'
    <2> DEFINE s == results[p]
               new == Seen(r, p)
    <2>1. /\ s \in Seq(Result) /\ Len(s) = x.n /\ x.n \in Nat
          /\ \A k \in 1 .. x.n : s[k] = Seen(x.res[k], p)
      BY <1>2 DEF ResultsView
    <2>2. results'[p] = Append(s, new)
      BY <1>2, <1>7 DEF Return
    <2> HIDE DEF s, new
    <2>3. /\ Len(Append(s, new)) = n /\ Append(s, new)[n] = new
          /\ \A k \in 1 .. x.n : Append(s, new)[k] = s[k]
      BY <2>1
    <2>4. \A k \in 1 .. n : k = n \/ k \in 1 .. x.n
      BY <2>1
    <2>5. ASSUME NEW k \in 1 .. n PROVE results'[p][k] = Seen(y.res[k], p)
      <3>1. CASE k = n
        BY <1>1, <2>2, <2>3, <3>1 DEF new
      <3>2. CASE k \in 1 .. x.n
        BY <1>1, <2>1, <2>2, <2>3, <3>2
      <3> QED
        BY <2>4, <3>1, <3>2
    <2> QED
      BY <1>1, <2>2, <2>3, <2>5 DEF ResultsView
  <1>9. View(p, y)'
    BY <1>4, <1>5, <1>6, <1>8, MembersWhole
  <1> QED
    BY <1>9 DEF y

-----------------------------------------------------------------------------
(* Steps along the sequence of joint states.                               *)

\* What a step takes from the members is there, also in the second of two steps.
LEMMA EnoughView ==
  ASSUME Inv, NEW p \in Parties, NEW x, Place(p, x), NEW y, y.call = x.call,
         y.pos = "gilboa1" => y.par = x.par,
         y.pos = "wait1" => pc[p] \in {"expand", "masked", "sums"}
  PROVE  Enough(y)
  <1>1. /\ Running(p) /\ NextLevel(p)
        /\ params[p] \in Params /\ loc[p] \in Locals
    BY InvParts, PartyTypes DEF PartyInv
  <1>2. /\ y.call.op = loc[p].op /\ y.call.size = loc[p].size
        /\ y.call.copied = loc[p].copied /\ y.call.output = loc[p].output
        /\ y.call.new_vole = loc[p].new_vole /\ y.call.new_mpfss = loc[p].new_mpfss
    BY DEF Place, Frame
  <1>3. y.pos = "gilboa1" => /\ y.par.vole_seed_size = params[p].vole_seed_size
                             /\ y.par.mpfss_seed_size = params[p].mpfss_seed_size
    BY DEF Place, Sizes
  <1>4. params[p].vole_seed_size \in Nat /\ params[p].mpfss_seed_size \in Nat
    BY <1>1, ParamsFields
  <1>5. loc[p].output \in Nat /\ loc[p].new_vole \in Nat /\ loc[p].new_mpfss \in Nat
    BY <1>1 DEF Locals
  <1>6. pc[p] \in {"expand", "masked", "sums"} =>
          loc[p].new_vole + loc[p].new_mpfss <= loc[p].output
    BY <1>1, <1>5 DEF NextLevel
  <1>7. loc[p].op = "Run" => loc[p].size \in Nat /\ Len(loc[p].copied) <= loc[p].size
    BY <1>1 DEF Running
  <1> QED
    BY <1>2, <1>3, <1>4, <1>5, <1>6, <1>7 DEF Enough

\* The two views give the invariant.
LEMMA JointViews ==
  ASSUME NEW p \in Parties, NEW g, Linked(g, script', channel'),
         View(p, Here(g, p))', View(Peer(p), Here(g, Peer(p)))'
  PROVE  JointInv'
  <1>1. \A q \in Parties : q = p \/ q = Peer(p)
    BY DEF Parties, Peer
  <1>2. \A q \in Parties : View(q, Here(g, q))'
    BY <1>1
  <1> QED
    BY <1>2 DEF JointInv

\* The step needs no message.
LEMMA FreeStep ==
  ASSUME Inv, NEW p \in Parties, NEW h, Linked(h, script, channel),
         \A q \in Parties : View(q, Here(h, q)),
         Kind(Here(h, p)) = "free", Possible(Here(h, p), script),
         NEW y, y = Succ(Here(h, p), script, NoMessage), View(p, y)',
         Still(Peer(p)), UNCHANGED <<script, channel>>
  PROVE  JointInv'
  <1> DEFINE x == Here(h, p)
  <1>1. Peer(p) \in Parties /\ script \in Seq(Call)
    BY PeerType DEF Inv, TypeOK
  <1>2. Place(p, x) /\ Good(x, script)
    BY <1>1, LinkedGood DEF View
  <1>3. Enough(x)
    <2>1. /\ x.pos # "gilboa1" /\ x.pos # "wait1"
      BY DEF Kind
    <2> QED
      BY <1>2, <2>1, EnoughView
  <1>4. Good(y, script)
    BY <1>1, <1>2, <1>3, PosAt, GoodSucc
  <1>5. PICK g : /\ Linked(g, script, channel) /\ Here(g, p) = y
                 /\ Here(g, Peer(p)) = Here(h, Peer(p))
    BY <1>1, <1>4, LinkedFree
  <1>6. View(Peer(p), Here(g, Peer(p)))'
    <2>1. View(Peer(p), Here(g, Peer(p)))
      BY <1>1, <1>5
    <2> QED
      BY <1>1, <2>1, StillView
  <1>7. View(p, Here(g, p))'
    BY <1>5
  <1>8. Linked(g, script', channel')
    BY <1>5
  <1> QED
    BY <1>6, <1>7, <1>8, JointViews

\* The step is made with a message that p sends.
LEMMA SendStep ==
  ASSUME Inv, NEW p \in Parties, NEW h, Linked(h, script, channel),
         View(Peer(p), Here(h, Peer(p))),
         Kind(Here(h, p)) # "free", Author(Here(h, p)) = p,
         NEW m \in Message, Proper(Here(h, p), m), Send(p, m),
         NEW y, y = Succ(Here(h, p), script, m), Good(y, script), View(p, y)',
         Still(Peer(p)), UNCHANGED script
  PROVE  JointInv'
  <1> DEFINE x == Here(h, p)
             d == [channel EXCEPT ![Peer(p)] = Append(@, m)]
  <1>1. /\ Peer(p) \in Parties /\ Peer(p) # p /\ script \in Seq(Call)
        /\ channel \in [Parties -> Seq(Message)]
    BY PeerType DEF Inv, TypeOK
  <1>2. Told(channel, d, p, m)
    BY <1>1 DEF Told
  <1>3. channel' = d
    BY DEF Send
  <1> HIDE DEF d
  <1>4. Possible(x, script)
    BY DEF Possible, Kind
  <1>5. PICK g : /\ Linked(g, script, d) /\ Here(g, p) = y
                 /\ Here(g, Peer(p)) = Here(h, Peer(p))
    BY <1>1, <1>2, <1>4, LinkedSend
  <1>6. View(Peer(p), Here(g, Peer(p)))'
    <2>1. View(Peer(p), Here(g, Peer(p)))
      BY <1>5
    <2> QED
      BY <1>1, <2>1, StillView
  <1>7. View(p, Here(g, p))'
    BY <1>5
  <1>8. Linked(g, script', channel')
    BY <1>3, <1>5
  <1> QED
    BY <1>6, <1>7, <1>8, JointViews

\* The step is made with a message that p receives: it is the right one.
LEMMA HeadProper ==
  ASSUME Inv, NEW p \in Parties, NEW h, Linked(h, script, channel),
         Kind(Here(h, p)) # "free", Author(Here(h, p)) = Peer(p), channel[p] # <<>>
  PROVE  Proper(Here(h, p), Head(channel[p]))
  <1> DEFINE d == [channel EXCEPT ![p] = Tail(@)]
  <1>1. /\ Peer(p) \in Parties /\ Peer(p) # p /\ script \in Seq(Call)
        /\ channel \in [Parties -> Seq(Message)]
    BY PeerType DEF Inv, TypeOK
  <1>2. Taken(channel, d, p)
    BY <1>1 DEF Taken
  <1> HIDE DEF d
  <1> QED
    BY <1>1, <1>2, LinkedReceive

\* An end takes the joint step that the message at the head of its channel was sent for.
LEMMA ReceiveStep ==
  ASSUME Inv, NEW p \in Parties, NEW h, Linked(h, script, channel),
         View(Peer(p), Here(h, Peer(p))),
         Kind(Here(h, p)) # "free", Author(Here(h, p)) = Peer(p),
         channel[p] # <<>>, Receive(p),
         NEW y, y = Succ(Here(h, p), script, Head(channel[p])), View(p, y)',
         Still(Peer(p)), UNCHANGED script
  PROVE  JointInv'
  <1> DEFINE x == Here(h, p)
             d == [channel EXCEPT ![p] = Tail(@)]
  <1>1. /\ Peer(p) \in Parties /\ Peer(p) # p /\ script \in Seq(Call)
        /\ channel \in [Parties -> Seq(Message)]
    BY PeerType DEF Inv, TypeOK
  <1>2. Taken(channel, d, p)
    BY <1>1 DEF Taken
  <1>3. channel' = d
    BY DEF Receive
  <1> HIDE DEF d
  <1>4. PICK g : /\ Linked(g, script, d) /\ Here(g, p) = y
                 /\ Here(g, Peer(p)) = Here(h, Peer(p))
    <2>1. \E g : /\ Linked(g, script, d)
                 /\ Here(g, p) = Succ(Here(h, p), script, Head(channel[p]))
                 /\ Here(g, Peer(p)) = Here(h, Peer(p))
      BY <1>1, <1>2, LinkedReceive
    <2> QED
      BY <2>1
  <1>5. View(Peer(p), Here(g, Peer(p)))'
    <2>1. View(Peer(p), Here(g, Peer(p)))
      BY <1>4
    <2> QED
      BY <1>1, <2>1, StillView
  <1>6. View(p, Here(g, p))'
    BY <1>4
  <1>7. Linked(g, script', channel')
    BY <1>3, <1>4
  <1> QED
    BY <1>5, <1>6, <1>7, JointViews

\* Two steps: a free one, and one with a message that p sends.
LEMMA FreeSendStep ==
  ASSUME Inv, NEW p \in Parties, NEW h, Linked(h, script, channel),
         \A q \in Parties : View(q, Here(h, q)),
         Kind(Here(h, p)) = "free", Possible(Here(h, p), script),
         NEW z, z = Succ(Here(h, p), script, NoMessage),
         Kind(z) # "free", Author(z) = p, Enough(z),
         z.pos \in {"gilboa0", "wait0"},
         NEW m \in Message, Proper(z, m), Send(p, m),
         NEW y, y = Succ(z, script, m), View(p, y)',
         Still(Peer(p)), UNCHANGED script
  PROVE  JointInv'
  <1> DEFINE x == Here(h, p)
  <1>1. Peer(p) \in Parties /\ script \in Seq(Call)
    BY PeerType DEF Inv, TypeOK
  <1>2. Place(p, x) /\ Good(x, script)
    BY <1>1, LinkedGood DEF View
  <1>3. Enough(x)
    <2>1. x.pos # "gilboa1" /\ x.pos # "wait1"
      BY DEF Kind
    <2> QED
      BY <1>2, <2>1, EnoughView
  <1>4. Good(z, script)
    BY <1>1, <1>2, <1>3, PosAt, GoodSucc
  <1>5. PICK g : /\ Linked(g, script, channel) /\ Here(g, p) = z
                 /\ Here(g, Peer(p)) = Here(h, Peer(p))
    BY <1>1, <1>4, LinkedFree
  <1>6. Good(y, script)
    <2>1. Possible(z, script)
      BY DEF Possible
    <2> QED
      BY <1>1, <1>4, <2>1, GoodSucc
  <1>7. View(Peer(p), Here(g, Peer(p)))
    BY <1>1, <1>5
  <1> QED
    BY <1>5, <1>6, <1>7, SendStep

\* Two steps: one with a message that p receives, and one with its answer.
LEMMA ReplyStep ==
  ASSUME Inv, NEW p \in Parties, NEW h, Linked(h, script, channel),
         \A q \in Parties : View(q, Here(h, q)),
         Kind(Here(h, p)) # "free", Author(Here(h, p)) = Peer(p),
         channel[p] # <<>>,
         NEW z, z = Succ(Here(h, p), script, Head(channel[p])),
         z.pos \in {"gilboa1", "wait1"}, Author(z) = p, Enough(z),
         NEW m \in Message, Proper(z, m), Reply(p, m),
         NEW y, y = Succ(z, script, m), View(p, y)',
         Still(Peer(p)), UNCHANGED script
  PROVE  JointInv'
  <1> DEFINE x == Here(h, p)
             d == [channel EXCEPT ![p] = Tail(@)]
             e == [channel EXCEPT ![p] = Tail(@), ![Peer(p)] = Append(@, m)]
  <1>1. /\ Peer(p) \in Parties /\ Peer(p) # p /\ script \in Seq(Call)
        /\ channel \in [Parties -> Seq(Message)]
    BY PeerType DEF Inv, TypeOK
  <1>2. Taken(channel, d, p) /\ Told(d, e, p, m)
    BY <1>1 DEF Taken, Told
  <1>3. channel' = e
    BY DEF Reply
  <1> HIDE DEF d, e
  <1>4. PICK f : /\ Linked(f, script, d) /\ Here(f, p) = z
                 /\ Here(f, Peer(p)) = Here(h, Peer(p))
    <2>1. \E f : /\ Linked(f, script, d)
                 /\ Here(f, p) = Succ(Here(h, p), script, Head(channel[p]))
                 /\ Here(f, Peer(p)) = Here(h, Peer(p))
      BY <1>1, <1>2, LinkedReceive
    <2> QED
      BY <2>1
  <1>5. Good(z, script)
    BY <1>4, LinkedGood
  <1>6. Kind(z) # "free" /\ Possible(z, script)
    BY DEF Possible, Kind
  <1>7. Good(y, script)
    BY <1>1, <1>5, <1>6, GoodSucc
  <1>8. PICK g : /\ Linked(g, script, e) /\ Here(g, p) = y
                 /\ Here(g, Peer(p)) = Here(f, Peer(p))
    <2>1. /\ Kind(Here(f, p)) # "free" /\ Author(Here(f, p)) = p
          /\ Possible(Here(f, p), script) /\ Proper(Here(f, p), m)
          /\ Good(Succ(Here(f, p), script, m), script)
      BY <1>4, <1>6, <1>7
    <2>2. \E g : /\ Linked(g, script, e) /\ Here(g, p) = Succ(Here(f, p), script, m)
                 /\ Here(g, Peer(p)) = Here(f, Peer(p))
      BY <1>1, <1>2, <1>4, <2>1, LinkedSend
    <2> QED
      BY <1>4, <2>2
  <1>9. View(Peer(p), Here(g, Peer(p)))'
    <2>1. View(Peer(p), Here(g, Peer(p)))
      BY <1>1, <1>4, <1>8
    <2> QED
      BY <1>1, <2>1, StillView
  <1>10. View(p, Here(g, p))'
    BY <1>8
  <1>11. Linked(g, script', channel')
    BY <1>3, <1>8
  <1> QED
    BY <1>9, <1>10, <1>11, JointViews

-----------------------------------------------------------------------------
(* What p has for its current role.                                        *)

\* What an end reads of its own role is what the joint state says.
LEMMA OwnView ==
  ASSUME NEW p \in Parties, NEW x, Place(p, x), MembersView(p, x), pc[p] # "idle"
  PROVE  /\ Own(x).cached = Cached(p) /\ Own(x).vole_seed = VoleSeed(p)
         /\ Own(x).mpfss_seed = MpfssSeed(p) /\ Own(x).done = Done(p)
         /\ ~IsSender(p) => /\ Own(x).delta = rcv[p].delta
                            /\ Own(x).mpfss_delta = rcv[p].mpfss_delta
         /\ x.call.op = loc[p].op /\ x.call.size = loc[p].size
         /\ x.call.i = loc[p].i /\ x.call.final = loc[p].final
         /\ x.call.output = loc[p].output /\ x.call.new_vole = loc[p].new_vole
         /\ x.call.new_mpfss = loc[p].new_mpfss /\ x.call.copied = loc[p].copied
         /\ NeedsFirst(x) <=> NeedsPrecompute(p)
         /\ x.par.vole_seed_size = params[p].vole_seed_size
         /\ x.par.mpfss_seed_size = params[p].mpfss_seed_size
         /\ x.par.batch_size = params[p].batch_size
         /\ x.par.num_noise = params[p].num_noise
         /\ x.par.generator = params[p].generator
  <1>1. IF IsSender(p) THEN x.sender = p ELSE x.sender = Peer(p)
    BY PosAt
  <1>2. /\ Own(x).cached = Cached(p) /\ Own(x).vole_seed = VoleSeed(p)
        /\ Own(x).mpfss_seed = MpfssSeed(p) /\ Own(x).done = Done(p)
        /\ ~IsSender(p) => /\ Own(x).delta = rcv[p].delta
                           /\ Own(x).mpfss_delta = rcv[p].mpfss_delta
    BY <1>1 DEF MembersView, SenderView, ReceiverView, Own, Cached, VoleSeed,
       MpfssSeed, Done
  <1>3. /\ x.call.op = loc[p].op /\ x.call.size = loc[p].size
        /\ x.call.i = loc[p].i /\ x.call.final = loc[p].final
        /\ x.call.output = loc[p].output /\ x.call.new_vole = loc[p].new_vole
        /\ x.call.new_mpfss = loc[p].new_mpfss /\ x.call.copied = loc[p].copied
    BY DEF Place, Frame
  <1>4. NeedsFirst(x) <=> NeedsPrecompute(p)
    BY <1>2, <1>3 DEF NeedsFirst, NeedsPrecompute
  <1>5. /\ x.par.vole_seed_size = params[p].vole_seed_size
        /\ x.par.mpfss_seed_size = params[p].mpfss_seed_size
        /\ x.par.batch_size = params[p].batch_size
        /\ x.par.num_noise = params[p].num_noise
        /\ x.par.generator = params[p].generator
    BY DEF Place, Sizes
  <1> QED
    BY <1>2, <1>3, <1>4, <1>5

\* A step of p touches only what p has.
LEMMA OtherStill ==
  ASSUME Inv, NEW p \in Parties,
         \A q \in Parties \ {p} :
           /\ pc'[q] = pc[q] /\ loc'[q] = loc[q] /\ params'[q] = params[q]
           /\ snd'[q] = snd[q] /\ rcv'[q] = rcv[q] /\ results'[q] = results[q]
  PROVE  Still(Peer(p))
  BY PeerType DEF Still

\* A call returns an error.
LEMMA ErrorView ==
  ASSUME Inv, NEW p \in Parties, NEW x, Place(p, x), ResultsView(p, x),
         MembersView(p, x), pc[p] # "idle", ReturnError(p),
         params'[p] = params[p], snd'[p] = snd[p], rcv'[p] = rcv[p]
  PROVE  View(p, Ends(x, FALSE, <<>>, x.par, Own(x)))'
  <1>1. IF IsSender(p) THEN x.sender = p ELSE x.sender = Peer(p)
    BY PosAt
  <1>2. \/ x.sender = p /\ SenderView(p, Own(x))' /\ rcv'[p] = rcv[p]
        \/ /\ x.sender = Peer(p) /\ snd'[p] = snd[p]
           /\ ReceiverView(p, Own(x))' /\ rcv'[p].cached = Own(x).cached
    BY <1>1 DEF MembersView, SenderView, ReceiverView, Own
  <1>3. Sizes(params'[p]) = x.par
    BY DEF Place
  <1>4. PICK own, par : own = Own(x) /\ par = x.par
    OBVIOUS
  <1>5. \/ x.sender = p /\ SenderView(p, own)' /\ rcv'[p] = rcv[p]
        \/ /\ x.sender = Peer(p) /\ snd'[p] = snd[p]
           /\ ReceiverView(p, own)' /\ rcv'[p].cached = own.cached
    BY <1>2, <1>4
  <1>6. View(p, Ends(x, FALSE, <<>>, par, own))'
    BY <1>3, <1>4, <1>5, ReturnView DEF ReturnError
  <1> QED
    BY <1>4, <1>6

-----------------------------------------------------------------------------
(* Precomputation.                                                         *)

\* The view after a refused batch size.
LEMMA RejectBatchSizeView ==
  ASSUME Inv, NEW p \in Parties, NEW x, View(p, x), RejectBatchSize(p)
  PROVE  View(p, PastBegin(x))' /\ x.pos = "begin" /\ Still(Peer(p))
  <1>1. /\ pc[p] = "begin" /\ NeedsPrecompute(p) /\ loc[p].size < 1
        /\ ReturnError(p) /\ UNCHANGED objects
    BY DEF RejectBatchSize, BadBatchSize
  <1>2. Place(p, x) /\ ResultsView(p, x) /\ MembersView(p, x)
    BY <1>1, ViewMembers DEF Expanding
  <1>3. NeedsFirst(x) /\ x.call.size < 1 /\ x.pos = "begin"
    BY <1>1, <1>2, OwnView, PosAt
  <1>4. View(p, Ends(x, FALSE, <<>>, x.par, Own(x)))'
    BY <1>1, <1>2, ErrorView DEF objects
  <1>5. PastBegin(x) = Ends(x, FALSE, <<>>, x.par, Own(x))
    BY <1>3 DEF PastBegin
  <1>6. Still(Peer(p))
    BY <1>1, PeerType, StateFunctions
    DEF Still, ReturnError, Return, Goto, objects, Counters
  <1> QED
    BY <1>3, <1>4, <1>5, <1>6

\* The first seeds have the sizes of level 1 at both ends.
LEMMA FirstSizes ==
  ASSUME Inv, NEW p \in Parties, NEW x, Place(p, x)
  PROVE  /\ Sizes(FirstSeeds(p)) = First(x).par
         /\ FirstSeeds(p).vole_seed_size + FirstSeeds(p).mpfss_seed_size
              = VoleSize(1) + MpfssSize(1)
         /\ FirstSeeds(p).vole_seed_size = VoleSize(1)
         /\ FirstSeeds(p).mpfss_seed_size = MpfssSize(1)
  <1>1. params[p] \in Params
    BY StateFunctions
  <1>2. /\ FirstSeeds(p).vole_seed_size = VoleSize(1)
        /\ FirstSeeds(p).mpfss_seed_size = MpfssSize(1)
        /\ FirstSeeds(p).generator = params[p].generator
    BY <1>1, FirstSeedsType
  <1>3. FirstSeeds(p).batch_size = 0 /\ FirstSeeds(p).num_noise = num_noise_indices[1]
    BY <1>1 DEF FirstSeeds, Params
  <1>4. x.par.generator = params[p].generator
    BY DEF Place, Sizes
  <1> QED
    BY <1>2, <1>3, <1>4 DEF First, Sizes, JointState

\* The view after the start of the Sender's precomputation.
LEMMA PrecomputeSenderView ==
  ASSUME Inv, NEW p \in Parties, NEW x, View(p, x), PrecomputeSender(p)
  PROVE  View(p, PastBegin(x))' /\ x.pos = "begin" /\ Still(Peer(p))
  <1> DEFINE y == First(x)
             own == Recached(Own(x), Unshared(VoleSize(1) + MpfssSize(1)))
             pr == FirstSeeds(p)
  <1>1. /\ pc[p] = "begin" /\ NeedsPrecompute(p) /\ ~(loc[p].size < 1) /\ IsSender(p)
        /\ params' = [params EXCEPT ![p] = pr]
        /\ snd' = [snd EXCEPT ![p].cached =
                     Unshared(pr.vole_seed_size + pr.mpfss_seed_size)]
        /\ Goto(p, "gilboa") /\ UNCHANGED <<app, loc, rcv>>
    BY DEF PrecomputeSender, BadBatchSize
  <1>2. Place(p, x) /\ ResultsView(p, x) /\ MembersView(p, x)
    BY <1>1, ViewMembers DEF Expanding
  <1>3. NeedsFirst(x) /\ ~(x.call.size < 1) /\ x.pos = "begin" /\ x.sender = p
    BY <1>1, <1>2, OwnView, PosAt
  <1>4. PastBegin(x) = y
    BY <1>3 DEF PastBegin
  <1>5. /\ y.pos = "gilboa0" /\ y.n = x.n /\ y.res = x.res
        /\ y.stock = WithOwn(x, own)
        /\ y.sender = p /\ y.call = x.call
    BY <1>3 DEF First, JointState
  <1>6. Sizes(pr) = y.par /\ pr.vole_seed_size + pr.mpfss_seed_size = VoleSize(1) + MpfssSize(1)
    BY <1>2, FirstSizes
  <1> HIDE DEF y, pr
  <1>7. /\ pc'[p] = "gilboa" /\ loc'[p] = loc[p] /\ params'[p] = pr
        /\ rcv'[p] = rcv[p] /\ results'[p] = results[p]
        /\ snd'[p] = [snd[p] EXCEPT !.cached = Unshared(VoleSize(1) + MpfssSize(1))]
    BY <1>1, <1>6, StateFunctions DEF Goto, Counters, app
  <1>8. Place(p, y)'
    BY <1>1, <1>2, <1>3, <1>5, <1>6, <1>7 DEF Place, PcAt, IsSender
  <1>9. ResultsView(p, y)'
    BY <1>2, <1>5, <1>7 DEF ResultsView
  <1>10. SenderView(p, own)'
    <2>1. snd[p] \in SenderState
      BY StateFunctions
    <2> QED
      BY <1>2, <1>3, <1>7, <2>1
      DEF SenderView, MembersView, Recached, Holding, Own, SenderState
  <1> HIDE DEF own
  <1>11. MembersView(p, y)'
    BY <1>2, <1>3, <1>5, <1>7, <1>10, MembersOwn
  <1>12. View(p, y)'
    BY <1>7, <1>8, <1>9, <1>11, MembersWhole DEF Expanding
  <1>13. Still(Peer(p))
    BY <1>1, PeerType, StateFunctions DEF Still, Goto, Counters, app
  <1> QED
    BY <1>3, <1>4, <1>12, <1>13

\* The Receiver goes through two joint states: its delta is on its way in the
\* second.
LEMMA PrecomputeReceiverView ==
  ASSUME Inv, NEW p \in Parties, NEW x, View(p, x), PrecomputeReceiver(p),
         NEW m, m = [kind |-> "choices", delta |-> serial + 1]
  PROVE  /\ View(p, PastGilboa0(First(x), m))' /\ PastBegin(x) = First(x)
         /\ x.pos = "begin" /\ x.sender = Peer(p) /\ Still(Peer(p))
  <1> DEFINE z == First(x)
             y == PastGilboa0(z, m)
             vec == Unshared(VoleSize(1) + MpfssSize(1))
             o == Own(x)
             own == Holding(vec, o.vole_seed, o.mpfss_seed, o.done, m.delta,
                            o.mpfss_delta)
             pr == FirstSeeds(p)
  <1>1. /\ pc[p] = "begin" /\ NeedsPrecompute(p) /\ ~(loc[p].size < 1) /\ ~IsSender(p)
        /\ params' = [params EXCEPT ![p] = pr]
        /\ rcv' = [rcv EXCEPT
             ![p].cached = Unshared(pr.vole_seed_size + pr.mpfss_seed_size),
             ![p].delta = m.delta]
        /\ Goto(p, "gilboa") /\ UNCHANGED <<app, loc, snd>>
    BY DEF PrecomputeReceiver, BadBatchSize
  <1>2. Place(p, x) /\ ResultsView(p, x) /\ MembersView(p, x)
    BY <1>1, ViewMembers DEF Expanding
  <1>3. /\ NeedsFirst(x) /\ ~(x.call.size < 1) /\ x.pos = "begin"
        /\ x.sender = Peer(p) /\ Peer(p) # p /\ Peer(p) \in Parties
        /\ loc[p].role = "receiver"
    BY <1>1, <1>2, OwnView, PosAt, PeerType
  <1>4. PastBegin(x) = z
    BY <1>3 DEF PastBegin
  <1>5. /\ z.n = x.n /\ z.res = x.res /\ z.stock = WithOwn(x, Recached(o, vec))
        /\ z.sender = x.sender /\ z.call = x.call
    BY DEF First, JointState
  <1>6. Sizes(pr) = z.par /\ pr.vole_seed_size + pr.mpfss_seed_size = VoleSize(1) + MpfssSize(1)
    BY <1>2, FirstSizes
  <1> HIDE DEF z, pr, vec
  <1>7. Own(z) = Recached(o, vec)
    BY <1>3, <1>5 DEF Own, WithOwn
  <1>8. /\ y.pos = "gilboa1" /\ y.n = x.n /\ y.res = x.res /\ y.par = z.par
        /\ y.sender = x.sender /\ y.call = x.call
        /\ y.stock = WithOwn(z, own)
    BY <1>5, <1>7 DEF PastGilboa0, JointState, Recached, Holding
  <1>9. WithOwn(z, own) = WithOwn(x, own)
    BY <1>5 DEF WithOwn
  <1> HIDE DEF y
  <1>10. /\ pc'[p] = "gilboa" /\ loc'[p] = loc[p] /\ params'[p] = pr
         /\ snd'[p] = snd[p] /\ results'[p] = results[p]
         /\ rcv'[p] = [rcv[p] EXCEPT !.cached = vec, !.delta = m.delta]
    BY <1>1, <1>6, StateFunctions DEF Goto, Counters, app, vec
  <1>11. Place(p, y)'
    BY <1>1, <1>2, <1>3, <1>6, <1>8, <1>10 DEF Place, PcAt
  <1>12. ResultsView(p, y)'
    BY <1>2, <1>8, <1>10 DEF ResultsView
  <1>13. ReceiverView(p, own)' /\ rcv'[p].cached = own.cached
    <2>1. rcv[p] \in ReceiverState
      BY StateFunctions
    <2> QED
      BY <1>2, <1>3, <1>10, <2>1
      DEF ReceiverView, MembersView, Holding, Own, ReceiverState
  <1> HIDE DEF own
  <1>14. MembersView(p, y)'
    <2>1. y.stock = WithOwn(x, own)
      BY <1>8, <1>9
    <2>2. snd'[p] = snd[p]
      BY <1>10
    <2> QED
      BY <1>2, <1>3, <1>13, <2>1, <2>2, MembersOwn
  <1>15. View(p, y)'
    BY <1>10, <1>11, <1>12, <1>14, MembersWhole DEF Expanding
  <1>16. Still(Peer(p))
    BY <1>1, <1>3, StateFunctions DEF Still, Goto, Counters, app
  <1> QED
    BY <1>3, <1>4, <1>15, <1>16 DEF y, z

-----------------------------------------------------------------------------
\* The two ends before a step, and the message that p is about to receive.
LEMMA JointHead ==
  ASSUME Inv, NEW p \in Parties, NEW h, Linked(h, script, channel), NEW kind,
         Arrived(p, kind), Kind(Here(h, p)) # "free", Author(Here(h, p)) = Peer(p)
  PROVE  /\ channel[p] # <<>> /\ Proper(Here(h, p), Head(channel[p]))
         /\ Head(channel[p]) \in Message
  <1>1. channel[p] # <<>> /\ Head(channel[p]) \in Message
    BY InvParts, ArrivedTypes
  <1> QED
    BY <1>1, HeadProper

-----------------------------------------------------------------------------
(* The calls that the two ends make.                                       *)

\* A call begins: the joint state is past "idle", agreed on now or before.
LEMMA InvokeJoint ==
  ASSUME Inv, JointInv, NEW p \in Parties, NEW c \in Call, Invoke(p, c)
  PROVE  JointInv'
  <1>1. PICK h : /\ Linked(h, script, channel)
                 /\ \A q \in Parties : View(q, Here(h, q))
    BY DEF JointInv
  <1> DEFINE x == Here(h, p)
             k == NextCall(p)
  <1>2. /\ script \in Seq(Call) /\ results[p] \in Seq(Result)
        /\ pc \in Counters /\ loc \in [Parties -> Locals]
        /\ Peer(p) \in Parties /\ Peer(p) # p
    BY StateFunctions, PeerType
  <1>3. /\ pc[p] = "idle" /\ View(p, x) /\ x.pos = "idle" /\ x.n + 1 = k
        /\ k \in Nat \ {0}
    BY <1>1, <1>2, PosAt DEF Invoke, View, ResultsView, NextCall
  <1>4. /\ UNCHANGED <<results, objects, channel, ghosts>> /\ Goto(p, "begin")
        /\ loc' = [loc EXCEPT ![p] =
             [NoCall EXCEPT !.op = c.op, !.size = c.size,
                            !.role = IF c.sender = p THEN "sender" ELSE "receiver"]]
    BY DEF Invoke
  <1>5. /\ Linked(h, script', channel) /\ script' \in Seq(Call)
        /\ k \in 1 .. Len(script') /\ script'[k] = c
    <2>1. CASE k <= Len(script) /\ c = script[k] /\ script' = script
      BY <1>1, <1>2, <1>3, <2>1
    <2>2. CASE k > Len(script) /\ script' = Append(script, c)
      <3>1. Len(script) < k /\ k - 1 = x.n /\ x.n \in 0 .. Len(script)
        BY <1>1, <1>3, <2>2, LinkedGood DEF Good, ResultsGiven
      <3>2. k = Len(script) + 1
        BY <1>2, <1>3, <3>1
      <3> QED
        BY <1>1, <1>2, <2>2, <3>2, LinkedScript, AppendProperties
    <2> QED
      BY <2>1, <2>2 DEF Invoke
  <1>6. PICK calls : calls = script'
    OBVIOUS
  <1>7. PICK y : y = Succ(x, calls, NoMessage)
    OBVIOUS
  <1>8. y = PastIdle(x, calls) /\ Possible(x, calls) /\ Kind(x) = "free"
    BY <1>3, <1>5, <1>6, <1>7 DEF Succ, Possible, Kind
  <1>9. /\ y.pos = "begin" /\ y.n = x.n /\ y.res = x.res /\ y.sender = c.sender
        /\ y.call = Frame([NoCall EXCEPT !.op = c.op, !.size = c.size])
        /\ y.par = x.par /\ y.stock = x.stock
    BY <1>3, <1>5, <1>6, <1>8 DEF PastIdle, JointState
  <1>10. Good(y, calls)
    <2>1. Good(x, calls) /\ calls \in Seq(Call)
      BY <1>5, <1>6, LinkedGood
    <2> QED
      BY <1>3, <1>8, <2>1, GoodFromIdle
  <1>11. PICK g : /\ Linked(g, calls, channel) /\ Here(g, p) = y
                  /\ Here(g, Peer(p)) = Here(h, Peer(p))
    <2>1. calls \in Seq(Call) /\ Linked(h, calls, channel)
      BY <1>5, <1>6
    <2>2. /\ y = Succ(Here(h, p), calls, NoMessage)
          /\ Kind(Here(h, p)) = "free" /\ Possible(Here(h, p), calls)
          /\ Good(Succ(Here(h, p), calls, NoMessage), calls)
      BY <1>7, <1>8, <1>10
    <2>3. \E g : /\ Linked(g, calls, channel)
                 /\ Here(g, p) = Succ(Here(h, p), calls, NoMessage)
                 /\ Here(g, Peer(p)) = Here(h, Peer(p))
      BY <2>1, <2>2, LinkedFree
    <2> QED
      BY <2>2, <2>3
  <1>12. View(p, y)'
    <2>1. /\ Place(p, x) /\ ResultsView(p, x) /\ MembersView(p, x)
      BY <1>3, ViewMembers DEF Expanding
    <2>2. /\ pc'[p] = "begin" /\ params'[p] = params[p] /\ snd'[p] = snd[p]
          /\ rcv'[p] = rcv[p] /\ results'[p] = results[p]
          /\ loc'[p].role = IF c.sender = p THEN "sender" ELSE "receiver"
          /\ Frame(loc'[p]) = Frame([NoCall EXCEPT !.op = c.op, !.size = c.size])
          /\ c.sender \in Parties
      BY <1>2, <1>4 DEF Goto, Counters, objects, Frame, NoCall, Call
    <2>3. Place(p, y)'
      BY <1>9, <2>1, <2>2 DEF Place, PcAt
    <2>4. ResultsView(p, y)'
      BY <1>9, <2>1, <2>2 DEF ResultsView
    <2>5. MembersView(p, y)'
      BY <1>9, <2>1, <2>2, MembersSame
    <2> QED
      BY <2>2, <2>3, <2>4, <2>5, MembersWhole DEF Expanding
  <1>13. View(Peer(p), Here(g, Peer(p)))'
    <2>1. Still(Peer(p))
      BY <1>2, <1>4 DEF Still, Goto, Counters, objects
    <2>2. View(Peer(p), Here(g, Peer(p)))
      BY <1>1, <1>2, <1>11
    <2> QED
      BY <1>2, <2>1, <2>2, StillView
  <1>14. Linked(g, script', channel') /\ View(p, Here(g, p))'
    BY <1>4, <1>6, <1>11, <1>12
  <1> QED
    BY <1>13, <1>14, JointViews

\* Both ends refuse the batch size, or neither does.
LEMMA RejectBatchSizeJoint ==
  ASSUME Inv, JointInv, NEW p \in Parties, RejectBatchSize(p)
  PROVE  JointInv'
  <1>1. PICK h : /\ Linked(h, script, channel)
                 /\ \A q \in Parties : View(q, Here(h, q))
    BY DEF JointInv
  <1>2. /\ View(p, PastBegin(Here(h, p)))' /\ Here(h, p).pos = "begin"
        /\ Still(Peer(p))
    BY <1>1, RejectBatchSizeView
  <1>3. PICK y : y = Succ(Here(h, p), script, NoMessage)
    OBVIOUS
  <1>4. /\ y = PastBegin(Here(h, p)) /\ Kind(Here(h, p)) = "free"
        /\ Possible(Here(h, p), script)
    BY <1>2, <1>3 DEF Succ, Kind, Possible
  <1>5. View(p, y)'
    BY <1>2, <1>4
  <1>6. UNCHANGED <<script, channel>>
    BY DEF RejectBatchSize
  <1> QED
    BY <1>1, <1>2, <1>3, <1>4, <1>5, <1>6, FreeStep

\* The Sender enters the Gilboa product without a message.
LEMMA PrecomputeSenderJoint ==
  ASSUME Inv, JointInv, NEW p \in Parties, PrecomputeSender(p)
  PROVE  JointInv'
  <1>1. PICK h : /\ Linked(h, script, channel)
                 /\ \A q \in Parties : View(q, Here(h, q))
    BY DEF JointInv
  <1>2. /\ View(p, PastBegin(Here(h, p)))' /\ Here(h, p).pos = "begin"
        /\ Still(Peer(p))
    BY <1>1, PrecomputeSenderView
  <1>3. PICK y : y = Succ(Here(h, p), script, NoMessage)
    OBVIOUS
  <1>4. /\ y = PastBegin(Here(h, p)) /\ Kind(Here(h, p)) = "free"
        /\ Possible(Here(h, p), script)
    BY <1>2, <1>3 DEF Succ, Kind, Possible
  <1>5. View(p, y)'
    BY <1>2, <1>4
  <1>6. UNCHANGED <<script, channel>>
    BY DEF PrecomputeSender, app
  <1> QED
    BY <1>1, <1>2, <1>3, <1>4, <1>5, <1>6, FreeStep

\* The Receiver draws delta, which goes into the joint state with its message.
LEMMA PrecomputeReceiverJoint ==
  ASSUME Inv, JointInv, NEW p \in Parties, PrecomputeReceiver(p)
  PROVE  JointInv'
  <1>1. PICK h : /\ Linked(h, script, channel)
                 /\ \A q \in Parties : View(q, Here(h, q))
    BY DEF JointInv
  <1>2. PICK m : m = [kind |-> "choices", delta |-> serial + 1]
    OBVIOUS
  <1> DEFINE x == Here(h, p)
             z == First(x)
             y == PastGilboa0(z, m)
  <1>3. /\ View(p, y)' /\ PastBegin(x) = z /\ x.pos = "begin"
        /\ x.sender = Peer(p) /\ Still(Peer(p))
    BY <1>1, <1>2, PrecomputeReceiverView
  <1>4. /\ z.pos = "gilboa0" /\ z.sender = Peer(p) /\ z.call = x.call
    BY <1>3 DEF First, JointState
  <1>5. /\ z = Succ(x, script, NoMessage) /\ Kind(x) = "free"
        /\ Possible(x, script)
    BY <1>3 DEF Succ, Kind, Possible
  <1> HIDE DEF z
  <1>6. /\ y = Succ(z, script, m) /\ Kind(z) = "choices"
        /\ Author(z) = Peer(Peer(p))
    BY <1>4 DEF Succ, Kind, Author
  <1>7. Peer(Peer(p)) = p
    BY PartiesAssumption DEF Peer, Parties
  <1>8. m \in Message /\ Proper(z, m) /\ Send(p, m) /\ UNCHANGED script
    <2>1. serial + 1 \in Nat
      BY StateFunctions
    <2> QED
      BY <1>2, <1>4, <1>6, <2>1 DEF Message, Proper, PrecomputeReceiver, app
  <1>9. Enough(z)
    <2>1. Place(p, x)
      BY <1>1 DEF View
    <2> QED
      BY <1>4, <2>1, EnoughView
  <1> HIDE DEF y
  <1> QED
    BY <1>1, <1>3, <1>4, <1>5, <1>6, <1>7, <1>8, <1>9, FreeSendStep

-----------------------------------------------------------------------------
(* The Gilboa products.                                                    *)

\* The seeds that an end cuts from a vector are those of the joint state.
LEMMA SenderReseeded ==
  ASSUME NEW p \in Parties, NEW o, NEW vec, NEW vole, NEW mpfss, SenderView(p, o),
         snd[p] \in SenderState, snd'[p] = SenderSeeds(snd[p], vec, vole, mpfss)
  PROVE  SenderView(p, Reseeded(o, vec, vole, mpfss))'
  BY DEF SenderView, SenderSeeds, SenderState, Reseeded, Holding

\* The seeds of the Receiver are cut as the joint state has them.
LEMMA ReceiverReseeded ==
  ASSUME NEW p \in Parties, NEW o, NEW vec, NEW vole, NEW mpfss, ReceiverView(p, o),
         rcv[p] \in ReceiverState, rcv'[p] = ReceiverSeeds(rcv[p], vec, vole, mpfss)
  PROVE  /\ ReceiverView(p, Reseeded(o, vec, vole, mpfss))'
         /\ rcv'[p].cached = Reseeded(o, vec, vole, mpfss).cached
  BY DEF ReceiverView, ReceiverSeeds, ReceiverState, Reseeded, Holding

\* The Sender takes the choices, and sends what makes the first seeds.
LEMMA GilboaSenderJoint ==
  ASSUME Inv, JointInv, NEW p \in Parties, GilboaSender(p)
  PROVE  JointInv'
  <1>1. PICK h : /\ Linked(h, script, channel)
                 /\ \A q \in Parties : View(q, Here(h, q))
    BY DEF JointInv
  <1>2. PICK x : x = Here(h, p)
    OBVIOUS
  <1>3. PICK a, m : /\ a = Head(channel[p])
                    /\ m = [kind |-> "w",
                            vec |-> Fresh(a.delta, serial + 1, Len(snd[p].cached))]
    OBVIOUS
  <1>4. /\ pc[p] = "gilboa" /\ IsSender(p) /\ Arrived(p, "choices")
        /\ snd' = [snd EXCEPT ![p] = SenderSeeds(@, m.vec, params[p].vole_seed_size,
                                                 params[p].mpfss_seed_size)]
        /\ Reply(p, m) /\ Goto(p, "loop") /\ UNCHANGED <<app, loc, params, rcv>>
    BY <1>3 DEF GilboaSender
  <1>5. Place(p, x) /\ ResultsView(p, x) /\ MembersView(p, x)
    BY <1>1, <1>2, <1>4, ViewMembers DEF Expanding
  <1>6. x.pos = "gilboa0" /\ x.sender = p
    BY <1>4, <1>5, PosAt
  <1>7. Peer(p) \in Parties /\ Peer(p) # p
    BY PeerType
  <1>8. Kind(x) # "free" /\ Author(x) = Peer(p)
    BY <1>6 DEF Kind, Author
  <1>9. channel[p] # <<>> /\ Proper(x, a) /\ a \in Message /\ a.delta \in Nat
    <2>1. channel[p] # <<>> /\ Proper(x, a) /\ a \in Message
      BY <1>1, <1>2, <1>3, <1>4, <1>8, JointHead
    <2> QED
      BY <1>6, <2>1 DEF Proper
  <1>10. PICK z : z = PastGilboa0(x, a)
    OBVIOUS
  <1>11. /\ z.pos = "gilboa1" /\ z.n = x.n /\ z.res = x.res /\ z.par = x.par
         /\ z.sender = p /\ z.call = x.call /\ Own(z).delta = a.delta
         /\ z.stock[Peer(p)] = x.stock[Peer(p)]
         /\ SenderView(p, Own(z))
    BY <1>5, <1>6, <1>7, <1>10
    DEF PastGilboa0, JointState, Own, WithOwn, Holding, SenderView, MembersView
  <1>12. Author(z) = p
    BY <1>11 DEF Author
  <1>13. z = Succ(x, script, a)
    BY <1>6, <1>10 DEF Succ
  <1>14. /\ Len(snd[p].cached) = params[p].vole_seed_size + params[p].mpfss_seed_size
         /\ params[p].vole_seed_size = z.par.vole_seed_size
         /\ params[p].mpfss_seed_size = z.par.mpfss_seed_size
         /\ Len(snd[p].cached) \in Nat
    <2>1. PartyInv(p) /\ snd[p] \in SenderState
      BY InvParts, PartyTypes
    <2>2. Len(snd[p].cached) = params[p].vole_seed_size + params[p].mpfss_seed_size
      BY <1>4, <2>1 DEF PartyInv, Seeded, Bootstrapping, AtLevel
    <2>3. Len(snd[p].cached) \in Nat
      BY <2>1 DEF SenderState, Vector
    <2> QED
      BY <1>5, <1>11, <2>2, <2>3 DEF Place, Sizes
  <1>15. PICK run : run = serial + 1 /\ run \in Nat \ {0}
    BY StateFunctions
  <1>16. m \in Message /\ Proper(z, m)
    <2>1. m.kind = "w" /\ m.vec = Fresh(a.delta, run, Len(snd[p].cached))
      BY <1>3, <1>15
    <2>2. m.vec \in Vector
      BY <1>9, <1>14, <1>15, <2>1, NewVectorTypes
    <2>3. m = [kind |-> "w", vec |-> m.vec]
      BY <1>3
    <2>4. m \in Message
      BY <2>2, <2>3 DEF Message
    <2>5. m.vec = Fresh(Own(z).delta, run, z.par.vole_seed_size + z.par.mpfss_seed_size)
      BY <1>11, <1>14, <2>1
    <2> QED
      BY <1>11, <1>15, <2>1, <2>4, <2>5 DEF Proper, Kind
  <1>17. Enough(z)
    BY <1>5, <1>11, EnoughView
  <1>18. PICK own : own = Reseeded(Own(z), m.vec, z.par.vole_seed_size,
                                   z.par.mpfss_seed_size)
    OBVIOUS
  <1>19. PICK y : y = PastGilboa1(z, m)
    OBVIOUS
  <1>20. /\ y.pos = "loop" /\ y.n = x.n /\ y.res = x.res /\ y.par = x.par
         /\ y.sender = p /\ y.call = x.call /\ y.stock = WithOwn(z, own)
         /\ y = Succ(z, script, m)
    BY <1>11, <1>18, <1>19 DEF PastGilboa1, JointState, Succ
  <1>21. /\ pc'[p] = "loop" /\ loc'[p] = loc[p] /\ params'[p] = params[p]
         /\ rcv'[p] = rcv[p] /\ results'[p] = results[p]
         /\ snd'[p] = SenderSeeds(snd[p], m.vec, z.par.vole_seed_size,
                                  z.par.mpfss_seed_size)
    BY <1>4, <1>14, StateFunctions DEF Goto, Counters, app
  <1>22. View(p, y)'
    <2>1. Place(p, y)'
      BY <1>4, <1>5, <1>6, <1>20, <1>21 DEF Place, PcAt
    <2>2. ResultsView(p, y)'
      BY <1>5, <1>20, <1>21 DEF ResultsView
    <2>3. SenderView(p, own)'
      <3>1. snd[p] \in SenderState
        BY StateFunctions
      <3>2. PICK o, vec, vole, mpfss :
              /\ o = Own(z) /\ vec = m.vec
              /\ vole = z.par.vole_seed_size /\ mpfss = z.par.mpfss_seed_size
        OBVIOUS
      <3>3. SenderView(p, Reseeded(o, vec, vole, mpfss))'
        BY <1>11, <1>21, <3>1, <3>2, SenderReseeded
      <3> QED
        BY <1>18, <3>2, <3>3
    <2>4. MembersView(p, z)
      BY <1>5, <1>11 DEF MembersView, Own
    <2>5. MembersView(p, y)'
      BY <1>11, <1>20, <1>21, <2>3, <2>4, MembersOwn
    <2> QED
      BY <1>21, <2>1, <2>2, <2>5, MembersWhole DEF Expanding
  <1>23. Still(Peer(p))
    BY <1>4, <1>7, StateFunctions DEF Still, Goto, Counters, app
  <1>24. UNCHANGED script
    BY <1>4 DEF app
  <1> QED
    BY <1>1, <1>2, <1>3, <1>4, <1>8, <1>9, <1>11, <1>12, <1>13, <1>16, <1>17, <1>20,
       <1>22, <1>23, <1>24, ReplyStep

\* The Receiver makes the first seeds from that message.
LEMMA GilboaReceiverJoint ==
  ASSUME Inv, JointInv, NEW p \in Parties, GilboaReceiver(p)
  PROVE  JointInv'
  <1>1. PICK h : /\ Linked(h, script, channel)
                 /\ \A q \in Parties : View(q, Here(h, q))
    BY DEF JointInv
  <1>2. PICK x, a : x = Here(h, p) /\ a = Head(channel[p])
    OBVIOUS
  <1>3. /\ pc[p] = "gilboa" /\ ~IsSender(p) /\ Arrived(p, "w")
        /\ rcv' = [rcv EXCEPT ![p] = ReceiverSeeds(@, a.vec, params[p].vole_seed_size,
                                                   params[p].mpfss_seed_size)]
        /\ Receive(p) /\ Goto(p, "loop") /\ UNCHANGED <<app, loc, params, snd>>
    BY <1>2 DEF GilboaReceiver
  <1>4. Place(p, x) /\ ResultsView(p, x) /\ MembersView(p, x)
    BY <1>1, <1>2, <1>3, ViewMembers DEF Expanding
  <1>5. Peer(p) \in Parties /\ Peer(p) # p
    BY PeerType
  <1>6. x.pos = "gilboa1" /\ x.sender = Peer(p) /\ loc[p].role = "receiver"
    BY <1>3, <1>4, <1>5, PosAt
  <1>7. Kind(x) # "free" /\ Author(x) = Peer(p)
    BY <1>6 DEF Kind, Author
  <1>8. channel[p] # <<>>
    BY <1>3 DEF Arrived
  <1>9. PICK own, vec, vole, mpfss, o :
          /\ vec = a.vec /\ vole = x.par.vole_seed_size
          /\ mpfss = x.par.mpfss_seed_size /\ o = Own(x)
          /\ own = Reseeded(o, vec, vole, mpfss)
    OBVIOUS
  <1>10. PICK y : y = PastGilboa1(x, a)
    OBVIOUS
  <1>11. /\ y.pos = "loop" /\ y.n = x.n /\ y.res = x.res /\ y.par = x.par
         /\ y.sender = Peer(p) /\ y.call = x.call /\ y.stock = WithOwn(x, own)
         /\ y = Succ(x, script, a)
    BY <1>6, <1>9, <1>10 DEF PastGilboa1, JointState, Succ
  <1>12. /\ pc'[p] = "loop" /\ loc'[p] = loc[p] /\ params'[p] = params[p]
         /\ snd'[p] = snd[p] /\ results'[p] = results[p]
         /\ rcv'[p] = ReceiverSeeds(rcv[p], vec, vole, mpfss)
    <2>1. /\ params[p].vole_seed_size = vole /\ params[p].mpfss_seed_size = mpfss
      BY <1>4, <1>9 DEF Place, Sizes
    <2> QED
      BY <1>3, <1>9, <2>1, StateFunctions DEF Goto, Counters, app
  <1>13. View(p, y)'
    <2>1. Place(p, y)'
      BY <1>3, <1>4, <1>5, <1>6, <1>11, <1>12 DEF Place, PcAt
    <2>2. ResultsView(p, y)'
      BY <1>4, <1>11, <1>12 DEF ResultsView
    <2>3. ReceiverView(p, own)' /\ rcv'[p].cached = own.cached
      <3>1. rcv[p] \in ReceiverState
        BY StateFunctions
      <3>2. ReceiverView(p, o)
        BY <1>4, <1>6, <1>9 DEF MembersView, Own
      <3>3. /\ ReceiverView(p, Reseeded(o, vec, vole, mpfss))'
            /\ rcv'[p].cached = Reseeded(o, vec, vole, mpfss).cached
        BY <1>12, <3>1, <3>2, ReceiverReseeded
      <3> QED
        BY <1>9, <3>3
    <2>4. MembersView(p, y)'
      BY <1>4, <1>6, <1>11, <1>12, <2>3, MembersOwn
    <2> QED
      BY <1>12, <2>1, <2>2, <2>4, MembersWhole DEF Expanding
  <1>14. Still(Peer(p))
    BY <1>3, <1>5, StateFunctions DEF Still, Goto, Counters, app
  <1>15. UNCHANGED script
    BY <1>3 DEF app
  <1> QED
    BY <1>1, <1>2, <1>3, <1>5, <1>7, <1>8, <1>11, <1>13, <1>14, <1>15, ReceiveStep

-----------------------------------------------------------------------------
(* The loop of PrecomputeX, and the code generator.                        *)

\* A step that changes only the position, the locals and the sizes.
LEMMA MovedView ==
  ASSUME NEW p \in Parties, NEW x, NEW y, ResultsView(p, x), MembersView(p, x),
         y.n = x.n, y.res = x.res, y.stock = x.stock, results'[p] = results[p],
         snd'[p] = snd[p], rcv'[p] = rcv[p], Place(p, y)', ~Expanding(p)'
  PROVE  View(p, y)'
  <1>1. ResultsView(p, y)'
    BY DEF ResultsView
  <1>2. MembersView(p, y)'
    BY MembersSame
  <1> QED
    BY <1>1, <1>2, MembersWhole

\* The generator is resized, and the sizes are those of the joint state.
LEMMA PreparedSizes ==
  ASSUME NEW p \in Parties, NEW par, NEW pr, NEW batch, NEW output, pr \in Params,
         Sizes(pr) = par, params \in [Parties -> Params],
         ResizeGenerator(p, [pr EXCEPT !.batch_size = batch], output)
  PROVE  Sizes(params'[p]) = Prepared(par, batch, output)
  BY DEF ResizeGenerator, Sizes, Prepared, Params

\* Both ends find the output of the level too short, or neither does.
LEMMA BootstrapJoint ==
  ASSUME Inv, JointInv, NEW p \in Parties, Bootstrap(p)
  PROVE  JointInv'
  <1>1. PICK h : /\ Linked(h, script, channel)
                 /\ \A q \in Parties : View(q, Here(h, q))
    BY DEF JointInv
  <1>2. PICK x : x = Here(h, p)
    OBVIOUS
  <1>3. PICK vole, mpfss : /\ vole = VoleSize(x.call.i + 1)
                           /\ mpfss = MpfssSize(x.call.i + 1)
    OBVIOUS
  <1>4. /\ pc[p] = "loop" /\ loc[p].i < Len(seed_size) /\ ~LevelSuffices(p)
        /\ Goto(p, "seed") /\ UNCHANGED <<app, snd, rcv, channel>>
    BY DEF Bootstrap
  <1>5. Place(p, x) /\ ResultsView(p, x) /\ MembersView(p, x)
    BY <1>1, <1>2, <1>4, ViewMembers DEF Expanding
  <1>6. /\ x.pos = "loop" /\ x.sender \in Parties
        /\ loc[p].role = IF x.sender = p THEN "sender" ELSE "receiver"
        /\ x.call = Frame(loc[p]) /\ x.par = Sizes(params[p]) /\ x.call.i = loc[p].i
    BY <1>4, <1>5, PosAt DEF Place, Frame
  <1>7. /\ loc[p] \in Locals /\ params[p] \in Params
        /\ pc \in Counters /\ loc \in [Parties -> Locals]
        /\ params \in [Parties -> Params]
    BY StateFunctions
  <1>8. x.call.i < Len(seed_size) /\ ~Suffices(x)
    BY <1>4, <1>6 DEF Suffices, SeedSizes, LevelSuffices, SeedsLength, Frame, Sizes
  <1>9. PICK y : y = PastLoop(x)
    OBVIOUS
  <1>10. /\ y.pos = "seed" /\ y.n = x.n /\ y.res = x.res /\ y.sender = x.sender
         /\ y.stock = x.stock
         /\ y.call = Planned(x.call, x.call.final, vole + mpfss, vole, mpfss, x.call.copied)
         /\ y.par = Prepared(x.par, x.par.batch_size, vole + mpfss)
         /\ y = Succ(x, script, NoMessage)
    BY <1>3, <1>6, <1>8, <1>9 DEF PastLoop, JointState, Succ
  <1>11. /\ loc' = [loc EXCEPT ![p].output = vole + mpfss, ![p].new_vole = vole,
                               ![p].new_mpfss = mpfss]
         /\ ResizeGenerator(p, params[p], vole + mpfss)
    BY <1>3, <1>6 DEF Bootstrap, VoleSize, MpfssSize
  <1>12. Frame(loc'[p]) = y.call /\ loc'[p].role = loc[p].role
    BY <1>6, <1>7, <1>10, <1>11 DEF Frame, Planned, Locals
  <1>13. Sizes(params'[p]) = y.par
    <2>1. params[p] = [params[p] EXCEPT !.batch_size = x.par.batch_size]
      BY <1>6, <1>7 DEF Sizes, Params
    <2>2. ResizeGenerator(p, [params[p] EXCEPT !.batch_size = x.par.batch_size],
                          vole + mpfss)
      BY <1>11, <2>1
    <2>3. PICK pr, batch, output : /\ pr = params[p] /\ batch = x.par.batch_size
                                   /\ output = vole + mpfss
      OBVIOUS
    <2>4. ResizeGenerator(p, [pr EXCEPT !.batch_size = batch], output)
      BY <2>2, <2>3
    <2>5. Sizes(params'[p]) = Prepared(x.par, batch, output)
      BY <1>6, <1>7, <2>3, <2>4, PreparedSizes
    <2> QED
      BY <1>10, <2>3, <2>5
  <1>14. pc'[p] = "seed" /\ snd'[p] = snd[p] /\ rcv'[p] = rcv[p] /\ results'[p] = results[p]
    BY <1>4, <1>7 DEF Goto, Counters, app
  <1>15. View(p, y)'
    <2>1. Place(p, y)'
      BY <1>6, <1>10, <1>12, <1>13, <1>14 DEF Place, PcAt
    <2> QED
      BY <1>5, <1>10, <1>14, <2>1, MovedView DEF Expanding
  <1>16. Still(Peer(p))
    BY <1>4, <1>7, <1>11, PeerType
    DEF Still, Goto, Counters, app, ResizeGenerator
  <1>17. Kind(x) = "free" /\ Possible(x, script) /\ UNCHANGED <<script, channel>>
    BY <1>4, <1>6 DEF Kind, Possible, app
  <1> QED
    BY <1>1, <1>2, <1>10, <1>15, <1>16, <1>17, FreeStep

\* Both ends choose the same batch size.
LEMMA ChooseBatchSizeJoint ==
  ASSUME Inv, JointInv, NEW p \in Parties, ChooseBatchSize(p)
  PROVE  JointInv'
  <1>1. PICK h : /\ Linked(h, script, channel)
                 /\ \A q \in Parties : View(q, Here(h, q))
    BY DEF JointInv
  <1>2. PICK x : x = Here(h, p)
    OBVIOUS
  <1>3. PICK batch, output : batch = Batch(x) /\ output = Batch(x) + SeedSizes(x)
    OBVIOUS
  <1>4. /\ pc[p] = "loop" /\ (loc[p].i = Len(seed_size) \/ LevelSuffices(p))
        /\ Goto(p, "seed") /\ UNCHANGED <<app, snd, rcv, channel>>
    BY DEF ChooseBatchSize
  <1>5. Place(p, x) /\ ResultsView(p, x) /\ MembersView(p, x)
    BY <1>1, <1>2, <1>4, ViewMembers DEF Expanding
  <1>6. /\ x.pos = "loop" /\ x.sender \in Parties
        /\ loc[p].role = IF x.sender = p THEN "sender" ELSE "receiver"
        /\ x.call = Frame(loc[p]) /\ x.par = Sizes(params[p]) /\ x.call.i = loc[p].i
    BY <1>4, <1>5, PosAt DEF Place, Frame
  <1>7. /\ loc[p] \in Locals /\ params[p] \in Params
        /\ pc \in Counters /\ loc \in [Parties -> Locals]
        /\ params \in [Parties -> Params]
    BY StateFunctions
  <1>8. ~(x.call.i < Len(seed_size) /\ ~Suffices(x))
    <2>1. LevelSuffices(p) => Suffices(x)
      BY <1>6 DEF Suffices, SeedSizes, LevelSuffices, SeedsLength, Frame, Sizes
    <2>2. loc[p].i = Len(seed_size) => ~(x.call.i < Len(seed_size))
      BY <1>6, SizeTypes
    <2> QED
      BY <1>4, <2>1, <2>2
  <1>9. PICK y : y = PastLoop(x)
    OBVIOUS
  <1>10. /\ y.pos = "seed" /\ y.n = x.n /\ y.res = x.res /\ y.sender = x.sender
         /\ y.stock = x.stock
         /\ y.call = Planned(x.call, TRUE, output, x.call.new_vole, x.call.new_mpfss,
                             x.call.copied)
         /\ y.par = Prepared(x.par, batch, output)
         /\ y = Succ(x, script, NoMessage)
    BY <1>3, <1>6, <1>8, <1>9 DEF PastLoop, JointState, Succ
  <1>11. BatchSize(p) = batch /\ SeedsLength(p) = SeedSizes(x)
    BY <1>3, <1>6 DEF BatchSize, Batch, SeedSizes, SeedsLength, Frame, Sizes
  <1>12. /\ loc' = [loc EXCEPT ![p].final = TRUE, ![p].output = output]
         /\ ResizeGenerator(p, [params[p] EXCEPT !.batch_size = batch], output)
    BY <1>3, <1>11 DEF ChooseBatchSize
  <1>13. Frame(loc'[p]) = y.call /\ loc'[p].role = loc[p].role
    BY <1>6, <1>7, <1>10, <1>12 DEF Frame, Planned, Locals
  <1>14. Sizes(params'[p]) = y.par
    <2>1. PICK pr : pr = params[p]
      OBVIOUS
    <2>2. ResizeGenerator(p, [pr EXCEPT !.batch_size = batch], output)
      BY <1>12, <2>1
    <2>3. Sizes(params'[p]) = Prepared(x.par, batch, output)
      BY <1>6, <1>7, <2>1, <2>2, PreparedSizes
    <2> QED
      BY <1>10, <2>3
  <1>15. pc'[p] = "seed" /\ snd'[p] = snd[p] /\ rcv'[p] = rcv[p] /\ results'[p] = results[p]
    BY <1>4, <1>7 DEF Goto, Counters, app
  <1>16. View(p, y)'
    <2>1. Place(p, y)'
      BY <1>6, <1>10, <1>13, <1>14, <1>15 DEF Place, PcAt
    <2> QED
      BY <1>5, <1>10, <1>15, <2>1, MovedView DEF Expanding
  <1>17. Still(Peer(p))
    BY <1>4, <1>7, <1>12, PeerType
    DEF Still, Goto, Counters, app, ResizeGenerator
  <1>18. Kind(x) = "free" /\ Possible(x, script) /\ UNCHANGED <<script, channel>>
    BY <1>4, <1>6 DEF Kind, Possible, app
  <1> QED
    BY <1>1, <1>2, <1>10, <1>16, <1>17, <1>18, FreeStep

\* The flag that the end sets is that of the role it is in.
LEMMA DoneView ==
  ASSUME Inv, NEW p \in Parties, NEW x, Place(p, x), MembersView(p, x),
         pc[p] # "idle", SetDone(p), NEW own, own = Ready(Own(x))
  PROVE  \/ x.sender = p /\ SenderView(p, own)' /\ rcv'[p] = rcv[p]
         \/ /\ x.sender = Peer(p) /\ snd'[p] = snd[p]
            /\ ReceiverView(p, own)' /\ rcv'[p].cached = own.cached
  <1>1. IF IsSender(p) THEN x.sender = p ELSE x.sender = Peer(p)
    BY PosAt
  <1>2. /\ snd \in [Parties -> SenderState] /\ snd[p] \in SenderState
        /\ rcv \in [Parties -> ReceiverState] /\ rcv[p] \in ReceiverState
    BY StateFunctions
  <1>3. CASE IsSender(p)
    <2>1. snd'[p] = [snd[p] EXCEPT !.done = TRUE] /\ rcv'[p] = rcv[p]
      BY <1>2, <1>3 DEF SetDone
    <2>2. SenderView(p, own)'
      BY <1>1, <1>2, <1>3, <2>1
      DEF SenderView, MembersView, Ready, Holding, Own, SenderState
    <2> QED
      BY <1>1, <1>3, <2>1, <2>2
  <1>4. CASE ~IsSender(p)
    <2>1. rcv'[p] = [rcv[p] EXCEPT !.done = TRUE] /\ snd'[p] = snd[p]
      BY <1>2, <1>4 DEF SetDone
    <2>2. ReceiverView(p, own)' /\ rcv'[p].cached = own.cached
      BY <1>1, <1>2, <1>4, <2>1
      DEF ReceiverView, MembersView, Ready, Holding, Own, ReceiverState
    <2> QED
      BY <1>1, <1>4, <2>1, <2>2
  <1> QED
    BY <1>3, <1>4

\* Both ends fill the generator alike, with the entries of the same seed.
LEMMA FillGeneratorView ==
  ASSUME Inv, NEW p \in Parties, NEW x, pc[p] = "seed", Place(p, x),
         ResultsView(p, x), MembersView(p, x), NEW id, FillGenerator(p, id),
         NEW m, m.id = id, NEW y, y = PastSeed(x, m)
  PROVE  View(p, y)'
  <1>1. /\ x.pos = "seed" /\ x.sender \in Parties
        /\ loc[p].role = IF x.sender = p THEN "sender" ELSE "receiver"
        /\ x.call = Frame(loc[p]) /\ x.par = Sizes(params[p])
    BY PosAt DEF Place
  <1>2. /\ x.call.output = loc[p].output /\ x.call.final = loc[p].final
        /\ x.call.op = loc[p].op
    BY <1>1 DEF Frame
  <1>3. PICK par : par = Filled(x.par, id)
    OBVIOUS
  <1>4. PICK own : own = Ready(Own(x))
    OBVIOUS
  <1>5. ASSUME params' = [params EXCEPT ![p].generator.id = id]
        PROVE  Sizes(params'[p]) = par
    <2>1. params \in [Parties -> Params] /\ params[p] \in Params
      BY StateFunctions
    <2>2. params'[p] = [params[p] EXCEPT !.generator.id = id]
      BY <1>5, <2>1
    <2> QED
      BY <1>1, <1>3, <2>1, <2>2 DEF Sizes, Filled, Params
  <1>6. CASE loc[p].output > MaxGenerator
    <2>1. ReturnError(p) /\ UNCHANGED objects
      <3>1. loc[p].output \in Nat
        BY StateFunctions DEF Locals
      <3> QED
        BY <1>6, <3>1, LimitsAssumption DEF FillGenerator
    <2>2. View(p, Ends(x, FALSE, <<>>, x.par, Own(x)))'
      BY <2>1, ErrorView DEF objects
    <2>3. y = Ends(x, FALSE, <<>>, x.par, Own(x))
      BY <1>2, <1>6 DEF PastSeed
    <2> QED
      BY <2>2, <2>3
  <1>7. CASE ~(loc[p].output > MaxGenerator)
    <2>1. params' = [params EXCEPT ![p].generator.id = id] /\ GeneratorReady(p)
      BY <1>7 DEF FillGenerator
    <2>2. Sizes(params'[p]) = par
      BY <1>5, <2>1
    <2>3. CASE ~loc[p].final
      <3>1. Goto(p, "expand") /\ UNCHANGED <<results, loc, snd, rcv>>
        BY <2>1, <2>3 DEF GeneratorReady
      <3>2. /\ y.pos = "expand" /\ y.n = x.n /\ y.res = x.res /\ y.sender = x.sender
            /\ y.call = x.call /\ y.par = par /\ y.stock = x.stock
        BY <1>2, <1>3, <1>7, <2>3 DEF PastSeed, JointState
      <3>3. pc'[p] = "expand"
        BY <3>1, StateFunctions DEF Goto, Counters
      <3>4. Place(p, y)'
        BY <1>1, <2>2, <3>1, <3>2, <3>3 DEF Place, PcAt
      <3> QED
        BY <3>1, <3>2, <3>3, <3>4, MovedView DEF Expanding
    <2>4. CASE loc[p].final /\ loc[p].op = "Precompute"
      <3>1. SetDone(p) /\ Return(p, TRUE, <<>>)
        BY <2>1, <2>4 DEF GeneratorReady
      <3>2. \/ x.sender = p /\ SenderView(p, own)' /\ rcv'[p] = rcv[p]
            \/ /\ x.sender = Peer(p) /\ snd'[p] = snd[p]
               /\ ReceiverView(p, own)' /\ rcv'[p].cached = own.cached
        BY <1>4, <3>1, DoneView
      <3>3. View(p, Ends(x, TRUE, <<>>, par, own))'
        BY <2>2, <3>1, <3>2, ReturnView
      <3>4. y = Ends(x, TRUE, <<>>, par, own)
        BY <1>2, <1>3, <1>4, <1>7, <2>4 DEF PastSeed
      <3> QED
        BY <3>3, <3>4
    <2>5. CASE loc[p].final /\ loc[p].op # "Precompute"
      <3>1. SetDone(p) /\ Goto(p, "fetch") /\ UNCHANGED <<results, loc>>
        BY <2>1, <2>5 DEF GeneratorReady
      <3>2. /\ y.pos = "fetch" /\ y.n = x.n /\ y.res = x.res /\ y.sender = x.sender
            /\ y.call = x.call /\ y.par = par /\ y.stock = WithOwn(x, own)
        BY <1>2, <1>3, <1>4, <1>7, <2>5 DEF PastSeed, JointState
      <3>3. pc'[p] = "fetch"
        BY <3>1, StateFunctions DEF Goto, Counters
      <3>4. Place(p, y)'
        BY <1>1, <2>2, <3>1, <3>2, <3>3 DEF Place, PcAt
      <3>5. ResultsView(p, y)'
        BY <3>1, <3>2 DEF ResultsView
      <3>6. \/ x.sender = p /\ SenderView(p, own)' /\ rcv'[p] = rcv[p]
            \/ /\ x.sender = Peer(p) /\ snd'[p] = snd[p]
               /\ ReceiverView(p, own)' /\ rcv'[p].cached = own.cached
        BY <1>4, <3>1, DoneView
      <3>7. MembersView(p, y)'
        BY <3>2, <3>6, MembersOwn
      <3> QED
        BY <3>3, <3>4, <3>5, <3>7, MembersWhole DEF Expanding
    <2> QED
      BY <2>3, <2>4, <2>5
  <1> QED
    BY <1>6, <1>7

\* PrecomputeCommon leaves the other end alone.
LEMMA FillGeneratorStill ==
  ASSUME Inv, NEW p \in Parties, NEW id, FillGenerator(p, id)
  PROVE  Still(Peer(p))
  <1>1. /\ pc \in Counters /\ loc \in [Parties -> Locals]
        /\ params \in [Parties -> Params] /\ snd \in [Parties -> SenderState]
        /\ rcv \in [Parties -> ReceiverState]
        /\ results \in [Parties -> Seq(Result)]
        /\ Peer(p) \in Parties /\ Peer(p) # p
    BY StateFunctions, PeerType
  <1>2. params'[Peer(p)] = params[Peer(p)]
    BY <1>1 DEF FillGenerator, objects
  <1>3. /\ pc'[Peer(p)] = pc[Peer(p)] /\ loc'[Peer(p)] = loc[Peer(p)]
        /\ results'[Peer(p)] = results[Peer(p)]
    BY <1>1 DEF FillGenerator, GeneratorReady, ReturnError, Return, Goto, Counters
  <1>4. snd'[Peer(p)] = snd[Peer(p)] /\ rcv'[Peer(p)] = rcv[Peer(p)]
    BY <1>1 DEF FillGenerator, GeneratorReady, SetDone, objects
  <1> QED
    BY <1>2, <1>3, <1>4 DEF Still

\* The lower end fills its generator from the seed it sends ...
LEMMA SendSeedJoint ==
  ASSUME Inv, JointInv, NEW p \in Parties, SendSeed(p)
  PROVE  JointInv'
  <1>1. PICK h : /\ Linked(h, script, channel)
                 /\ \A q \in Parties : View(q, Here(h, q))
    BY DEF JointInv
  <1>2. PICK x, id, m : /\ x = Here(h, p) /\ id = serial + 1
                        /\ m = [kind |-> "seed", id |-> id]
    OBVIOUS
  <1>3. /\ pc[p] = "seed" /\ p = Lo /\ Send(p, m) /\ FillGenerator(p, id)
        /\ UNCHANGED script
    BY <1>2 DEF SendSeed
  <1>4. Place(p, x) /\ ResultsView(p, x) /\ MembersView(p, x)
    BY <1>1, <1>2, <1>3, ViewMembers DEF Expanding
  <1>5. x.pos = "seed"
    BY <1>3, <1>4, PosAt
  <1>6. /\ Kind(x) = "seed" /\ Author(x) = p /\ Possible(x, script)
    BY <1>3, <1>5 DEF Kind, Author, Possible
  <1>7. m \in Message /\ Proper(x, m)
    <2>1. id \in Nat
      BY <1>2, StateFunctions
    <2> QED
      BY <1>2, <1>5, <1>6, <2>1 DEF Message, Proper
  <1>8. PICK y : y = PastSeed(x, m)
    OBVIOUS
  <1>9. y = Succ(x, script, m)
    BY <1>5, <1>8 DEF Succ
  <1>10. Good(y, script)
    <2>1. Good(x, script) /\ script \in Seq(Call)
      BY <1>1, <1>2, LinkedGood, StateFunctions
    <2>2. Enough(x)
      BY <1>4, <1>5, EnoughView
    <2> QED
      BY <1>5, <1>6, <1>7, <1>9, <2>1, <2>2, GoodSucc
  <1>11. View(p, y)'
    BY <1>2, <1>3, <1>4, <1>8, FillGeneratorView
  <1>12. Still(Peer(p)) /\ View(Peer(p), Here(h, Peer(p)))
    BY <1>1, <1>3, FillGeneratorStill, PeerType
  <1> QED
    BY <1>1, <1>2, <1>3, <1>6, <1>7, <1>9, <1>10, <1>11, <1>12, SendStep

\* ... and the higher end from the one it receives.
LEMMA ReceiveSeedJoint ==
  ASSUME Inv, JointInv, NEW p \in Parties, ReceiveSeed(p)
  PROVE  JointInv'
  <1>1. PICK h : /\ Linked(h, script, channel)
                 /\ \A q \in Parties : View(q, Here(h, q))
    BY DEF JointInv
  <1>2. PICK x, a, id : x = Here(h, p) /\ a = Head(channel[p]) /\ id = a.id
    OBVIOUS
  <1>3. /\ pc[p] = "seed" /\ p = Hi /\ Receive(p) /\ FillGenerator(p, id)
        /\ UNCHANGED script /\ channel[p] # <<>>
    BY <1>2 DEF ReceiveSeed, Arrived
  <1>4. Place(p, x) /\ ResultsView(p, x) /\ MembersView(p, x)
    BY <1>1, <1>2, <1>3, ViewMembers DEF Expanding
  <1>5. x.pos = "seed"
    BY <1>3, <1>4, PosAt
  <1>6. Kind(x) = "seed" /\ Author(x) = Peer(p)
    BY <1>3, <1>5, PartiesAssumption DEF Kind, Author, Peer
  <1>7. PICK y : y = PastSeed(x, a)
    OBVIOUS
  <1>8. y = Succ(x, script, a)
    BY <1>5, <1>7 DEF Succ
  <1>9. View(p, y)'
    BY <1>2, <1>3, <1>4, <1>7, FillGeneratorView
  <1>10. Still(Peer(p)) /\ View(Peer(p), Here(h, Peer(p)))
    BY <1>1, <1>3, FillGeneratorStill, PeerType
  <1> QED
    BY <1>1, <1>2, <1>3, <1>6, <1>8, <1>9, <1>10, ReceiveStep

-----------------------------------------------------------------------------
(* Expansions.                                                             *)

\* The check of the dimensions comes out as in the joint state.
LEMMA FitsMatch ==
  ASSUME NEW p \in Parties, NEW x, Place(p, x), MembersView(p, x), pc[p] # "idle"
  PROVE  Fits(x) <=> DimensionsMatch(p)
  BY OwnView DEF Fits, DimensionsMatch

\* Both ends refuse an expansion, or neither does.
LEMMA ExpandWrongDimensionsJoint ==
  ASSUME Inv, JointInv, NEW p \in Parties, ExpandWrongDimensions(p)
  PROVE  JointInv'
  <1>1. PICK h : /\ Linked(h, script, channel)
                 /\ \A q \in Parties : View(q, Here(h, q))
    BY DEF JointInv
  <1>2. PICK x : x = Here(h, p)
    OBVIOUS
  <1>3. /\ pc[p] = "expand" /\ ~DimensionsMatch(p) /\ ReturnError(p)
        /\ UNCHANGED <<script, objects, channel, ghosts>>
    BY DEF ExpandWrongDimensions
  <1>4. Place(p, x) /\ ResultsView(p, x) /\ MembersView(p, x)
    BY <1>1, <1>2, <1>3, ViewMembers DEF Expanding
  <1>5. x.pos = "expand" /\ ~Fits(x)
    BY <1>3, <1>4, PosAt, FitsMatch
  <1>6. PICK y : y = Succ(x, script, NoMessage)
    OBVIOUS
  <1>7. y = Ends(x, FALSE, <<>>, x.par, Own(x))
    BY <1>5, <1>6 DEF Succ, PastExpand
  <1>8. View(p, y)'
    <2>1. View(p, Ends(x, FALSE, <<>>, x.par, Own(x)))'
      BY <1>3, <1>4, ErrorView DEF objects
    <2> QED
      BY <1>7, <2>1
  <1>9. Still(Peer(p))
    BY <1>3, PeerType, StateFunctions
    DEF Still, ReturnError, Return, Goto, objects, Counters
  <1>10. Kind(x) = "free" /\ Possible(x, script)
    BY <1>5 DEF Kind, Possible
  <1> QED
    BY <1>1, <1>2, <1>3, <1>6, <1>8, <1>9, <1>10, FreeStep

\* The peer gets to know nothing of this: the joint states stay the same.
LEMMA ExpandSenderFailsJoint ==
  ASSUME Inv, JointInv, NEW p \in Parties, ExpandSenderFails(p)
  PROVE  JointInv'
  <1>1. PICK h : /\ Linked(h, script, channel)
                 /\ \A q \in Parties : View(q, Here(h, q))
    BY DEF JointInv
  <1>2. PICK x : x = Here(h, p)
    OBVIOUS
  <1>3. /\ pc[p] = "expand" /\ IsSender(p) /\ Goto(p, "failed")
        /\ params' = [params EXCEPT ![p].buckets = UpdateBuckets(p, loc[p].output)]
        /\ UNCHANGED <<app, loc, snd, rcv, channel>>
    BY DEF ExpandSenderFails
  <1>4. Place(p, x) /\ ResultsView(p, x) /\ MembersView(p, x)
    BY <1>1, <1>2, <1>3, ViewMembers DEF Expanding
  <1>5. x.pos = "expand" /\ x.sender = p /\ loc[p].role = "sender"
    BY <1>3, <1>4, PosAt DEF IsSender
  <1>6. pc'[p] = "failed" /\ Sizes(params'[p]) = Sizes(params[p])
    BY <1>3, StateFunctions DEF Goto, Counters, Sizes, Params
  <1>7. Place(p, x)'
    BY <1>3, <1>4, <1>5, <1>6 DEF Place, PcAt
  <1>8. View(p, x)'
    BY <1>3, <1>4, <1>5, <1>6, <1>7, MovedView DEF Expanding, app
  <1>9. View(Peer(p), Here(h, Peer(p)))'
    <2>1. Still(Peer(p))
      BY <1>3, PeerType, StateFunctions DEF Still, Goto, Counters, app
    <2> QED
      BY <1>1, <2>1, PeerType, StillView
  <1>10. Linked(h, script', channel') /\ View(p, Here(h, p))'
    BY <1>1, <1>2, <1>3, <1>8 DEF app
  <1> QED
    BY <1>9, <1>10, JointViews

\* The Sender enters MPFSS with what the joint state says of its seeds.
LEMMA ExpandSenderJoint ==
  ASSUME Inv, JointInv, NEW p \in Parties, ExpandSender(p)
  PROVE  JointInv'
  <1>1. PICK h : /\ Linked(h, script, channel)
                 /\ \A q \in Parties : View(q, Here(h, q))
    BY DEF JointInv
  <1>2. PICK x, m, run :
          /\ x = Here(h, p) /\ run = serial + 1
          /\ m = [kind |-> "masked", run |-> serial + 1,
                  vole_seed |-> snd[p].vole_seed, mpfss_seed |-> snd[p].mpfss_seed,
                  generator |-> params[p].generator.id,
                  buckets |-> UpdateBuckets(p, loc[p].output)]
    OBVIOUS
  <1>3. /\ pc[p] = "expand" /\ IsSender(p) /\ DimensionsMatch(p) /\ Goto(p, "sums")
        /\ params' = [params EXCEPT ![p].buckets = UpdateBuckets(p, loc[p].output)]
        /\ loc' = [loc EXCEPT ![p].run = run]
        /\ Send(p, m) /\ UNCHANGED <<app, snd, rcv>>
    BY <1>2 DEF ExpandSender
  <1>4. Place(p, x) /\ ResultsView(p, x) /\ MembersView(p, x)
    BY <1>1, <1>2, <1>3, ViewMembers DEF Expanding
  <1>5. x.pos = "expand" /\ x.sender = p /\ loc[p].role = "sender" /\ Fits(x)
    BY <1>3, <1>4, PosAt, FitsMatch DEF IsSender
  <1>6. Kind(x) = "free" /\ Possible(x, script)
    BY <1>5 DEF Kind, Possible
  <1>7. /\ pc \in Counters /\ loc \in [Parties -> Locals] /\ loc[p] \in Locals
        /\ params \in [Parties -> Params] /\ params[p] \in Params
        /\ snd[p] \in SenderState /\ serial + 1 \in Nat \ {0}
    BY StateFunctions
  <1>8. PICK z : z = Succ(x, script, NoMessage)
    OBVIOUS
  <1>9. /\ z.pos = "wait0" /\ z.n = x.n /\ z.res = x.res /\ z.sender = p
        /\ z.call = x.call /\ z.par = x.par /\ z.stock = x.stock
    BY <1>5, <1>8 DEF Succ, PastExpand, Go, JointState
  <1>10. Kind(z) = "masked" /\ Author(z) = p
    BY <1>9 DEF Kind, Author
  <1>11. m \in Message
    <2>1. /\ snd[p].vole_seed \in Vector /\ snd[p].mpfss_seed \in Vector
          /\ params[p].generator.id \in Nat
          /\ UpdateBuckets(p, loc[p].output) \in [size : Nat, num : Nat]
      BY <1>7 DEF SenderState, Params, UpdateBuckets, Locals
    <2> QED
      BY <1>2, <1>7, <2>1 DEF Message
  <1>12. Proper(z, m)
    <2>1. /\ Own(z).vole_seed = snd[p].vole_seed
          /\ Own(z).mpfss_seed = snd[p].mpfss_seed
      BY <1>4, <1>9 DEF Own, MembersView, SenderView
    <2>2. /\ z.par.generator.id = params[p].generator.id
          /\ Buckets(z) = UpdateBuckets(p, loc[p].output)
      BY <1>4, <1>9 DEF Place, Sizes, Frame, Buckets, UpdateBuckets
    <2> QED
      BY <1>2, <1>7, <1>9, <1>10, <2>1, <2>2 DEF Proper
  <1>13. Enough(z)
    BY <1>4, <1>9, EnoughView
  <1>14. PICK y : y = Succ(z, script, m)
    OBVIOUS
  <1>15. /\ y.pos = "wait1" /\ y.n = x.n /\ y.res = x.res /\ y.sender = p
         /\ y.call = x.call /\ y.par = x.par /\ y.stock = x.stock /\ y.run = run
    BY <1>2, <1>9, <1>14 DEF Succ, PastWait0, JointState
  <1>16. /\ pc'[p] = "sums" /\ Sizes(params'[p]) = Sizes(params[p])
         /\ Frame(loc'[p]) = Frame(loc[p]) /\ loc'[p].run = run
         /\ loc'[p].role = loc[p].role
    BY <1>3, <1>7 DEF Goto, Counters, Sizes, Params, Frame, Locals
  <1>17. View(p, y)'
    <2>1. Place(p, y)'
      BY <1>4, <1>5, <1>15, <1>16 DEF Place, PcAt
    <2> QED
      BY <1>3, <1>4, <1>15, <1>16, <2>1, MovedView DEF Expanding, app
  <1>18. Still(Peer(p)) /\ UNCHANGED script
    BY <1>3, <1>7, PeerType DEF Still, Goto, Counters, app
  <1> QED
    BY <1>1, <1>2, <1>3, <1>6, <1>8, <1>9, <1>10, <1>11, <1>12, <1>13, <1>14, <1>17,
       <1>18, FreeSendStep

\* The Receiver enters MPFSS with its cache resized.
LEMMA ExpandReceiverJoint ==
  ASSUME Inv, JointInv, NEW p \in Parties, ExpandReceiver(p)
  PROVE  JointInv'
  <1>1. PICK h : /\ Linked(h, script, channel)
                 /\ \A q \in Parties : View(q, Here(h, q))
    BY DEF JointInv
  <1>2. PICK x : x = Here(h, p)
    OBVIOUS
  <1>3. /\ pc[p] = "expand" /\ ~IsSender(p) /\ DimensionsMatch(p) /\ Goto(p, "masked")
        /\ rcv' = [rcv EXCEPT ![p].cached = @ \o Unshared(loc[p].output)]
        /\ params' = [params EXCEPT ![p].buckets = UpdateBuckets(p, loc[p].output)]
        /\ UNCHANGED <<app, loc, snd, channel>>
    BY DEF ExpandReceiver
  <1>4. Place(p, x) /\ ResultsView(p, x) /\ MembersView(p, x)
    BY <1>1, <1>2, <1>3, ViewMembers DEF Expanding
  <1>5. Peer(p) \in Parties /\ Peer(p) # p
    BY PeerType
  <1>6. /\ x.pos = "expand" /\ x.sender = Peer(p) /\ loc[p].role = "receiver"
        /\ Fits(x)
    BY <1>3, <1>4, PosAt, FitsMatch
  <1>7. Kind(x) = "free" /\ Possible(x, script)
    BY <1>6 DEF Kind, Possible
  <1>8. PICK y : y = Succ(x, script, NoMessage)
    OBVIOUS
  <1>9. /\ y.pos = "wait0" /\ y.n = x.n /\ y.res = x.res /\ y.sender = Peer(p)
        /\ y.call = x.call /\ y.par = x.par /\ y.stock = x.stock
    BY <1>6, <1>8 DEF Succ, PastExpand, Go, JointState
  <1>10. /\ pc \in Counters /\ params \in [Parties -> Params] /\ params[p] \in Params
         /\ rcv \in [Parties -> ReceiverState] /\ rcv[p] \in ReceiverState
    BY StateFunctions
  <1>11. /\ pc'[p] = "masked" /\ Sizes(params'[p]) = Sizes(params[p])
         /\ params'[p].buckets = UpdateBuckets(p, loc[p].output)
         /\ loc'[p] = loc[p] /\ snd'[p] = snd[p] /\ results'[p] = results[p]
    BY <1>3, <1>10 DEF Goto, Counters, Sizes, Params, app
  <1>12. Buckets(y) = UpdateBuckets(p, loc[p].output) /\ y.call.output = loc[p].output
    BY <1>4, <1>9 DEF Place, Sizes, Frame, Buckets, UpdateBuckets
  <1>13. Place(p, y)'
    BY <1>4, <1>5, <1>6, <1>9, <1>11, <1>12 DEF Place, PcAt
  <1>14. ResultsView(p, y)' /\ SenderView(p, y.stock[p])'
    BY <1>4, <1>9, <1>11 DEF ResultsView, MembersView, SenderView
  <1>15. ReceiverView(p, y.stock[Peer(p)])'
    BY <1>3, <1>4, <1>9, <1>10 DEF MembersView, ReceiverView, ReceiverState
  <1>16. CacheView(p, y)'
    <2>1. rcv'[p].cached = rcv[p].cached \o Unshared(loc[p].output)
      BY <1>3, <1>10 DEF ReceiverState
    <2> QED
      BY <1>4, <1>6, <1>9, <1>11, <1>12, <2>1 DEF CacheView, Expanding, MembersView
  <1>17. View(p, y)'
    BY <1>13, <1>14, <1>15, <1>16 DEF View
  <1>18. Still(Peer(p)) /\ UNCHANGED <<script, channel>>
    BY <1>3, <1>5, <1>10, StateFunctions DEF Still, Goto, Counters, app
  <1> QED
    BY <1>1, <1>2, <1>7, <1>8, <1>17, <1>18, FreeStep

\* An end that fails inside MPFSS keeps its view of the joint state.
LEMMA ExpandReceiverFailsJoint ==
  ASSUME Inv, JointInv, NEW p \in Parties, ExpandReceiverFails(p)
  PROVE  JointInv'
  <1>1. PICK h : /\ Linked(h, script, channel)
                 /\ \A q \in Parties : View(q, Here(h, q))
    BY DEF JointInv
  <1>2. PICK x, a : x = Here(h, p) /\ a = Head(channel[p])
    OBVIOUS
  <1>3. /\ pc[p] = "masked" /\ channel[p] # <<>> /\ Receive(p) /\ Goto(p, "failed")
        /\ UNCHANGED <<app, loc, objects>>
    BY DEF ExpandReceiverFails, Arrived
  <1>4. View(p, x) /\ Place(p, x)
    BY <1>1, <1>2 DEF View
  <1>5. Peer(p) \in Parties /\ Peer(p) # p
    BY PeerType
  <1>6. x.pos = "wait0" /\ x.sender = Peer(p) /\ loc[p].role = "receiver"
    BY <1>3, <1>4, PosAt
  <1>7. Kind(x) # "free" /\ Author(x) = Peer(p)
    BY <1>6 DEF Kind, Author
  <1>8. PICK y : y = Succ(x, script, a)
    OBVIOUS
  <1>9. /\ y.pos = "wait1" /\ y.n = x.n /\ y.res = x.res /\ y.sender = Peer(p)
        /\ y.call = x.call /\ y.par = x.par /\ y.stock = x.stock
    BY <1>6, <1>8 DEF Succ, PastWait0, JointState
  <1>10. /\ pc'[p] = "failed" /\ loc'[p] = loc[p] /\ params'[p] = params[p]
         /\ snd'[p] = snd[p] /\ rcv'[p] = rcv[p] /\ results'[p] = results[p]
    BY <1>3, StateFunctions DEF Goto, Counters, app, objects
  <1>11. View(p, y)'
    <2>1. Place(p, y)'
      BY <1>4, <1>5, <1>6, <1>9, <1>10 DEF Place, PcAt
    <2>2. ResultsView(p, y)' /\ SenderView(p, y.stock[p])' /\ ReceiverView(p, y.stock[Peer(p)])'
      BY <1>4, <1>9, <1>10 DEF View, ResultsView, SenderView, ReceiverView
    <2>3. CacheView(p, y)'
      BY <1>6, <1>10 DEF CacheView, Expanding
    <2> QED
      BY <2>1, <2>2, <2>3 DEF View
  <1>12. Still(Peer(p)) /\ UNCHANGED script
    BY <1>3, <1>5, StateFunctions DEF Still, Goto, Counters, app, objects
  <1> QED
    BY <1>1, <1>2, <1>3, <1>5, <1>7, <1>8, <1>11, <1>12, ReceiveStep

\* Where an end gets to after an expansion, and with which sizes.
LEMMA AfterExpandPlace ==
  ASSUME Inv, NEW p \in Parties, pc[p] \in {"masked", "sums"}, AfterExpand(p), NEW z,
         z.call = Frame(loc[p]), z.par = Sizes(params[p]), z.sender \in Parties,
         loc[p].role = IF z.sender = p THEN "sender" ELSE "receiver",
         NEW own, own = Reseeded(Own(z), Expansion(z), z.call.new_vole, z.call.new_mpfss),
         NEW y, y = PastWait1(z)
  PROVE  /\ Place(p, y)' /\ pc'[p] \in {"copy", "loop"}
         /\ y.n = z.n /\ y.res = z.res /\ y.stock = WithOwn(z, own)
  <1>1. /\ loc \in [Parties -> Locals] /\ loc[p] \in Locals
        /\ params \in [Parties -> Params] /\ params[p] \in Params /\ pc \in Counters
    BY StateFunctions
  <1>2. /\ params'[p] = NextParams(p)
        /\ \/ loc[p].final /\ pc'[p] = "copy" /\ loc' = loc
           \/ ~loc[p].final /\ pc'[p] = "loop" /\ loc'[p] = [loc[p] EXCEPT !.i = @ + 1]
    BY <1>1 DEF AfterExpand, Goto, Counters
  <1>3. /\ y.n = z.n /\ y.res = z.res /\ y.stock = WithOwn(z, own)
        /\ y.sender = z.sender /\ y.pos = IF z.call.final THEN "copy" ELSE "loop"
    BY DEF PastWait1, JointState
  <1>4. Sizes(params'[p]) = y.par
    BY <1>1, <1>2 DEF PastWait1, JointState, Sizes, NextParams, Frame, Params
  <1>5. Frame(loc'[p]) = y.call /\ loc'[p].role = loc[p].role
    BY <1>1, <1>2 DEF PastWait1, JointState, Frame, Locals
  <1>6. Place(p, y)'
    BY <1>2, <1>3, <1>4, <1>5 DEF Place, PcAt, Frame
  <1> QED
    BY <1>2, <1>3, <1>6

\* What is appended to a vector is its tail.
LEMMA WithoutAppended ==
  ASSUME NEW a \in Vector, NEW b \in Vector
  PROVE  WithoutTail(a \o b, Len(b)) = a
  <1>1. /\ Len(a) \in Nat /\ Len(b) \in Nat /\ a \o b \in Vector
        /\ Len(a \o b) = Len(a) + Len(b)
    BY ConcatType DEF Vector
  <1>2. /\ WithoutTail(a \o b, Len(b)) \in Vector
        /\ Len(WithoutTail(a \o b, Len(b))) = Len(a)
    <2>1. PICK c, n : c = a \o b /\ n = Len(b)
      OBVIOUS
    <2>2. /\ c \in Vector /\ n \in Nat /\ Len(c) = Len(a) + n /\ n <= Len(c)
      BY <1>1, <2>1
    <2>3. /\ WithoutTail(c, n) \in Vector /\ Len(WithoutTail(c, n)) = Len(c) - n
      BY <2>2, TailType
    <2> QED
      BY <1>1, <2>1, <2>2, <2>3
  <1>3. ASSUME NEW i \in 1 .. Len(a) PROVE WithoutTail(a \o b, Len(b))[i] = a[i]
    <2>1. WithoutTail(a \o b, Len(b)) = SubSeq(a \o b, 1, Len(a))
      BY <1>1 DEF WithoutTail
    <2>2. SubSeq(a \o b, 1, Len(a))[i] = (a \o b)[i] /\ (a \o b)[i] = a[i]
      BY <1>1 DEF Vector
    <2> QED
      BY <2>1, <2>2
  <1> QED
    BY <1>2, <1>3 DEF Vector

\* What the Sender has sent matches the Receiver's seeds: the expansion is shared.
LEMMA ExpandReceiverDoneJoint ==
  ASSUME Inv, JointInv, NEW p \in Parties, ExpandReceiverDone(p)
  PROVE  JointInv'
  <1>1. PICK h : /\ Linked(h, script, channel)
                 /\ \A q \in Parties : View(q, Here(h, q))
    BY DEF JointInv
  <1>2. PICK x, a : x = Here(h, p) /\ a = Head(channel[p])
    OBVIOUS
  <1>3. PICK m : m = [kind |-> "sums", run |-> a.run]
    OBVIOUS
  <1> DEFINE made == IF Matches(p, a)
                     THEN Fresh(rcv[p].mpfss_delta, a.run, loc[p].output)
                     ELSE Unshared(loc[p].output)
             vec == WithoutTail(rcv[p].cached, loc[p].output) \o made
  <1>4. /\ pc[p] = "masked" /\ Arrived(p, "masked") /\ AfterExpand(p)
        /\ rcv' = [rcv EXCEPT ![p] = ReceiverSeeds(@, vec, loc[p].new_vole,
                                                   loc[p].new_mpfss)]
        /\ Reply(p, m) /\ UNCHANGED <<app, snd>>
    BY <1>2, <1>3 DEF ExpandReceiverDone
  <1> HIDE DEF made
  <1>5. View(p, x) /\ Place(p, x) /\ ResultsView(p, x)
    BY <1>1, <1>2 DEF View
  <1>6. Peer(p) \in Parties /\ Peer(p) # p
    BY PeerType
  <1>7. x.pos = "wait0" /\ x.sender = Peer(p) /\ loc[p].role = "receiver"
    BY <1>4, <1>5, PosAt
  <1>8. /\ x.call = Frame(loc[p]) /\ x.par = Sizes(params[p])
        /\ params[p].buckets = Buckets(x)
        /\ x.call.output = loc[p].output /\ x.call.new_vole = loc[p].new_vole
        /\ x.call.new_mpfss = loc[p].new_mpfss
    BY <1>4, <1>5 DEF Place, Frame
  <1>9. PICK o : o = Own(x)
    OBVIOUS
  <1>10. /\ ReceiverView(p, o) /\ SenderView(p, x.stock[p])
         /\ rcv[p].cached = o.cached \o Unshared(loc[p].output)
    BY <1>4, <1>5, <1>7, <1>8, <1>9 DEF View, CacheView, Expanding, Own
  <1>11. Kind(x) # "free" /\ Author(x) = Peer(p)
    BY <1>7 DEF Kind, Author
  <1>12. channel[p] # <<>> /\ Proper(x, a) /\ a \in Message
    BY <1>1, <1>2, <1>4, <1>11, JointHead
  <1>13. /\ a.run \in Nat \ {0} /\ a.vole_seed = rcv[p].vole_seed
         /\ a.mpfss_seed = rcv[p].mpfss_seed /\ a.buckets = params[p].buckets
         /\ a.generator = params[p].generator.id
    BY <1>7, <1>8, <1>9, <1>10, <1>12 DEF Proper, ReceiverView, Sizes
  <1>14. /\ Under(o.cached, o.delta) /\ Under(o.vole_seed, o.mpfss_delta)
         /\ o.delta \in Nat /\ o.mpfss_delta = o.delta
    <2>1. StockUnder(x)
      BY <1>1, <1>2, LinkedGood DEF Good
    <2> QED
      BY <1>6, <1>7, <1>9, <2>1 DEF StockUnder, Renewing, Own
  <1>15. Matches(p, a)
    <2>1. \A e \in ToSet(rcv[p].vole_seed) : e[1] = rcv[p].mpfss_delta
      BY <1>10, <1>14 DEF Under, ToSet, ReceiverView
    <2> QED
      BY <1>13, <2>1 DEF Matches
  <1>16. PICK z : z = Succ(x, script, a)
    OBVIOUS
  <1>17. /\ z.pos = "wait1" /\ z.n = x.n /\ z.res = x.res /\ z.sender = Peer(p)
         /\ z.call = x.call /\ z.par = x.par /\ z.stock = x.stock /\ z.run = a.run
         /\ Own(z) = o
    BY <1>7, <1>9, <1>16 DEF Succ, PastWait0, JointState, Own
  <1>18. Author(z) = p
    BY <1>6, <1>17 DEF Author, Peer, Parties
  <1>19. Enough(z)
    BY <1>4, <1>5, <1>17, EnoughView
  <1>20. m \in Message /\ Proper(z, m)
    BY <1>3, <1>13, <1>17 DEF Message, Proper, Kind
  <1>21. vec = Expansion(z)
    <2>1. /\ o.cached \in Vector /\ loc[p].output \in Nat
      BY <1>14, StateFunctions DEF Under, Locals
    <2>2. PICK b : /\ b = Unshared(loc[p].output) /\ b \in Vector
                   /\ Len(b) = loc[p].output
      BY <2>1, NewVectorTypes
    <2>3. WithoutTail(o.cached \o b, Len(b)) = o.cached
      BY <2>1, <2>2, WithoutAppended
    <2>4. WithoutTail(rcv[p].cached, loc[p].output) = o.cached
      BY <1>10, <2>2, <2>3
    <2>5. made = Fresh(o.mpfss_delta, a.run, loc[p].output)
      BY <1>10, <1>15 DEF made, ReceiverView
    <2> QED
      BY <1>8, <1>17, <2>4, <2>5 DEF Expansion
  <1> HIDE DEF vec
  <1>22. PICK vole, mpfss, all, own :
           /\ vole = z.call.new_vole /\ mpfss = z.call.new_mpfss
           /\ all = Expansion(z) /\ own = Reseeded(o, all, vole, mpfss)
    OBVIOUS
  <1>23. PICK y : y = PastWait1(z)
    OBVIOUS
  <1>24. y = Succ(z, script, m)
    BY <1>17, <1>23 DEF Succ
  <1>25. /\ Place(p, y)' /\ pc'[p] \in {"copy", "loop"}
         /\ y.n = z.n /\ y.res = z.res /\ y.stock = WithOwn(z, own)
    <2>1. own = Reseeded(Own(z), Expansion(z), z.call.new_vole, z.call.new_mpfss)
      BY <1>17, <1>22
    <2>2. /\ z.call = Frame(loc[p]) /\ z.par = Sizes(params[p]) /\ z.sender \in Parties
          /\ loc[p].role = IF z.sender = p THEN "sender" ELSE "receiver"
      BY <1>6, <1>7, <1>8, <1>17
    <2> QED
      BY <1>4, <1>23, <2>1, <2>2, AfterExpandPlace
  <1>26. /\ ReceiverView(p, own)' /\ rcv'[p].cached = own.cached
    <2>1. /\ rcv[p] \in ReceiverState
          /\ rcv'[p] = ReceiverSeeds(rcv[p], all, vole, mpfss)
      BY <1>4, <1>8, <1>17, <1>21, <1>22, StateFunctions
    <2>2. /\ ReceiverView(p, Reseeded(o, all, vole, mpfss))'
          /\ rcv'[p].cached = Reseeded(o, all, vole, mpfss).cached
      BY <1>10, <2>1, ReceiverReseeded
    <2> QED
      BY <1>22, <2>2
  <1>27. View(p, y)'
    <2>1. snd'[p] = snd[p] /\ results'[p] = results[p]
      BY <1>4 DEF app
    <2>2. ResultsView(p, y)'
      BY <1>5, <1>17, <1>25, <2>1 DEF ResultsView
    <2>3. y.stock[p] = x.stock[p] /\ y.stock[Peer(p)] = own
      BY <1>6, <1>17, <1>25 DEF WithOwn
    <2>4. MembersView(p, y)'
      BY <1>10, <1>26, <2>1, <2>3 DEF MembersView, SenderView, ReceiverView
    <2> QED
      BY <1>25, <2>2, <2>4, MembersWhole DEF Expanding
  <1>28. Still(Peer(p)) /\ UNCHANGED script
    BY <1>4, <1>6, StateFunctions DEF Still, AfterExpand, Goto, Counters, app
  <1> QED
    BY <1>1, <1>2, <1>4, <1>11, <1>12, <1>16, <1>17, <1>18, <1>19, <1>20, <1>24, <1>27,
       <1>28, ReplyStep

\* The Sender makes the same elements when it has the sums.
LEMMA ExpandSenderDoneJoint ==
  ASSUME Inv, JointInv, NEW p \in Parties, ExpandSenderDone(p)
  PROVE  JointInv'
  <1>1. PICK h : /\ Linked(h, script, channel)
                 /\ \A q \in Parties : View(q, Here(h, q))
    BY DEF JointInv
  <1>2. PICK x, a : x = Here(h, p) /\ a = Head(channel[p])
    OBVIOUS
  <1> DEFINE made == IF a.run = loc[p].run
                     THEN Fresh(snd[p].vole_seed[1][1], loc[p].run, loc[p].output)
                     ELSE Unshared(loc[p].output)
             vec == snd[p].cached \o made
  <1>3. /\ pc[p] = "sums" /\ Arrived(p, "sums") /\ AfterExpand(p)
        /\ snd' = [snd EXCEPT ![p] = SenderSeeds(@, @.cached \o made, loc[p].new_vole,
                                                 loc[p].new_mpfss)]
        /\ Receive(p) /\ UNCHANGED <<app, rcv>>
    BY <1>2 DEF ExpandSenderDone
  <1> HIDE DEF made
  <1>4. Place(p, x) /\ ResultsView(p, x) /\ MembersView(p, x)
    BY <1>1, <1>2, <1>3, ViewMembers DEF Expanding
  <1>5. Peer(p) \in Parties /\ Peer(p) # p
    BY PeerType
  <1>6. x.pos = "wait1" /\ x.sender = p /\ loc[p].role = "sender"
    BY <1>3, <1>4, PosAt DEF IsSender
  <1>7. /\ x.call = Frame(loc[p]) /\ x.par = Sizes(params[p]) /\ loc[p].run = x.run
        /\ x.call.output = loc[p].output /\ x.call.new_vole = loc[p].new_vole
        /\ x.call.new_mpfss = loc[p].new_mpfss
    BY <1>3, <1>4 DEF Place, Frame
  <1>8. Kind(x) # "free" /\ Author(x) = Peer(p)
    BY <1>6 DEF Kind, Author
  <1>9. channel[p] # <<>> /\ Proper(x, a)
    BY <1>1, <1>2, <1>3, <1>8, JointHead
  <1>10. a.run = loc[p].run
    BY <1>6, <1>7, <1>9 DEF Proper
  <1>11. PICK o : o = Own(x)
    OBVIOUS
  <1>12. SenderView(p, o)
    BY <1>4, <1>6, <1>11 DEF MembersView, Own
  <1>13. snd[p].vole_seed[1][1] = o.mpfss_delta
    <2>1. Under(o.vole_seed, o.mpfss_delta)
      <3>1. StockUnder(x)
        BY <1>1, <1>2, LinkedGood DEF Good
      <3> QED
        BY <1>6, <1>11, <3>1 DEF StockUnder, Own
    <2>2. Len(snd[p].vole_seed) >= 1 /\ snd[p].vole_seed \in Vector
      BY <1>3, InvParts, PartyTypes DEF PartyInv, Seeded, SenderState
    <2>3. 1 \in DOMAIN snd[p].vole_seed
      BY <2>2 DEF Vector
    <2> QED
      BY <1>12, <2>1, <2>3 DEF Under, SenderView
  <1>14. vec = Expansion(x)
    BY <1>7, <1>10, <1>11, <1>12, <1>13 DEF made, Expansion, SenderView
  <1>15. /\ snd[p] \in SenderState
         /\ snd'[p] = SenderSeeds(snd[p], vec, x.call.new_vole, x.call.new_mpfss)
    BY <1>3, <1>7, StateFunctions
  <1> HIDE DEF vec
  <1>16. PICK vole, mpfss, all, own :
           /\ vole = x.call.new_vole /\ mpfss = x.call.new_mpfss
           /\ all = Expansion(x) /\ own = Reseeded(o, all, vole, mpfss)
    OBVIOUS
  <1>17. PICK y : y = PastWait1(x)
    OBVIOUS
  <1>18. y = Succ(x, script, a)
    BY <1>6, <1>17 DEF Succ
  <1>19. /\ Place(p, y)' /\ pc'[p] \in {"copy", "loop"}
         /\ y.n = x.n /\ y.res = x.res /\ y.stock = WithOwn(x, own)
    <2>1. own = Reseeded(Own(x), Expansion(x), x.call.new_vole, x.call.new_mpfss)
      BY <1>11, <1>16
    <2> QED
      BY <1>3, <1>6, <1>7, <1>17, <2>1, AfterExpandPlace
  <1>20. SenderView(p, own)'
    <2>1. SenderView(p, Reseeded(o, all, vole, mpfss))'
      BY <1>12, <1>14, <1>15, <1>16, SenderReseeded
    <2> QED
      BY <1>16, <2>1
  <1>21. View(p, y)'
    <2>1. rcv'[p] = rcv[p] /\ results'[p] = results[p]
      BY <1>3 DEF app
    <2>2. ResultsView(p, y)'
      BY <1>4, <1>19, <2>1 DEF ResultsView
    <2>3. MembersView(p, y)'
      BY <1>4, <1>6, <1>19, <1>20, <2>1, MembersOwn
    <2> QED
      BY <1>19, <2>2, <2>3, MembersWhole DEF Expanding
  <1>22. Still(Peer(p)) /\ UNCHANGED script
    BY <1>3, <1>5, StateFunctions DEF Still, AfterExpand, Goto, Counters, app
  <1> QED
    BY <1>1, <1>2, <1>3, <1>5, <1>8, <1>9, <1>18, <1>21, <1>22, ReceiveStep

-----------------------------------------------------------------------------
(* RunX.                                                                   *)

\* Both ends have a precomputation for a run, or neither has.
LEMMA UsePrecomputedJoint ==
  ASSUME Inv, JointInv, NEW p \in Parties, UsePrecomputed(p)
  PROVE  JointInv'
  <1>1. PICK h : /\ Linked(h, script, channel)
                 /\ \A q \in Parties : View(q, Here(h, q))
    BY DEF JointInv
  <1>2. PICK x : x = Here(h, p)
    OBVIOUS
  <1>3. /\ pc[p] = "begin" /\ ~NeedsPrecompute(p) /\ Goto(p, "fetch")
        /\ UNCHANGED <<app, loc, objects, channel>>
    BY DEF UsePrecomputed
  <1>4. Place(p, x) /\ ResultsView(p, x) /\ MembersView(p, x)
    BY <1>1, <1>2, <1>3, ViewMembers DEF Expanding
  <1>5. x.pos = "begin" /\ ~NeedsFirst(x)
    BY <1>3, <1>4, PosAt, OwnView
  <1>6. Kind(x) = "free" /\ Possible(x, script)
    BY <1>5 DEF Kind, Possible
  <1>7. PICK y : y = Succ(x, script, NoMessage)
    OBVIOUS
  <1>8. /\ y.pos = "fetch" /\ y.n = x.n /\ y.res = x.res /\ y.sender = x.sender
        /\ y.call = x.call /\ y.par = x.par /\ y.stock = x.stock
    BY <1>5, <1>7 DEF Succ, PastBegin, Go, JointState
  <1>9. /\ pc'[p] = "fetch" /\ loc'[p] = loc[p] /\ params'[p] = params[p]
        /\ snd'[p] = snd[p] /\ rcv'[p] = rcv[p] /\ results'[p] = results[p]
    BY <1>3, StateFunctions DEF Goto, Counters, app, objects
  <1>10. Place(p, y)'
    BY <1>3, <1>4, <1>8, <1>9 DEF Place, PcAt
  <1>11. View(p, y)'
    BY <1>4, <1>8, <1>9, <1>10, MovedView DEF Expanding
  <1>12. Still(Peer(p)) /\ UNCHANGED <<script, channel>>
    BY <1>3, PeerType, StateFunctions DEF Still, Goto, Counters, app, objects
  <1> QED
    BY <1>1, <1>2, <1>6, <1>7, <1>11, <1>12, FreeStep

\* Both caches are too short for a run, or neither is.
LEMMA FetchOutOfRangeJoint ==
  ASSUME Inv, JointInv, NEW p \in Parties, FetchOutOfRange(p)
  PROVE  JointInv'
  <1>1. PICK h : /\ Linked(h, script, channel)
                 /\ \A q \in Parties : View(q, Here(h, q))
    BY DEF JointInv
  <1>2. PICK x : x = Here(h, p)
    OBVIOUS
  <1>3. /\ pc[p] = "fetch" /\ Len(Cached(p)) < loc[p].size /\ Goto(p, "copy")
        /\ UNCHANGED <<app, loc, objects, channel>>
    BY DEF FetchOutOfRange
  <1>4. Place(p, x) /\ ResultsView(p, x) /\ MembersView(p, x)
    BY <1>1, <1>2, <1>3, ViewMembers DEF Expanding
  <1>5. x.pos = "fetch" /\ Len(Own(x).cached) < x.call.size
    BY <1>3, <1>4, PosAt, OwnView
  <1>6. Kind(x) = "free" /\ Possible(x, script)
    BY <1>5 DEF Kind, Possible
  <1>7. PICK y : y = Succ(x, script, NoMessage)
    OBVIOUS
  <1>8. ~(Len(Own(x).cached) >= x.call.size)
    <2>1. Len(Own(x).cached) \in Nat /\ x.call.size \in Int
      <3>1. Len(Cached(p)) \in Nat /\ loc[p].size \in Int
        BY StateFunctions, CachedType DEF Vector, Locals
      <3> QED
        BY <1>3, <1>4, <3>1, OwnView
    <2> QED
      BY <1>5, <2>1
  <1>9. /\ y.pos = "copy" /\ y.n = x.n /\ y.res = x.res /\ y.sender = x.sender
        /\ y.call = x.call /\ y.par = x.par /\ y.stock = x.stock
    BY <1>5, <1>7, <1>8 DEF Succ, PastFetch, Go, JointState
  <1>10. /\ pc'[p] = "copy" /\ loc'[p] = loc[p] /\ params'[p] = params[p]
         /\ snd'[p] = snd[p] /\ rcv'[p] = rcv[p] /\ results'[p] = results[p]
    BY <1>3, StateFunctions DEF Goto, Counters, app, objects
  <1>11. Place(p, y)'
    BY <1>3, <1>4, <1>9, <1>10 DEF Place, PcAt
  <1>12. View(p, y)'
    BY <1>4, <1>9, <1>10, <1>11, MovedView DEF Expanding
  <1>13. Still(Peer(p)) /\ UNCHANGED <<script, channel>>
    BY <1>3, PeerType, StateFunctions DEF Still, Goto, Counters, app, objects
  <1> QED
    BY <1>1, <1>2, <1>6, <1>7, <1>12, <1>13, FreeStep

\* The cache that the end sets is that of the role it is in.
LEMMA RecachedView ==
  ASSUME Inv, NEW p \in Parties, NEW x, Place(p, x), MembersView(p, x),
         pc[p] # "idle", NEW vec, SetCached(p, vec),
         NEW own, own = Recached(Own(x), vec)
  PROVE  \/ x.sender = p /\ SenderView(p, own)' /\ rcv'[p] = rcv[p]
         \/ /\ x.sender = Peer(p) /\ snd'[p] = snd[p]
            /\ ReceiverView(p, own)' /\ rcv'[p].cached = own.cached
  <1>1. IF IsSender(p) THEN x.sender = p ELSE x.sender = Peer(p)
    BY PosAt
  <1>2. /\ snd \in [Parties -> SenderState] /\ snd[p] \in SenderState
        /\ rcv \in [Parties -> ReceiverState] /\ rcv[p] \in ReceiverState
    BY StateFunctions
  <1>3. CASE IsSender(p)
    <2>1. snd'[p] = [snd[p] EXCEPT !.cached = vec] /\ rcv'[p] = rcv[p]
      BY <1>2, <1>3 DEF SetCached
    <2>2. SenderView(p, own)'
      BY <1>1, <1>2, <1>3, <2>1
      DEF SenderView, MembersView, Recached, Holding, Own, SenderState
    <2> QED
      BY <1>1, <1>3, <2>1, <2>2
  <1>4. CASE ~IsSender(p)
    <2>1. rcv'[p] = [rcv[p] EXCEPT !.cached = vec] /\ snd'[p] = snd[p]
      BY <1>2, <1>4 DEF SetCached
    <2>2. ReceiverView(p, own)' /\ rcv'[p].cached = own.cached
      BY <1>1, <1>2, <1>4, <2>1
      DEF ReceiverView, MembersView, Recached, Holding, Own, ReceiverState
    <2> QED
      BY <1>1, <1>4, <2>1, <2>2
  <1> QED
    BY <1>3, <1>4

\* A call that returns elements, with what is left in the cache.
LEMMA ReturnCachedJoint ==
  ASSUME Inv, NEW p \in Parties, NEW h, Linked(h, script, channel),
         \A q \in Parties : View(q, Here(h, q)), NEW x, x = Here(h, p),
         pc[p] \in {"fetch", "copy"}, NEW vec, NEW elements,
         SetCached(p, vec), Return(p, TRUE, elements),
         UNCHANGED <<script, params, channel>>,
         Succ(x, script, NoMessage)
           = Ends(x, TRUE, elements, x.par, Recached(Own(x), vec))
  PROVE  JointInv'
  <1>1. Place(p, x) /\ ResultsView(p, x) /\ MembersView(p, x)
    BY ViewMembers DEF Expanding
  <1>2. x.pos \in {"fetch", "copy"}
    BY <1>1, PosAt
  <1>3. Kind(x) = "free" /\ Possible(x, script)
    BY <1>2 DEF Kind, Possible
  <1>4. PICK own, par : own = Recached(Own(x), vec) /\ par = x.par
    OBVIOUS
  <1>5. \/ x.sender = p /\ SenderView(p, own)' /\ rcv'[p] = rcv[p]
        \/ /\ x.sender = Peer(p) /\ snd'[p] = snd[p]
           /\ ReceiverView(p, own)' /\ rcv'[p].cached = own.cached
    BY <1>1, <1>4, RecachedView
  <1>6. Sizes(params'[p]) = par
    BY <1>1, <1>4 DEF Place
  <1>7. View(p, Ends(x, TRUE, elements, par, own))'
    BY <1>1, <1>5, <1>6, ReturnView
  <1>8. PICK y : y = Succ(x, script, NoMessage)
    OBVIOUS
  <1>9. View(p, y)'
    BY <1>4, <1>7, <1>8
  <1>10. Still(Peer(p))
    <2>1. /\ pc \in Counters /\ loc \in [Parties -> Locals]
          /\ snd \in [Parties -> SenderState] /\ rcv \in [Parties -> ReceiverState]
          /\ results \in [Parties -> Seq(Result)]
          /\ Peer(p) \in Parties /\ Peer(p) # p
      BY StateFunctions, PeerType
    <2>2. /\ pc'[Peer(p)] = pc[Peer(p)] /\ loc'[Peer(p)] = loc[Peer(p)]
          /\ results'[Peer(p)] = results[Peer(p)] /\ params'[Peer(p)] = params[Peer(p)]
      BY <2>1 DEF Return, Goto, Counters
    <2>3. snd'[Peer(p)] = snd[Peer(p)] /\ rcv'[Peer(p)] = rcv[Peer(p)]
      BY <2>1 DEF SetCached
    <2> QED
      BY <2>2, <2>3 DEF Still
  <1> QED
    BY <1>3, <1>8, <1>9, <1>10, FreeStep

\* Both ends return the tail of their caches.
LEMMA FetchCachedJoint ==
  ASSUME Inv, JointInv, NEW p \in Parties, FetchCached(p)
  PROVE  JointInv'
  <1>1. PICK h : /\ Linked(h, script, channel)
                 /\ \A q \in Parties : View(q, Here(h, q))
    BY DEF JointInv
  <1>2. PICK x, vec, elements :
          /\ x = Here(h, p) /\ vec = WithoutTail(Cached(p), loc[p].size)
          /\ elements = TailOf(Cached(p), loc[p].size)
    OBVIOUS
  <1>3. /\ pc[p] = "fetch" /\ Len(Cached(p)) >= loc[p].size
        /\ SetCached(p, vec) /\ Return(p, TRUE, elements)
        /\ UNCHANGED <<script, params, channel>>
    BY <1>2 DEF FetchCached
  <1>4. Place(p, x) /\ ResultsView(p, x) /\ MembersView(p, x)
    BY <1>1, <1>2, <1>3, ViewMembers DEF Expanding
  <1>5. /\ x.pos = "fetch" /\ Own(x).cached = Cached(p) /\ x.call.size = loc[p].size
    BY <1>3, <1>4, PosAt, OwnView
  <1>6. Succ(x, script, NoMessage)
          = Ends(x, TRUE, elements, x.par, Recached(Own(x), vec))
    BY <1>2, <1>3, <1>5 DEF Succ, PastFetch
  <1> QED
    BY <1>1, <1>2, <1>3, <1>6, ReturnCachedJoint

\* The lengths that RunX compares.
LEMMA CopyLengths ==
  ASSUME Inv, NEW p \in Parties, pc[p] = "copy"
  PROVE  /\ Len(Cached(p)) \in Nat /\ Len(loc[p].copied) \in Nat /\ loc[p].size \in Nat
         /\ Len(CopiedAndCached(p)) = Len(loc[p].copied) + Len(Cached(p))
  <1>1. /\ loc[p] \in Locals /\ Cached(p) \in Vector
    BY InvParts, PartyTypes, CachedType
  <1>2. loc[p].op = "Run" /\ loc[p].size \in Nat
    BY InvParts DEF PartyInv, Running
  <1> QED
    BY <1>1, <1>2, ConcatType DEF Locals, Vector, CopiedAndCached

\* Both ends fill up their results from the tail of their caches.
LEMMA CopyRemainingJoint ==
  ASSUME Inv, JointInv, NEW p \in Parties, CopyRemaining(p)
  PROVE  JointInv'
  <1>1. PICK h : /\ Linked(h, script, channel)
                 /\ \A q \in Parties : View(q, Here(h, q))
    BY DEF JointInv
  <1> DEFINE missing == loc[p].size - Len(loc[p].copied)
  <1>2. PICK x, vec, elements :
          /\ x = Here(h, p) /\ vec = WithoutTail(Cached(p), missing)
          /\ elements = loc[p].copied \o TailOf(Cached(p), missing)
    OBVIOUS
  <1>3. /\ pc[p] = "copy" /\ Len(Cached(p)) > missing
        /\ SetCached(p, vec) /\ Return(p, TRUE, elements)
        /\ UNCHANGED <<script, params, channel>>
    BY <1>2 DEF CopyRemaining
  <1>4. Place(p, x) /\ ResultsView(p, x) /\ MembersView(p, x)
    BY <1>1, <1>2, <1>3, ViewMembers DEF Expanding
  <1>5. /\ x.pos = "copy" /\ Own(x).cached = Cached(p) /\ x.call.size = loc[p].size
        /\ x.call.copied = loc[p].copied
    BY <1>3, <1>4, PosAt, OwnView
  <1>6. Succ(x, script, NoMessage)
          = Ends(x, TRUE, elements, x.par, Recached(Own(x), vec))
    BY <1>2, <1>3, <1>5 DEF Succ, PastCopy
  <1> QED
    BY <1>1, <1>2, <1>3, <1>6, ReturnCachedJoint

\* Both ends copy their whole caches, and return or expand.
LEMMA CopyWholeCacheJoint ==
  ASSUME Inv, JointInv, NEW p \in Parties, CopyWholeCache(p)
  PROVE  JointInv'
  <1>1. PICK h : /\ Linked(h, script, channel)
                 /\ \A q \in Parties : View(q, Here(h, q))
    BY DEF JointInv
  <1>2. PICK x, both : x = Here(h, p) /\ both = CopiedAndCached(p)
    OBVIOUS
  <1>3. /\ pc[p] = "copy" /\ Len(both) <= loc[p].size /\ SetCached(p, <<>>)
        /\ UNCHANGED <<script, params, channel>>
    BY <1>2 DEF CopyWholeCache
  <1>4. Place(p, x) /\ ResultsView(p, x) /\ MembersView(p, x)
    BY <1>1, <1>2, <1>3, ViewMembers DEF Expanding
  <1>5. /\ x.pos = "copy" /\ Own(x).cached = Cached(p) /\ x.call.size = loc[p].size
        /\ x.call.copied = loc[p].copied /\ x.call = Frame(loc[p])
        /\ x.sender \in Parties
        /\ loc[p].role = IF x.sender = p THEN "sender" ELSE "receiver"
    BY <1>3, <1>4, PosAt, OwnView DEF Place
  <1>6. /\ x.par = Sizes(params[p]) /\ x.par.batch_size = params[p].batch_size
        /\ x.par.vole_seed_size = params[p].vole_seed_size
        /\ x.par.mpfss_seed_size = params[p].mpfss_seed_size
    BY <1>4 DEF Place, Sizes
  <1>7. both = x.call.copied \o Own(x).cached
    BY <1>2, <1>5 DEF CopiedAndCached
  <1>8. ~(Len(Own(x).cached) > x.call.size - Len(x.call.copied))
    BY <1>2, <1>3, <1>5, CopyLengths
  <1>9. CASE Len(both) = loc[p].size /\ Return(p, TRUE, both)
    <2>1. Succ(x, script, NoMessage)
            = Ends(x, TRUE, both, x.par, Recached(Own(x), <<>>))
      BY <1>5, <1>7, <1>8, <1>9 DEF Succ, PastCopy
    <2>2. PICK vec : vec = <<>>
      OBVIOUS
    <2> QED
      BY <1>1, <1>2, <1>3, <1>9, <2>1, <2>2, ReturnCachedJoint
  <1>10. CASE /\ Len(both) < loc[p].size
              /\ loc' = [loc EXCEPT ![p].copied = both, ![p].final = TRUE,
                           ![p].output = params[p].batch_size + SeedsLength(p),
                           ![p].new_vole = params[p].vole_seed_size,
                           ![p].new_mpfss = params[p].mpfss_seed_size]
              /\ Goto(p, "expand") /\ UNCHANGED results
    <2>1. PICK own, vec : own = Recached(Own(x), vec) /\ vec = <<>>
      OBVIOUS
    <2>2. Len(both) # x.call.size
      BY <1>2, <1>3, <1>5, <1>10, CopyLengths
    <2>3. PICK y : y = Succ(x, script, NoMessage)
      OBVIOUS
    <2>4. /\ y.pos = "expand" /\ y.n = x.n /\ y.res = x.res /\ y.sender = x.sender
          /\ y.call = Planned(x.call, TRUE, x.par.batch_size + SeedSizes(x),
                              x.par.vole_seed_size, x.par.mpfss_seed_size, both)
          /\ y.par = x.par /\ y.stock = WithOwn(x, own)
      BY <1>5, <1>7, <1>8, <2>1, <2>2, <2>3 DEF Succ, PastCopy, JointState
    <2>5. /\ pc'[p] = "expand" /\ params'[p] = params[p] /\ results'[p] = results[p]
      BY <1>3, <1>10, StateFunctions DEF Goto, Counters
    <2>6. SeedSizes(x) = SeedsLength(p)
      BY <1>6 DEF SeedSizes, SeedsLength
    <2>7. Frame(loc'[p]) = y.call /\ loc'[p].role = loc[p].role
      <3>1. loc \in [Parties -> Locals] /\ loc[p] \in Locals
        BY StateFunctions
      <3> QED
        BY <1>5, <1>6, <1>10, <2>4, <2>6, <3>1 DEF Frame, Planned, Locals
    <2>8. Place(p, y)'
      BY <1>4, <1>5, <2>4, <2>5, <2>7 DEF Place, PcAt
    <2>9. ResultsView(p, y)'
      BY <1>4, <2>4, <2>5 DEF ResultsView
    <2>10. MembersView(p, y)'
      <3>1. \/ x.sender = p /\ SenderView(p, own)' /\ rcv'[p] = rcv[p]
            \/ /\ x.sender = Peer(p) /\ snd'[p] = snd[p]
               /\ ReceiverView(p, own)' /\ rcv'[p].cached = own.cached
        BY <1>3, <1>4, <2>1, RecachedView
      <3> QED
        BY <1>4, <2>4, <3>1, MembersOwn
    <2>11. View(p, y)'
      BY <2>5, <2>8, <2>9, <2>10, MembersWhole DEF Expanding
    <2>12. Still(Peer(p))
      BY <1>3, <1>10, PeerType, StateFunctions DEF Still, Goto, Counters, SetCached
    <2>13. Kind(x) = "free" /\ Possible(x, script)
      BY <1>5 DEF Kind, Possible
    <2> QED
      BY <1>1, <1>2, <1>3, <2>3, <2>11, <2>12, <2>13, FreeStep
  <1> QED
    BY <1>2, <1>9, <1>10 DEF CopyWholeCache

-----------------------------------------------------------------------------
(* The invariant.                                                          *)

\* Before the first call.
LEMMA InitJoint == Init => JointInv
  <1> SUFFICES ASSUME Init PROVE JointInv
    OBVIOUS
  <1> DEFINE none == Holding(<<>>, <<>>, <<>>, FALSE, 0, 0)
             x == JointState("idle", 0, <<>>, Lo, Frame(NoCall), Sizes(Construct),
                             [d \in Parties |-> none], 0)
             h == [state |-> [j \in Nat |-> x], msg |-> [j \in Nat |-> NoMessage],
                   sent |-> [j \in Nat |-> 0], last |-> 0,
                   at |-> [q \in Parties |-> 0]]
  <1>1. /\ x.pos = "idle" /\ x.n = 0 /\ x.call = Frame(NoCall)
        /\ x.par = Sizes(Construct)
        /\ \A d \in Parties : x.stock[d] = none
    BY DEF JointState
  <1>2. /\ none.cached = <<>> /\ none.vole_seed = <<>> /\ none.mpfss_seed = <<>>
        /\ none.delta = 0 /\ none.mpfss_delta = 0
        /\ none.done = NoSender.done /\ none.done = NoReceiver.done
        /\ none.done \in BOOLEAN
    BY DEF Holding, NoSender, NoReceiver
  <1> HIDE DEF x, none
  <1>3. Good(x, script)
    <2>1. script = <<>> /\ Len(script) = 0
      BY DEF Init
    <2>2. StockUnder(x)
      <3>1. ASSUME NEW d \in Parties
            PROVE  LET o == x.stock[d]
                   IN  /\ o.delta \in Nat /\ o.done \in BOOLEAN
                       /\ Under(o.vole_seed, o.mpfss_delta)
                       /\ Under(o.mpfss_seed, o.mpfss_delta)
                       /\ Under(o.cached, o.delta) /\ o.mpfss_delta = o.delta
        BY <1>1, <1>2, UnderEmpty
      <3> QED
        BY <3>1 DEF StockUnder
    <2>3. InCall(x, script) /\ ResultsGiven(x, script) /\ DeltaKept(x)
      BY <1>1, <2>1 DEF InCall, ResultsGiven, DeltaKept
    <2> QED
      BY <2>2, <2>3 DEF Good
  <1>4. /\ h.last = 0 /\ \A j \in 0 .. 0 : h.state[j] = x /\ h.sent[j] = 0
        /\ \A q \in Parties : h.at[q] = 0 /\ Here(h, q) = x
    BY DEF Here
  <1> HIDE DEF h
  <1>5. Trajectory(h, script)
    <2>1. Continues(x, x)
      BY <1>1 DEF Continues
    <2> QED
      BY <1>3, <1>4, <2>1 DEF Trajectory
  <1>6. Linked(h, script, channel)
    <2>1. \A q \in Parties : h.at[q] \in 0 .. h.last /\ channel[q] \in Seq(Message)
      BY <1>4 DEF Init
    <2>2. /\ Lo \in Parties /\ channel[Lo] = <<>> /\ channel[Peer(Lo)] = <<>>
          /\ Peer(Lo) \in Parties
      BY PeerType DEF Init, Parties
    <2>3. Leads(h, Lo, channel[Peer(Lo)])
      BY <1>4, <2>2 DEF Leads
    <2> QED
      BY <1>5, <2>1, <2>2, <2>3 DEF Linked
  <1>7. ASSUME NEW p \in Parties PROVE View(p, x)
    <2>1. /\ pc[p] = "idle" /\ loc[p] = NoCall /\ params[p] = Construct
          /\ snd[p] = NoSender /\ rcv[p] = NoReceiver /\ results[p] = <<>>
      BY <1>7 DEF Init
    <2>2. Place(p, x)
      BY <1>1, <2>1 DEF Place, PcAt
    <2>3. ResultsView(p, x)
      BY <1>1, <2>1 DEF ResultsView
    <2>4. MembersView(p, x)
      <3>1. /\ x.stock[p] = none /\ x.stock[Peer(p)] = none
        BY <1>1, <1>7, PeerType
      <3>2. SenderView(p, none)
        BY <1>2, <2>1 DEF SenderView, NoSender
      <3>3. ReceiverView(p, none) /\ rcv[p].cached = none.cached
        BY <1>2, <2>1 DEF ReceiverView, NoReceiver
      <3> QED
        BY <3>1, <3>2, <3>3 DEF MembersView
    <2> QED
      BY <2>1, <2>2, <2>3, <2>4 DEF View, CacheView, Expanding, MembersView
  <1> QED
    BY <1>4, <1>6, <1>7 DEF JointInv

\* Every step within a call keeps the agreement.
LEMMA StepJoint ==
  ASSUME Inv, JointInv, NEW p \in Parties, Step(p)
  PROVE  JointInv'
  BY RejectBatchSizeJoint, PrecomputeSenderJoint, PrecomputeReceiverJoint,
     GilboaSenderJoint, GilboaReceiverJoint, BootstrapJoint, ChooseBatchSizeJoint,
     SendSeedJoint, ReceiveSeedJoint, ExpandWrongDimensionsJoint,
     ExpandSenderFailsJoint, ExpandSenderJoint, ExpandReceiverJoint,
     ExpandReceiverFailsJoint, ExpandReceiverDoneJoint, ExpandSenderDoneJoint,
     UsePrecomputedJoint, FetchCachedJoint, FetchOutOfRangeJoint,
     CopyWholeCacheJoint, CopyRemainingJoint
  DEF Step

\* Each end takes its steps along the same sequence of joint states; an end that
\* repeated a failed call would leave it.
LEMMA NextJoint ==
  ASSUME Retries = {}
  PROVE  Inv /\ JointInv /\ [Next]_vars => JointInv'
  <1> SUFFICES ASSUME Inv, JointInv, [Next]_vars PROVE JointInv'
    OBVIOUS
  <1>1. ASSUME NEW p \in Parties, NEW c \in Call, Invoke(p, c) PROVE JointInv'
    BY <1>1, InvokeJoint
  <1>2. ASSUME NEW p \in Parties, Retry(p) PROVE FALSE
    BY <1>2 DEF Retry
  <1>3. ASSUME NEW p \in Parties, Step(p) PROVE JointInv'
    BY <1>3, StepJoint
  <1>4. CASE UNCHANGED vars
    <2>1. PICK h : /\ Linked(h, script, channel)
                   /\ \A q \in Parties : View(q, Here(h, q))
      BY DEF JointInv
    <2>2. ASSUME NEW q \in Parties PROVE View(q, Here(h, q))'
      <3>1. Still(q)
        BY <1>4 DEF Still, vars, app, objects
      <3> QED
        BY <2>1, <2>2, <3>1, StillView
    <2>3. Linked(h, script', channel')
      BY <1>4, <2>1 DEF vars, app
    <2> QED
      BY <2>2, <2>3 DEF JointInv
  <1> QED
    BY <1>1, <1>2, <1>3, <1>4 DEF Next

\* At every time the two ends are at joint states of one sequence, and the messages
\* on their way are those between them.
THEOREM Agreement ==
  ASSUME Retries = {}
  PROVE  Spec => []JointInv
  BY Invariance, InitJoint, NextJoint, PTL DEF Spec

-----------------------------------------------------------------------------
(* What follows for the messages.                                          *)

\* What an end waits for is the message of the step from its joint state.
LEMMA AwaitedMessage ==
  ASSUME NEW p \in Parties, NEW x, Place(p, x), NEW kind \in Awaited(p)
  PROVE  Kind(x) = kind /\ Kind(x) # "free" /\ Author(x) = Peer(p)
  <1>1. Peer(p) \in Parties /\ Peer(p) # p
    BY PeerType
  <1>2. CASE pc[p] = "gilboa"
    <2>1. /\ x.pos = IF IsSender(p) THEN "gilboa0" ELSE "gilboa1"
          /\ IF IsSender(p) THEN x.sender = p ELSE x.sender = Peer(p)
      BY <1>2, PosAt
    <2>2. kind = IF IsSender(p) THEN "choices" ELSE "w"
      BY <1>2 DEF Awaited
    <2> QED
      BY <2>1, <2>2 DEF Kind, Author
  <1>3. CASE pc[p] = "seed"
    <2>1. x.pos = "seed" /\ kind = "seed" /\ p = Hi
      BY <1>3, PosAt DEF Awaited
    <2>2. Peer(p) = Lo
      BY <2>1, PartiesAssumption DEF Peer
    <2> QED
      BY <2>1, <2>2 DEF Kind, Author
  <1>4. CASE pc[p] \in {"masked", "sums"}
    <2>1. kind = pc[p]
      BY <1>4 DEF Awaited
    <2>2. /\ pc[p] = "masked" => x.pos = "wait0" /\ x.sender = Peer(p)
          /\ pc[p] = "sums" => x.pos = "wait1" /\ x.sender = p
      BY PosAt
    <2> QED
      BY <1>4, <2>1, <2>2 DEF Kind, Author
  <1> QED
    BY <1>2, <1>3, <1>4 DEF Awaited

\* The message that a joint step sends is of the kind that the other end awaits.
LEMMA JointOrder == Inv /\ JointInv => ProtocolOrder
  <1> SUFFICES ASSUME Inv, JointInv, NEW p \in Parties, channel[p] # <<>>,
                      NEW kind \in Awaited(p)
               PROVE  Head(channel[p]).kind = kind
    BY DEF ProtocolOrder
  <1>1. PICK h : /\ Linked(h, script, channel)
                 /\ \A q \in Parties : View(q, Here(h, q))
    BY DEF JointInv
  <1>2. Kind(Here(h, p)) = kind /\ Kind(Here(h, p)) # "free" /\ Author(Here(h, p)) = Peer(p)
    BY <1>1, AwaitedMessage DEF View
  <1>3. Proper(Here(h, p), Head(channel[p]))
    BY <1>1, <1>2, HeadProper
  <1> QED
    BY <1>2, <1>3 DEF Proper

\* An end that waits is ahead, or level where it is not the author: the other end can move.
LEMMA JointProgress == Inv /\ JointInv => NoStall
  <1> SUFFICES ASSUME Inv, JointInv, NEW p \in Parties, Waits(p), pc[Peer(p)] # "failed"
               PROVE  CanMove(Peer(p))
    BY DEF NoStall
  <1>1. PICK h : /\ Linked(h, script, channel)
                 /\ \A q \in Parties : View(q, Here(h, q))
    BY DEF JointInv
  <1>2. PICK x, z, q : x = Here(h, p) /\ z = Here(h, q) /\ q = Peer(p)
    OBVIOUS
  <1>3. /\ q \in Parties /\ q # p /\ Peer(q) = p /\ Peer(p) = q
        /\ pc[q] \in Working \cup {"idle"} /\ script \in Seq(Call)
    BY <1>2, PeerType, StateFunctions DEF Peer, Parties, Counters
  <1>4. Place(p, x) /\ Place(q, z) /\ ResultsView(q, z) /\ channel[p] = <<>>
    BY <1>1, <1>2, <1>3 DEF View, Waits
  <1>5. Kind(x) # "free" /\ Author(x) = q
    <2>1. PICK kind : kind \in Awaited(p)
      BY DEF Waits
    <2> QED
      BY <1>3, <1>4, <2>1, AwaitedMessage
  <1>6. \/ z = x
        \/ Possible(z, script) /\ (Kind(z) # "free" => channel[q] # <<>>)
    BY <1>1, <1>2, <1>3, <1>4, <1>5, LinkedWaits
  <1>7. CASE pc[q] = "idle"
    <2>1. z.pos = "idle" /\ Kind(z) = "free"
      BY <1>3, <1>4, <1>7, PosAt DEF Kind
    <2>2. z.n + 1 \in 1 .. Len(script)
      BY <1>5, <1>6, <2>1 DEF Possible
    <2> QED
      BY <1>2, <1>4, <1>7, <2>2 DEF CanMove, NextCall, ResultsView
  <1>8. CASE pc[q] # "idle"
    <2>1. ASSUME Waits(q) PROVE FALSE
      <3>1. PICK kind : kind \in Awaited(q)
        BY <2>1 DEF Waits
      <3>2. Kind(z) # "free" /\ Author(z) = p
        BY <1>3, <1>4, <3>1, AwaitedMessage
      <3> QED
        BY <1>3, <1>5, <1>6, <2>1, <3>2 DEF Waits
    <2> QED
      BY <1>2, <1>3, <1>8, <2>1 DEF CanMove
  <1> QED
    BY <1>7, <1>8

\* Every receive gets a message of the kind it is written for, although recv does
\* not look: with any parameters, calls in changing roles, and failures.
THEOREM Ordered ==
  ASSUME Retries = {}
  PROVE  Spec => []ProtocolOrder
  BY Invariance, Agreement, JointOrder, PTL

\* An end that waits has a peer that can move, or one that has failed.
THEOREM Progress ==
  ASSUME Retries = {}
  PROVE  Spec => []NoStall
  BY Invariance, Agreement, JointProgress, PTL

-----------------------------------------------------------------------------
(* What follows for the results.                                           *)

\* The k-th result is one that both ends see, in the two roles.
CommonResult(r, k) ==
  /\ r.op = script[k].op /\ r.sender = script[k].sender
  /\ r.sender \in Parties /\ r.ok \in BOOLEAN /\ Under(r.elements, r.delta)
  /\ IF r.ok /\ r.op = "Run" THEN Len(r.elements) = script[k].size
                             ELSE r.elements = <<>>

\* The results of an end are those of its joint state.
LEMMA ViewedResult ==
  ASSUME Inv, NEW p \in Parties, NEW x, View(p, x), Good(x, script),
         NEW k \in 1 .. Len(results[p])
  PROVE  /\ x.n = Len(results[p]) /\ x.n \in Nat
         /\ results[p][k] = Seen(x.res[k], p) /\ CommonResult(x.res[k], k)
  <1>1. /\ x.n = Len(results[p]) /\ results[p][k] = Seen(x.res[k], p)
    BY DEF View, ResultsView
  <1>2. x.n \in 0 .. Len(script) /\ script \in Seq(Call)
    BY StateFunctions DEF Good, ResultsGiven
  <1>3. k \in 1 .. Len(script) /\ script[k] \in Call
    BY <1>1, <1>2
  <1>4. script[k].sender \in Parties
    BY <1>3 DEF Call
  <1> QED
    BY <1>1, <1>2, <1>4 DEF Good, ResultsGiven, CommonResult

\* The end that is behind has returned the same results as the one ahead.
LEMMA SharedResult ==
  ASSUME Inv, JointInv, NEW p \in Parties, NEW k \in 1 .. Len(results[p]),
         k \in 1 .. Len(results[Peer(p)])
  PROVE  \E r : /\ CommonResult(r, k) /\ results[p][k] = Seen(r, p)
                /\ results[Peer(p)][k] = Seen(r, Peer(p))
  <1>1. PICK h : /\ Linked(h, script, channel)
                 /\ \A q \in Parties : View(q, Here(h, q))
    BY DEF JointInv
  <1>2. PICK q, x, z : q = Peer(p) /\ x = Here(h, p) /\ z = Here(h, q)
    OBVIOUS
  <1>3. q \in Parties /\ View(p, x) /\ View(q, z)
    BY <1>1, <1>2, PeerType
  <1>4. Good(x, script) /\ Good(z, script)
    BY <1>1, <1>2, <1>3, LinkedGood
  <1>5. /\ x.n = Len(results[p]) /\ x.n \in Nat /\ results[p][k] = Seen(x.res[k], p)
        /\ CommonResult(x.res[k], k)
    BY <1>3, <1>4, ViewedResult
  <1>6. /\ z.n = Len(results[q]) /\ z.n \in Nat /\ results[q][k] = Seen(z.res[k], q)
    BY <1>2, <1>3, <1>4, ViewedResult
  <1>7. x.res[k] = z.res[k]
    <2>1. Continues(x, z) \/ Continues(z, x)
      BY <1>1, <1>2, LinkedResults
    <2>2. k \in 1 .. x.n /\ k \in 1 .. z.n
      BY <1>2, <1>5, <1>6
    <2> QED
      BY <2>1, <2>2 DEF Continues
  <1> QED
    BY <1>2, <1>5, <1>6, <1>7

\* The roles that the two ends see are opposite.
LEMMA SeenRoles ==
  ASSUME NEW r, NEW k, CommonResult(r, k), NEW p \in Parties
  PROVE  /\ Seen(r, p).op = r.op /\ Seen(r, p).ok = r.ok
         /\ Seen(r, p).elements = r.elements
         /\ Seen(r, p).role = IF r.sender = p THEN "sender" ELSE "receiver"
         /\ r.sender # p => Seen(r, p).delta = r.delta /\ r.sender = Peer(p)
         /\ \A e \in ToSet(r.elements) : e[1] = r.delta /\ e[2] # 0
  BY DEF Seen, CommonResult, Under, ToSet, Parties, Peer

\* Results of one joint state are correlated.
LEMMA JointCorrelated == Inv /\ JointInv => Correlated
  <1> SUFFICES ASSUME Inv, JointInv,
                      NEW k \in 1 .. Min({Len(results[Lo]), Len(results[Hi])}),
                      results[Lo][k].ok, results[Hi][k].ok, results[Lo][k].op = "Run"
               PROVE  LET r == results[Lo][k]
                          s == results[Hi][k]
                          delta == IF r.role = "receiver" THEN r.delta ELSE s.delta
                      IN  /\ Len(r.elements) = script[k].size
                          /\ r.elements = s.elements
                          /\ \A e \in ToSet(r.elements) : e[1] = delta
    BY DEF Correlated
  <1>1. /\ Lo \in Parties /\ Hi \in Parties /\ Lo # Hi
        /\ Peer(Lo) = Hi /\ Peer(Hi) = Lo
    BY PartiesAssumption DEF Peer, Parties
  <1>2. k \in 1 .. Len(results[Lo]) /\ k \in 1 .. Len(results[Hi])
    <2>1. PICK a, b : a = Len(results[Lo]) /\ b = Len(results[Hi])
      OBVIOUS
    <2>2. a \in Nat /\ b \in Nat
      BY <1>1, <2>1, EndTypes, LenProperties
    <2>3. /\ \E i \in {a, b} : \A j \in {a, b} : i =< j
      BY <2>2
    <2>4. Min({a, b}) \in {a, b} /\ Min({a, b}) =< a /\ Min({a, b}) =< b
      BY <2>3 DEF Min
    <2> QED
      BY <2>1, <2>2, <2>4
  <1>3. PICK r : /\ CommonResult(r, k) /\ results[Lo][k] = Seen(r, Lo)
                 /\ results[Hi][k] = Seen(r, Hi)
    BY <1>1, <1>2, SharedResult
  <1>4. /\ Seen(r, Lo).op = r.op /\ Seen(r, Lo).ok = r.ok
        /\ Seen(r, Lo).elements = r.elements /\ Seen(r, Hi).elements = r.elements
        /\ Seen(r, Lo).role = IF r.sender = Lo THEN "sender" ELSE "receiver"
        /\ r.sender # Lo => Seen(r, Lo).delta = r.delta
        /\ r.sender # Hi => Seen(r, Hi).delta = r.delta
        /\ \A e \in ToSet(r.elements) : e[1] = r.delta
    BY <1>1, <1>3, SeenRoles
  <1>5. Len(r.elements) = script[k].size
    BY <1>3, <1>4 DEF CommonResult
  <1> QED
    BY <1>1, <1>3, <1>4, <1>5

\* The Sender's u and v and the Receiver's w are correlated under its delta, and of
\* the length asked for: in every call that succeeds at both ends.
THEOREM Correct ==
  ASSUME Retries = {}
  PROVE  Spec => []Correlated
  BY Invariance, Agreement, JointCorrelated, PTL

-----------------------------------------------------------------------------
(* The refinement of the abstract source.                                  *)

\* A step leaves the results alone, or a call of one end returns.
Returning(p, r) == results' = [results EXCEPT ![p] = Append(@, r)]

\* A step of a call changes no result but by returning from it ...
LEMMA StepReturns ==
  ASSUME Inv, NEW p \in Parties, Step(p)
  PROVE  results' = results \/ \E r : Returning(p, r)
  <1>1. ASSUME NEW ok, NEW elements, Return(p, ok, elements)
        PROVE  \E r : Returning(p, r)
    BY <1>1 DEF Return, Returning
  <1>2. ASSUME ReturnError(p) PROVE \E r : Returning(p, r)
    <2>1. PICK ok, elements : ok = FALSE /\ elements = <<>>
      OBVIOUS
    <2> QED
      BY <1>1, <1>2, <2>1 DEF ReturnError
  <1>3. ASSUME NEW id, FillGenerator(p, id)
        PROVE  results' = results \/ \E r : Returning(p, r)
    BY <1>1, <1>2, <1>3 DEF FillGenerator, GeneratorReady
  <1>4. CASE RejectBatchSize(p) \/ ExpandWrongDimensions(p)
    BY <1>2, <1>4 DEF RejectBatchSize, ExpandWrongDimensions
  <1>5. CASE SendSeed(p) \/ ReceiveSeed(p)
    BY <1>3, <1>5 DEF SendSeed, ReceiveSeed
  <1>6. CASE FetchCached(p) \/ CopyRemaining(p) \/ CopyWholeCache(p)
    BY <1>1, <1>6 DEF FetchCached, CopyRemaining, CopyWholeCache
  <1>7. CASE \/ PrecomputeSender(p) \/ PrecomputeReceiver(p)
             \/ GilboaSender(p) \/ GilboaReceiver(p)
             \/ Bootstrap(p) \/ ChooseBatchSize(p)
             \/ ExpandSenderFails(p) \/ ExpandSender(p) \/ ExpandReceiver(p)
             \/ ExpandReceiverFails(p) \/ ExpandReceiverDone(p) \/ ExpandSenderDone(p)
             \/ UsePrecomputed(p) \/ FetchOutOfRange(p)
    BY <1>7
    DEF PrecomputeSender, PrecomputeReceiver, GilboaSender, GilboaReceiver, Bootstrap,
        ChooseBatchSize, ExpandSenderFails, ExpandSender, ExpandReceiver,
        ExpandReceiverFails, ExpandReceiverDone, ExpandSenderDone, UsePrecomputed,
        FetchOutOfRange, app
  <1> QED
    BY <1>4, <1>5, <1>6, <1>7 DEF Step

\* ... and nothing else does.
LEMMA NextReturns ==
  Inv /\ [Next]_vars =>
    results' = results \/ \E p \in Parties : \E r : Returning(p, r)
  <1> SUFFICES ASSUME Inv, [Next]_vars
               PROVE  results' = results \/ \E p \in Parties : \E r : Returning(p, r)
    OBVIOUS
  <1>1. ASSUME NEW p \in Parties, NEW c \in Call, Invoke(p, c) PROVE results' = results
    BY <1>1 DEF Invoke
  <1>2. ASSUME NEW p \in Parties, Retry(p) PROVE results' = results
    BY <1>2 DEF Retry, app
  <1>3. ASSUME NEW p \in Parties, Step(p)
        PROVE  results' = results \/ \E r : Returning(p, r)
    BY <1>3, StepReturns
  <1>4. UNCHANGED vars => results' = results
    BY DEF vars, app
  <1> QED
    BY <1>1, <1>2, <1>3, <1>4 DEF Next

\* The Receiver's delta is that of its elements, and stays the same between two
\* precomputations.
LEMMA ViewedDelta ==
  ASSUME Inv, JointInv, NEW p \in Parties, NEW k \in 1 .. Len(results[p]),
         results[p][k].role = "receiver", results[p][k].op = "Run", results[p][k].ok
  PROVE  /\ \A e \in ToSet(results[p][k].elements) : e[1] = results[p][k].delta
         /\ \A j \in 1 .. k :
              /\ results[p][j].role = "receiver" /\ results[p][j].op = "Run"
              /\ results[p][j].ok
              /\ \A i \in j .. k :
                   results[p][i].role = "receiver" => results[p][i].op = "Run"
              => results[p][j].delta = results[p][k].delta
  <1>1. PICK h : /\ Linked(h, script, channel)
                 /\ \A q \in Parties : View(q, Here(h, q))
    BY DEF JointInv
  <1>2. PICK x : x = Here(h, p)
    OBVIOUS
  <1>3. View(p, x) /\ Good(x, script)
    BY <1>1, <1>2, LinkedGood
  <1>4. ASSUME NEW i \in 1 .. Len(results[p])
        PROVE  /\ results[p][i].op = x.res[i].op /\ results[p][i].ok = x.res[i].ok
               /\ results[p][i].role = "receiver" <=> x.res[i].sender = Peer(p)
               /\ results[p][i].role = "receiver" => results[p][i].delta = x.res[i].delta
               /\ \A e \in ToSet(results[p][i].elements) : e[1] = x.res[i].delta
    <2>1. results[p][i] = Seen(x.res[i], p) /\ CommonResult(x.res[i], i)
      BY <1>3, ViewedResult
    <2>2. PICK r : r = x.res[i]
      OBVIOUS
    <2>3. /\ Seen(r, p).op = r.op /\ Seen(r, p).ok = r.ok
          /\ Seen(r, p).elements = r.elements
          /\ Seen(r, p).role = IF r.sender = p THEN "sender" ELSE "receiver"
          /\ r.sender # p => Seen(r, p).delta = r.delta /\ r.sender = Peer(p)
          /\ \A e \in ToSet(r.elements) : e[1] = r.delta /\ e[2] # 0
      BY <2>1, <2>2, SeenRoles
    <2>4. Peer(p) # p
      BY PeerType
    <2> QED
      BY <2>1, <2>2, <2>3, <2>4
  <1>5. x.n = Len(results[p]) /\ x.n \in Nat /\ DeltaKept(x)
    BY <1>3, ViewedResult DEF Good
  <1>6. ASSUME NEW j \in 1 .. k, results[p][j].role = "receiver",
               results[p][j].op = "Run", results[p][j].ok,
               \A i \in j .. k :
                 results[p][i].role = "receiver" => results[p][i].op = "Run"
        PROVE  results[p][j].delta = results[p][k].delta
    <2>1. /\ j \in 1 .. Len(results[p]) /\ k \in j .. x.n /\ j \in 1 .. x.n
          /\ \A i \in j .. k : i \in 1 .. Len(results[p])
      BY <1>5
    <2>2. /\ x.res[j].sender = Peer(p) /\ x.res[k].sender = Peer(p)
          /\ GaveElements(x.res[j]) /\ GaveElements(x.res[k])
      BY <1>4, <1>6, <2>1 DEF GaveElements
    <2>3. SameDelta(x, j, k)
      BY <1>4, <1>6, <2>1, <2>2 DEF SameDelta
    <2>4. x.res[k].delta = x.res[j].delta
      BY <1>5, <2>1, <2>2, <2>3 DEF DeltaKept
    <2> QED
      BY <1>4, <1>6, <2>1, <2>4
  <1> QED
    BY <1>4, <1>6

\* What an end has obtained is all different.
LEMMA ResultElements ==
  ASSUME Inv, JointInv, NoReuse, NEW p \in Parties
  PROVE  /\ Len(results[p]) \in Nat /\ DOMAIN results[p] = 1 .. Len(results[p])
         /\ \A k \in 1 .. Len(results[p]) :
              /\ IsInjective(results[p][k].elements)
              /\ \A j \in 1 .. Len(results[p]) \ {k} :
                   ToSet(results[p][k].elements) \cap ToSet(results[p][j].elements) = {}
  <1> DEFINE n == Len(results[p])
             H == Holdings(p)
  <1>1. /\ n \in Nat /\ DOMAIN H = 1 .. n + 7 /\ DOMAIN results[p] = 1 .. n
        /\ \A i \in 1 .. n : H[i] = results[p][i].elements
    BY EndTypes, HoldingsByPosition
  <1>2. /\ \A i \in DOMAIN H : NoRepeats(H[i])
        /\ \A i \in DOMAIN H : \A j \in DOMAIN H \ {i} : Shared(H[i]) \cap Shared(H[j]) = {}
    BY DEF NoReuse
  <1> HIDE DEF H
  <1>3. ASSUME NEW i \in 1 .. n
        PROVE  \A e \in ToSet(results[p][i].elements) : e[2] # 0
    <2>1. PICK h : /\ Linked(h, script, channel)
                   /\ \A q \in Parties : View(q, Here(h, q))
      BY DEF JointInv
    <2>2. PICK x : x = Here(h, p)
      OBVIOUS
    <2>3. /\ results[p][i] = Seen(x.res[i], p) /\ CommonResult(x.res[i], i)
      BY <2>1, <2>2, LinkedGood, ViewedResult
    <2>4. PICK r : r = x.res[i]
      OBVIOUS
    <2>5. Seen(r, p).elements = r.elements /\ \A e \in ToSet(r.elements) : e[2] # 0
      BY <2>3, <2>4, SeenRoles
    <2> QED
      BY <2>3, <2>4, <2>5
  <1>4. ASSUME NEW i \in 1 .. n PROVE Shared(H[i]) = ToSet(results[p][i].elements)
    BY <1>1, <1>3 DEF Shared
  <1>5. \A i \in 1 .. n : i \in DOMAIN H
    BY <1>1
  <1>6. ASSUME NEW i \in 1 .. n PROVE IsInjective(results[p][i].elements)
    <2>1. NoRepeats(results[p][i].elements)
      BY <1>1, <1>2, <1>5
    <2> QED
      BY <1>3, <2>1 DEF NoRepeats, IsInjective, ToSet
  <1>7. ASSUME NEW i \in 1 .. n, NEW j \in 1 .. n \ {i}
        PROVE  ToSet(results[p][i].elements) \cap ToSet(results[p][j].elements) = {}
    BY <1>2, <1>4, <1>5
  <1> QED
    BY <1>1, <1>6, <1>7

\* The last result of an end is new, or is that of the other end in the other role.
Latest(p, k) ==
  /\ Len(results[Peer(p)]) \in Nat
  /\ \A q \in Parties : DOMAIN results[q] = 1 .. Len(results[q])
  /\ k =< Len(results[Peer(p)]) =>
       Ideal!Agrees(results[p][k], results[Peer(p)][k])
  /\ Len(results[Peer(p)]) < k =>
       /\ results[p][k].ok \/ results[p][k].elements = <<>>
       /\ IsInjective(results[p][k].elements)
       /\ \A q \in Parties : \A j \in DOMAIN results[q] :
            q # p \/ j # k =>
              ToSet(results[p][k].elements) \cap ToSet(results[q][j].elements) = {}

\* The Receiver's delta is that of its elements, and stays the same between two
\* precomputations.
DeltaStays(p, k) ==
  results[p][k].role = "receiver" /\ results[p][k].op = "Run" /\ results[p][k].ok =>
    /\ \A e \in ToSet(results[p][k].elements) : e[1] = results[p][k].delta
    /\ \A j \in 1 .. k :
         /\ results[p][j].role = "receiver" /\ results[p][j].op = "Run"
         /\ results[p][j].ok
         /\ \A i \in j .. k :
              results[p][i].role = "receiver" => results[p][i].op = "Run"
         => results[p][j].delta = results[p][k].delta

\* What the source asks of the last result of an end.
LatestIdeal ==
  \A p \in Parties, k \in Nat \ {0} :
    k = Len(results[p]) => Latest(p, k) /\ DeltaStays(p, k)

\* The latest result of an end is what the source may return.
LEMMA LatestResult ==
  ASSUME Inv, JointInv, NoReuse, NEW p \in Parties, NEW k, k = Len(results[p]), k # 0
  PROVE  Latest(p, k)
  <1>1. PICK q : q = Peer(p)
    OBVIOUS
  <1>2. q \in Parties /\ q # p /\ \A s \in Parties : s = p \/ s = q
    BY <1>1, PeerType DEF Peer, Parties
  <1>3. /\ k \in Nat /\ Len(results[q]) \in Nat /\ k \in 1 .. Len(results[p])
        /\ DOMAIN results[p] = 1 .. k /\ DOMAIN results[q] = 1 .. Len(results[q])
    <2>1. /\ Len(results[p]) \in Nat /\ DOMAIN results[p] = 1 .. Len(results[p])
          /\ Len(results[q]) \in Nat /\ DOMAIN results[q] = 1 .. Len(results[q])
      BY <1>2, ResultElements
    <2> QED
      BY <2>1
  <1>4. ASSUME NEW j \in 1 .. k, j \in 1 .. Len(results[q])
        PROVE  /\ results[p][j].op = results[q][j].op
               /\ results[p][j].role # results[q][j].role
               /\ results[p][j].ok = results[q][j].ok
               /\ results[p][j].elements = results[q][j].elements
    <2>1. j \in 1 .. Len(results[p])
      BY <1>3
    <2>2. PICK r : /\ CommonResult(r, j) /\ results[p][j] = Seen(r, p)
                   /\ results[q][j] = Seen(r, q)
      BY <1>1, <1>4, <2>1, SharedResult
    <2>3. /\ Seen(r, p).op = r.op /\ Seen(r, p).ok = r.ok
          /\ Seen(r, p).elements = r.elements
          /\ Seen(r, p).role = IF r.sender = p THEN "sender" ELSE "receiver"
          /\ r.sender # p => r.sender = q
      BY <1>1, <2>2, SeenRoles
    <2>4. /\ Seen(r, q).op = r.op /\ Seen(r, q).ok = r.ok
          /\ Seen(r, q).elements = r.elements
          /\ Seen(r, q).role = IF r.sender = q THEN "sender" ELSE "receiver"
      BY <1>2, <2>2, SeenRoles
    <2> QED
      BY <1>2, <2>2, <2>3, <2>4
  <1>5. ASSUME k =< Len(results[q]) PROVE Ideal!Agrees(results[p][k], results[q][k])
    <2>1. k \in 1 .. k /\ k \in 1 .. Len(results[q])
      BY <1>3, <1>5
    <2> QED
      BY <1>4, <2>1 DEF Ideal!Agrees
  <1>6. results[p][k].ok \/ results[p][k].elements = <<>>
    <2>1. PICK h : /\ Linked(h, script, channel)
                   /\ \A s \in Parties : View(s, Here(h, s))
      BY DEF JointInv
    <2>2. PICK x : x = Here(h, p)
      OBVIOUS
    <2>3. /\ results[p][k] = Seen(x.res[k], p) /\ CommonResult(x.res[k], k)
      BY <1>3, <2>1, <2>2, LinkedGood, ViewedResult
    <2>4. PICK r : r = x.res[k]
      OBVIOUS
    <2>5. Seen(r, p).elements = r.elements /\ Seen(r, p).ok = r.ok
      BY <2>3, <2>4, SeenRoles
    <2> QED
      BY <2>3, <2>4, <2>5 DEF CommonResult
  <1>7. /\ IsInjective(results[p][k].elements)
        /\ \A j \in 1 .. k : j # k =>
             ToSet(results[p][k].elements) \cap ToSet(results[p][j].elements) = {}
    BY <1>3, ResultElements
  <1>8. ASSUME Len(results[q]) < k, NEW s \in Parties, NEW j \in DOMAIN results[s],
               s # p \/ j # k
        PROVE  ToSet(results[p][k].elements) \cap ToSet(results[s][j].elements) = {}
    <2>1. CASE s = p
      BY <1>3, <1>7, <1>8, <2>1
    <2>2. CASE s = q
      <3>1. j \in 1 .. Len(results[q]) /\ j \in 1 .. k /\ j # k
        BY <1>3, <1>8, <2>2
      <3>2. results[s][j].elements = results[p][j].elements
        BY <1>4, <2>2, <3>1
      <3> QED
        BY <1>7, <3>1, <3>2
    <2> QED
      BY <1>2, <2>1, <2>2
  <1>9. \A s \in Parties : DOMAIN results[s] = 1 .. Len(results[s])
    BY EndTypes
  <1> QED
    BY <1>1, <1>3, <1>5, <1>6, <1>7, <1>8, <1>9 DEF Latest

\* So it is for both ends.
LEMMA JointLatest == Inv /\ JointInv /\ NoReuse => LatestIdeal
  <1> SUFFICES ASSUME Inv, JointInv, NoReuse, NEW p \in Parties, NEW k \in Nat \ {0},
                      k = Len(results[p])
               PROVE  Latest(p, k) /\ DeltaStays(p, k)
    BY DEF LatestIdeal
  <1>1. Latest(p, k)
    BY LatestResult
  <1>2. DeltaStays(p, k)
    <2>1. k \in 1 .. Len(results[p])
      OBVIOUS
    <2> QED
      BY <2>1, ViewedDelta DEF DeltaStays
  <1> QED
    BY <1>1, <1>2

\* The first states are those of the source.
LEMMA InitIdeal == Init => Ideal!Init
  BY DEF Init, Ideal!Init

\* What a call adds to the results.
LEMMA ReturningResults ==
  ASSUME Inv, NEW p \in Parties, NEW r, Returning(p, r), NEW k,
         k = Len(results[p]) + 1
  PROVE  /\ k \in Nat \ {0} /\ Len(results'[p]) = k /\ results'[p][k] = r
         /\ DOMAIN results[p] = 1 .. Len(results[p]) /\ Len(results[p]) = k - 1
         /\ \A j \in 1 .. Len(results[p]) : results'[p][j] = results[p][j]
         /\ \A q \in Parties : q # p => results'[q] = results[q]
         /\ results' \in [Parties -> Seq(Result)] => r \in Result
  <1>1. results \in [Parties -> Seq(Result)]
    BY StateFunctions
  <1>2. results'[p] = Append(results[p], r) /\ \A q \in Parties : q # p => results'[q] = results[q]
    BY <1>1 DEF Returning
  <1>3. PICK s : s = results[p]
    OBVIOUS
  <1>4. /\ s \in Seq(Result) /\ Len(s) \in Nat /\ DOMAIN s = 1 .. Len(s)
    BY <1>1, <1>3
  <1>5. /\ Len(Append(s, r)) = Len(s) + 1 /\ Append(s, r)[Len(s) + 1] = r
        /\ \A j \in 1 .. Len(s) : Append(s, r)[j] = s[j]
    BY <1>4
  <1>6. results' \in [Parties -> Seq(Result)] => r \in Result
    <2> SUFFICES ASSUME results' \in [Parties -> Seq(Result)] PROVE r \in Result
      OBVIOUS
    <2>1. Append(s, r) \in Seq(Result)
      BY <1>2, <1>3
    <2>2. Len(s) + 1 \in 1 .. Len(Append(s, r))
      BY <1>4, <1>5
    <2>3. Append(s, r)[Len(s) + 1] \in Result
      BY <2>1, <2>2
    <2> QED
      BY <1>5, <2>3
  <1> QED
    BY <1>2, <1>3, <1>4, <1>5, <1>6

\* A step of the two objects is one of the source, or leaves the results alone.
LEMMA StepIdeal ==
  ASSUME Inv, LatestIdeal', [Next]_vars
  PROVE  [Ideal!Next]_results
  <1>1. SUFFICES ASSUME NEW p \in Parties, NEW r, Returning(p, r)
                 PROVE  Ideal!Return(p)
    BY NextReturns DEF Ideal!Next
  <1>2. PICK k : k = Len(results[p]) + 1
    OBVIOUS
  <1>3. /\ k \in Nat \ {0} /\ Len(results'[p]) = k /\ results'[p][k] = r
        /\ DOMAIN results[p] = 1 .. Len(results[p]) /\ Len(results[p]) = k - 1
        /\ \A j \in 1 .. Len(results[p]) : results'[p][j] = results[p][j]
        /\ \A q \in Parties : q # p => results'[q] = results[q]
    BY <1>1, <1>2, ReturningResults
  <1>4. /\ Len(results'[Peer(p)]) \in Nat
        /\ \A q \in Parties : DOMAIN results'[q] = 1 .. Len(results'[q])
        /\ k =< Len(results'[Peer(p)]) =>
             Ideal!Agrees(results'[p][k], results'[Peer(p)][k])
        /\ Len(results'[Peer(p)]) < k =>
             /\ results'[p][k].ok \/ results'[p][k].elements = <<>>
             /\ IsInjective(results'[p][k].elements)
             /\ \A q \in Parties : \A j \in DOMAIN results'[q] :
                  q # p \/ j # k =>
                    ToSet(results'[p][k].elements) \cap ToSet(results'[q][j].elements) = {}
    <2>1. Latest(p, k)'
      BY <1>3 DEF LatestIdeal
    <2> QED
      BY <2>1 DEF Latest, Peer
  <1>5. /\ Peer(p) \in Parties /\ Peer(p) # p
        /\ \A s \in Parties : s = p \/ s = Peer(p)
    BY PeerType DEF Peer, Parties
  <1>6. ASSUME NEW q \in Parties \ {p}
        PROVE  IF k =< Len(results[q]) THEN Ideal!Agrees(r, results[q][k])
                                       ELSE Ideal!Novel(r)
    <2>1. q = Peer(p) /\ results'[q] = results[q] /\ Len(results[q]) \in Nat
      BY <1>3, <1>4, <1>5
    <2>2. CASE k =< Len(results[q])
      BY <1>3, <1>4, <2>1, <2>2
    <2>3. CASE ~(k =< Len(results[q]))
      <3>1. Len(results[q]) < k
        BY <1>3, <2>1, <2>3
      <3>2. ASSUME NEW s \in Parties, NEW j \in DOMAIN results[s]
            PROVE  ToSet(r.elements) \cap ToSet(results[s][j].elements) = {}
        <4>1. CASE s = p
          <5>1. j \in DOMAIN results'[p] /\ j # k /\ results'[p][j] = results[p][j]
            BY <1>3, <1>4, <4>1
          <5> QED
            BY <1>3, <1>4, <2>1, <3>1, <4>1, <5>1
        <4>2. CASE s # p
          BY <1>3, <1>4, <2>1, <3>1, <4>2
        <4> QED
          BY <4>1, <4>2
      <3>3. ASSUME NEW s \in Parties PROVE ToSet(r.elements) \cap Ideal!Delivered(s) = {}
        BY <3>2 DEF Ideal!Delivered, Ideal!ToSet, ToSet
      <3> QED
        <4>1. Ideal!Novel(r)
          <5>1. r.ok \/ r.elements = <<>>
            BY <1>3, <1>4, <2>1, <3>1
          <5>2. IsInjective(r.elements)
            BY <1>3, <1>4, <2>1, <3>1
          <5> QED
            BY <3>3, <5>1, <5>2
            DEF Ideal!Novel, Ideal!IsInjective, IsInjective, Ideal!ToSet, ToSet
        <4> QED
          BY <2>3, <4>1
    <2> QED
      BY <2>2, <2>3
  <1>7. Ideal!DeltaHolds(p, r)
    <2> SUFFICES ASSUME r.role = "receiver", r.op = "Run", r.ok
                 PROVE  /\ \A e \in ToSet(r.elements) : e[1] = r.delta
                        /\ \A j \in DOMAIN results[p] :
                             /\ results[p][j].role = "receiver"
                             /\ results[p][j].op = "Run" /\ results[p][j].ok
                             /\ \A i \in j .. Len(results[p]) :
                                  results[p][i].role = "receiver" => results[p][i].op = "Run"
                             => results[p][j].delta = r.delta
      BY DEF Ideal!DeltaHolds, Ideal!ToSet, ToSet
    <2>1. DeltaStays(p, k)'
      BY <1>3 DEF LatestIdeal
    <2>2. /\ \A e \in ToSet(results'[p][k].elements) : e[1] = results'[p][k].delta
          /\ \A j \in 1 .. k :
               /\ results'[p][j].role = "receiver" /\ results'[p][j].op = "Run"
               /\ results'[p][j].ok
               /\ \A i \in j .. k :
                    results'[p][i].role = "receiver" => results'[p][i].op = "Run"
               => results'[p][j].delta = results'[p][k].delta
      BY <1>3, <2>1 DEF DeltaStays
    <2>3. ASSUME NEW j \in DOMAIN results[p],
                 results[p][j].role = "receiver", results[p][j].op = "Run",
                 results[p][j].ok,
                 \A i \in j .. Len(results[p]) :
                   results[p][i].role = "receiver" => results[p][i].op = "Run"
          PROVE  results[p][j].delta = r.delta
      <3>1. j \in 1 .. k /\ results'[p][j] = results[p][j]
        BY <1>3
      <3>2. ASSUME NEW i \in j .. k, results'[p][i].role = "receiver"
            PROVE  results'[p][i].op = "Run"
        <4>1. CASE i = k
          BY <1>3, <4>1
        <4>2. CASE i # k
          <5>1. i \in 1 .. Len(results[p]) /\ i \in j .. Len(results[p])
            BY <1>3, <3>1, <4>2
          <5> QED
            BY <1>3, <2>3, <3>2, <5>1
        <4> QED
          BY <4>1, <4>2
      <3> QED
        BY <1>3, <2>2, <2>3, <3>1, <3>2
    <2> QED
      BY <1>3, <2>2, <2>3
  <1> QED
    BY <1>1, <1>2, <1>3, <1>6, <1>7 DEF Ideal!Return, Returning

\* The two objects implement the source of correlated randomness: what the calls of
\* the two applications return is what the source gives them.
THEOREM Refinement ==
  ASSUME Retries = {}
  PROVE  Spec => IdealSpec
  BY Invariance, Agreement, NothingReused, JointLatest, InitIdeal, StepIdeal, PTL
  DEF Spec, IdealSpec, Ideal!Spec

=============================================================================
