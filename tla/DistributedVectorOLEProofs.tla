--------------------- MODULE DistributedVectorOLEProofs ---------------------
(***************************************************************************)
(* DistributedVectorOLE stays within its types for all parameters, numbers *)
(* of calls, failures and repeated calls.  This covers the accesses of the *)
(* code that have no check of their own: the tail that Get*Cached takes is *)
(* in the cache, the index of a level is one of the vectors of parameters, *)
(* and the capped batch size is positive.                                  *)
(*                                                                         *)
(* TypeOK is not inductive.  Inv adds how the sizes depend on the level    *)
(* and on each other at each point of a call.                              *)
(***************************************************************************)
EXTENDS OLEProperties, SequenceTheorems, TLAPS

VoleSize(i) == seed_size[i]
MpfssSize(i) == NumBuckets[num_noise_indices[i]]

\* The sizes in params are those of level i.
AtLevel(p, i) ==
  /\ params[p].vole_seed_size = VoleSize(i)
  /\ params[p].mpfss_seed_size = MpfssSize(i)

\* While the bootstrapping loop runs ...
Bootstrapping(p) ==
  /\ pc[p] \in {"begin", "gilboa"} => loc[p].i = 1
  /\ pc[p] \in {"gilboa", "loop"} => AtLevel(p, loc[p].i)
  /\ pc[p] \in {"gilboa", "loop", "seed"} => loc[p].size >= 1

\* ... it prepares the seeds of the next level, from an output that they fit in.
NextLevel(p) ==
  /\ pc[p] \in {"seed", "expand", "masked", "sums"} /\ ~loc[p].final =>
       /\ loc[p].size >= 1
       /\ loc[p].i + 1 \in Levels
       /\ loc[p].new_vole = VoleSize(loc[p].i + 1)
       /\ loc[p].new_mpfss = MpfssSize(loc[p].i + 1)
       /\ loc[p].output = loc[p].new_vole + loc[p].new_mpfss
  /\ pc[p] \in {"expand", "masked", "sums"} =>
       /\ loc[p].output >= 1 /\ loc[p].new_vole >= 1
       /\ loc[p].output >= loc[p].new_vole + loc[p].new_mpfss

\* Only Run fetches, copies and expands with the final sizes.
Running(p) ==
  /\ pc[p] \in {"fetch", "copy"} => loc[p].op = "Run"
  /\ pc[p] \in {"expand", "masked", "sums"} /\ loc[p].final => loc[p].op = "Run"
  /\ loc[p].op = "Run" => loc[p].size \in Nat /\ Len(loc[p].copied) <= loc[p].size

\* The seeds are not empty once there are some.
Seeded(p) ==
  /\ \/ params[p].vole_seed_size >= 1
     \/ pc[p] \in {"idle", "begin"} /\ ~snd[p].done /\ ~rcv[p].done
  /\ params[p].generator.rows >= 1 \/ params[p].generator.cols = 0
  /\ pc[p] = "sums" => Len(snd[p].vole_seed) >= 1
  /\ pc[p] = "masked" => Len(rcv[p].cached) >= loc[p].output
  /\ pc[p] = "gilboa" /\ IsSender(p) =>
       Len(snd[p].cached) = VoleSize(1) + MpfssSize(1)

\* The message of the Gilboa product has an element for each of the first seeds.
FirstSeedsSent(p) ==
  \A k \in 1 .. Len(channel[p]) :
    channel[p][k].kind = "w" => Len(channel[p][k].vec) = VoleSize(1) + MpfssSize(1)

Inv ==
  /\ TypeOK
  /\ \A p \in Parties : /\ Bootstrapping(p) /\ NextLevel(p) /\ Running(p)
                        /\ Seeded(p) /\ FirstSeedsSent(p)

-----------------------------------------------------------------------------
(* Constants and vectors.                                                  *)

\* Every level has sizes, and there is a first level.
LEMMA SizeTypes ==
  /\ Len(seed_size) \in Nat \ {0} /\ 1 \in Levels
  /\ \A i \in Levels : /\ VoleSize(i) \in Nat \ {0}
                       /\ MpfssSize(i) \in Nat \ {0}
                       /\ num_noise_indices[i] \in Nat
                        /\ output_size[i] \in Nat
  <1>1. Len(seed_size) \in Nat \ {0} /\ 1 \in Levels
    BY ParametersAssumption DEF Levels
  <1>2. ASSUME NEW i \in Levels
        PROVE  /\ VoleSize(i) \in Nat \ {0} /\ output_size[i] \in Nat
               /\ num_noise_indices[i] \in Nat
               /\ num_noise_indices[i] \in ToSet(num_noise_indices)
    BY ParametersAssumption DEF Levels, VoleSize, ToSet
  <1>3. \A n \in ToSet(num_noise_indices) : NumBuckets[n] \in Nat \ {0}
    BY ParametersAssumption
  <1> QED
    BY <1>1, <1>2, <1>3 DEF MpfssSize

\* The other end.
LEMMA PeerType == \A p \in Parties : Peer(p) \in Parties /\ Peer(p) # p
  BY PartiesAssumption DEF Peer, Parties

\* GetSenderCached and GetReceiverCached do not read past the cache.
LEMMA TailType ==
  ASSUME NEW vec \in Vector, NEW n \in Nat, n <= Len(vec)
  PROVE  /\ TailOf(vec, n) \in Vector /\ Len(TailOf(vec, n)) = n
         /\ WithoutTail(vec, n) \in Vector
         /\ Len(WithoutTail(vec, n)) = Len(vec) - n
  <1>1. Len(vec) \in Nat /\ Len(vec) - n \in Nat
    BY DEF Vector
  <1>2. /\ TailOf(vec, n) \in Vector /\ Len(TailOf(vec, n)) = n
    BY <1>1, SubSeqProperties DEF TailOf, Vector
  <1>3. /\ WithoutTail(vec, n) \in Vector
        /\ Len(WithoutTail(vec, n)) = Len(vec) - n
    BY <1>1, SubSeqProperties DEF WithoutTail, Vector
  <1> QED
    BY <1>2, <1>3

\* New vectors have the length they are made with.
LEMMA NewVectorTypes ==
  ASSUME NEW len \in Nat, NEW delta \in Nat, NEW run \in Nat
  PROVE  /\ Unshared(len) \in Vector /\ Len(Unshared(len)) = len
         /\ Fresh(delta, run, len) \in Vector
         /\ Len(Fresh(delta, run, len)) = len
  BY DEF Unshared, Fresh, Vector, Element

\* Appending to a cache, or to what has been copied.
LEMMA ConcatType ==
  ASSUME NEW a \in Vector, NEW b \in Vector
  PROVE  a \o b \in Vector /\ Len(a \o b) = Len(a) + Len(b)
  BY DEF Vector

\* The two seeds fit in the cache that they are taken from.
LEMMA SenderSeedsType ==
  ASSUME NEW s \in SenderState, NEW cached \in Vector,
         NEW vole \in Nat, NEW mpfss \in Nat, Len(cached) >= vole + mpfss
  PROVE  /\ SenderSeeds(s, cached, vole, mpfss) \in SenderState
         /\ SenderSeeds(s, cached, vole, mpfss).done = s.done
  <1> DEFINE rest == WithoutTail(cached, vole)
  <1>1. /\ Len(cached) \in Nat /\ vole <= Len(cached)
        /\ Len(cached) - vole >= mpfss
    BY DEF Vector
  <1>2. /\ TailOf(cached, vole) \in Vector /\ rest \in Vector
        /\ Len(rest) = Len(cached) - vole
    BY <1>1, TailType
  <1>3. TailOf(rest, mpfss) \in Vector /\ WithoutTail(rest, mpfss) \in Vector
    BY <1>1, <1>2, TailType
  <1> HIDE DEF rest
  <1>4. SenderSeeds(s, cached, vole, mpfss) =
          [s EXCEPT !.vole_seed = TailOf(cached, vole),
                    !.mpfss_seed = TailOf(rest, mpfss),
                    !.cached = WithoutTail(rest, mpfss)]
    BY DEF SenderSeeds, rest
  <1> QED
    BY <1>2, <1>3, <1>4 DEF SenderState

\* The same for the Receiver's seeds.
LEMMA ReceiverSeedsType ==
  ASSUME NEW r \in ReceiverState, NEW cached \in Vector,
         NEW vole \in Nat, NEW mpfss \in Nat, Len(cached) >= vole + mpfss
  PROVE  /\ ReceiverSeeds(r, cached, vole, mpfss) \in ReceiverState
         /\ ReceiverSeeds(r, cached, vole, mpfss).done = r.done
  <1> DEFINE rest == WithoutTail(cached, vole)
  <1>1. /\ Len(cached) \in Nat /\ vole <= Len(cached)
        /\ Len(cached) - vole >= mpfss
    BY DEF Vector
  <1>2. /\ TailOf(cached, vole) \in Vector /\ rest \in Vector
        /\ Len(rest) = Len(cached) - vole
    BY <1>1, TailType
  <1>3. TailOf(rest, mpfss) \in Vector /\ WithoutTail(rest, mpfss) \in Vector
    BY <1>1, <1>2, TailType
  <1> HIDE DEF rest
  <1>4. ReceiverSeeds(r, cached, vole, mpfss) =
          [r EXCEPT !.vole_seed = TailOf(cached, vole),
                    !.mpfss_seed = TailOf(rest, mpfss),
                    !.mpfss_delta = r.delta,
                    !.cached = WithoutTail(rest, mpfss)]
    BY DEF ReceiverSeeds, rest
  <1> QED
    BY <1>2, <1>3, <1>4 DEF ReceiverState

-----------------------------------------------------------------------------
(* Frames: what a step of one party leaves to the other, and the channels. *)

PartyInv(p) == Bootstrapping(p) /\ NextLevel(p) /\ Running(p) /\ Seeded(p)

\* A party whose own state stays the same keeps its part of the invariant.
LEMMA OtherParty ==
  ASSUME NEW q \in Parties, PartyInv(q),
         pc'[q] = pc[q], loc'[q] = loc[q], params'[q] = params[q],
         snd'[q] = snd[q], rcv'[q] = rcv[q]
  PROVE  PartyInv(q)'
  BY DEF PartyInv, Bootstrapping, NextLevel, Running, Seeded, AtLevel, IsSender

ChannelInv ==
  /\ channel \in [Parties -> Seq(Message)]
  /\ \A p \in Parties : FirstSeedsSent(p)

Sendable(msg) ==
  /\ msg \in Message
  /\ msg.kind = "w" => Len(msg.vec) = VoleSize(1) + MpfssSize(1)

\* Sending adds one message to the channel of the peer, ...
LEMMA SendInv ==
  ASSUME ChannelInv, NEW p \in Parties, NEW msg, Sendable(msg), Send(p, msg)
  PROVE  ChannelInv'
  <1>1. Peer(p) \in Parties
    BY PeerType
  <1>2. channel' \in [Parties -> Seq(Message)]
    BY <1>1 DEF ChannelInv, Send, Sendable
  <1>3. ASSUME NEW q \in Parties PROVE FirstSeedsSent(q)'
    <2>1. channel'[q] = IF q = Peer(p) THEN Append(channel[q], msg) ELSE channel[q]
      BY DEF ChannelInv, Send
    <2>2. channel[q] \in Seq(Message) /\ FirstSeedsSent(q)
      BY DEF ChannelInv
    <2> QED
      BY <2>1, <2>2 DEF FirstSeedsSent, Sendable
  <1> QED
    BY <1>2, <1>3 DEF ChannelInv

\* ... receiving takes the first one of the own channel, ...
LEMMA ReceiveInv ==
  ASSUME ChannelInv, NEW p \in Parties, channel[p] # <<>>, Receive(p)
  PROVE  ChannelInv'
  <1>1. channel' \in [Parties -> Seq(Message)]
    BY DEF ChannelInv, Receive
  <1>2. ASSUME NEW q \in Parties PROVE FirstSeedsSent(q)'
    <2>1. channel'[q] = IF q = p THEN Tail(channel[q]) ELSE channel[q]
      BY DEF ChannelInv, Receive
    <2>2. channel[q] \in Seq(Message) /\ FirstSeedsSent(q)
      BY DEF ChannelInv
    <2> QED
      BY <2>1, <2>2 DEF FirstSeedsSent
  <1> QED
    BY <1>1, <1>2 DEF ChannelInv

\* ... and a reply does both.
LEMMA ReplyInv ==
  ASSUME ChannelInv, NEW p \in Parties, channel[p] # <<>>,
         NEW msg, Sendable(msg), Reply(p, msg)
  PROVE  ChannelInv'
  <1>1. Peer(p) \in Parties /\ Peer(p) # p
    BY PeerType
  <1>2. channel' \in [Parties -> Seq(Message)]
    <2>1. /\ channel[p] \in Seq(Message) /\ channel[Peer(p)] \in Seq(Message)
          /\ msg \in Message
      BY <1>1 DEF ChannelInv, Sendable
    <2>2. /\ Tail(channel[p]) \in Seq(Message)
          /\ Append(channel[Peer(p)], msg) \in Seq(Message)
      BY <2>1
    <2> QED
      BY <1>1, <2>2 DEF ChannelInv, Reply
  <1>3. ASSUME NEW q \in Parties PROVE FirstSeedsSent(q)'
    <2>1. channel'[q] = IF q = Peer(p) THEN Append(channel[q], msg)
                        ELSE IF q = p THEN Tail(channel[q]) ELSE channel[q]
      BY <1>1 DEF ChannelInv, Reply
    <2>2. channel[q] \in Seq(Message) /\ FirstSeedsSent(q)
      BY DEF ChannelInv
    <2> QED
      BY <2>1, <2>2 DEF FirstSeedsSent, Sendable
  <1> QED
    BY <1>2, <1>3 DEF ChannelInv

\* Most steps leave the channels alone.
LEMMA ChannelUnchanged ==
  ASSUME ChannelInv, UNCHANGED channel
  PROVE  ChannelInv'
  BY DEF ChannelInv, FirstSeedsSent

-----------------------------------------------------------------------------
(* The invariant in four parts, of which a step of p disturbs only its own. *)

Counters == [Parties -> Working \cup {"idle", "failed"}]

LocalTypes ==
  /\ pc \in Counters
  /\ loc \in [Parties -> Locals]
  /\ \A p \in Parties : pc[p] # "idle" => loc[p].op # "none" /\ loc[p].role # "none"
  /\ params \in [Parties -> Params]
  /\ snd \in [Parties -> SenderState]
  /\ rcv \in [Parties -> ReceiverState]

GlobalTypes ==
  /\ script \in Seq(Call)
  /\ results \in [Parties -> Seq(Result)]
  /\ serial \in Nat
  /\ spent \in [Parties -> SUBSET Element]
  /\ failures \in Nat

OnlyParty(p) ==
  \A q \in Parties \ {p} :
    /\ pc'[q] = pc[q] /\ loc'[q] = loc[q] /\ params'[q] = params[q]
    /\ snd'[q] = snd[q] /\ rcv'[q] = rcv[q]

\* The parts make up the invariant.
LEMMA InvParts ==
  Inv <=> /\ LocalTypes /\ GlobalTypes /\ ChannelInv
          /\ \A p \in Parties : PartyInv(p)
  BY DEF Inv, TypeOK, LocalTypes, GlobalTypes, ChannelInv, PartyInv, Counters

\* A step of p keeps the invariant if it keeps p's part, the channels and the types.
LEMMA StepInv ==
  ASSUME Inv, NEW p \in Parties, OnlyParty(p),
         LocalTypes', GlobalTypes', ChannelInv', PartyInv(p)'
  PROVE  Inv'
  <1>1. ASSUME NEW q \in Parties \ {p} PROVE PartyInv(q)'
    BY <1>1, InvParts, OtherParty DEF OnlyParty
  <1> QED
    BY <1>1 DEF Inv, TypeOK, LocalTypes, GlobalTypes, ChannelInv, PartyInv, Counters

\* The types of one party's state.
LEMMA PartyTypes ==
  ASSUME LocalTypes, NEW p \in Parties
  PROVE  /\ pc[p] \in Working \cup {"idle", "failed"} /\ loc[p] \in Locals
         /\ pc[p] # "idle" => loc[p].op # "none" /\ loc[p].role # "none"
         /\ params[p] \in Params /\ snd[p] \in SenderState
         /\ rcv[p] \in ReceiverState
  BY DEF LocalTypes, Counters

\* The parts of the state are functions of the ends.
LEMMA StateFunctions ==
  ASSUME Inv
  PROVE  /\ pc \in Counters /\ loc \in [Parties -> Locals]
         /\ params \in [Parties -> Params] /\ snd \in [Parties -> SenderState]
         /\ rcv \in [Parties -> ReceiverState] /\ script \in Seq(Call)
         /\ results \in [Parties -> Seq(Result)]
         /\ channel \in [Parties -> Seq(Message)] /\ serial \in Nat
  BY DEF Inv, TypeOK, Counters

\* The locals between two calls are well typed.
LEMMA NoCallType == NoCall \in Locals
  BY SizeTypes DEF NoCall, Locals, Vector

-----------------------------------------------------------------------------
(* Returning to the application.                                           *)

\* NoCall leaves nothing to show but that the seeds still have their sizes.
LEMMA IdleInv ==
  ASSUME NEW p \in Parties, Seeded(p), pc[p] # "idle",
         pc[p] = "begin" \/ params'[p].vole_seed_size >= 1,
         params'[p].vole_seed_size = params[p].vole_seed_size,
         params'[p].generator.rows = params[p].generator.rows,
         params'[p].generator.cols = params[p].generator.cols,
         pc[p] = "begin" => snd'[p].done = snd[p].done /\ rcv'[p].done = rcv[p].done,
         pc'[p] = "idle", loc'[p] = NoCall
  PROVE  PartyInv(p)'
  BY DEF PartyInv, Bootstrapping, NextLevel, Running, Seeded, NoCall

\* A call that returns adds a well-typed result.
LEMMA ReturnResults ==
  ASSUME Inv, NEW p \in Parties, pc[p] # "idle",
         NEW ok \in BOOLEAN, NEW elements \in Vector, Return(p, ok, elements)
  PROVE  results' \in [Parties -> Seq(Result)]
  <1> DEFINE delta == IF loc[p].role = "receiver" THEN rcv[p].delta ELSE 0
             result == [op |-> loc[p].op, role |-> loc[p].role, ok |-> ok,
                        elements |-> elements, delta |-> delta]
  <1>1. /\ loc[p].op \in {"Precompute", "Run"}
        /\ loc[p].role \in {"sender", "receiver"} /\ delta \in Nat
    BY InvParts, PartyTypes DEF Locals, ReceiverState
  <1>2. result \in Result
    BY <1>1 DEF Result
  <1>3. results' = [results EXCEPT ![p] = Append(@, result)]
    BY DEF Return
  <1> HIDE DEF result
  <1>4. results \in [Parties -> Seq(Result)]
    BY DEF Inv, TypeOK
  <1> QED
    BY <1>2, <1>3, <1>4, AppendProperties

\* A refused batch size changes nothing but the results.
LEMMA RejectBatchSizeInv ==
  ASSUME Inv, NEW p \in Parties, RejectBatchSize(p)
  PROVE  Inv'
  <1>1. /\ LocalTypes /\ GlobalTypes /\ ChannelInv /\ PartyInv(p)
        /\ pc[p] = "begin"
        /\ Return(p, FALSE, <<>>)
        /\ UNCHANGED <<script, objects, channel, ghosts>>
    BY InvParts DEF RejectBatchSize, ReturnError
  <1>2. <<>> \in Vector
    BY DEF Vector
  <1>3. /\ LocalTypes' /\ OnlyParty(p) /\ pc'[p] = "idle" /\ loc'[p] = NoCall
        /\ params'[p] = params[p] /\ snd'[p] = snd[p] /\ rcv'[p] = rcv[p]
    BY <1>1, PartyTypes, NoCallType
    DEF Return, Goto, objects, LocalTypes, OnlyParty, Counters
  <1>4. PartyInv(p)'
    BY <1>1, <1>3, IdleInv DEF PartyInv
  <1>5. GlobalTypes'
    BY <1>1, <1>2, ReturnResults DEF GlobalTypes, ghosts
  <1>6. ChannelInv'
    BY <1>1, ChannelUnchanged
  <1> QED
    BY <1>3, <1>4, <1>5, <1>6, StepInv

\* Nor does a code generator of the wrong dimensions.
LEMMA ExpandWrongDimensionsInv ==
  ASSUME Inv, NEW p \in Parties, ExpandWrongDimensions(p)
  PROVE  Inv'
  <1>1. /\ LocalTypes /\ GlobalTypes /\ ChannelInv /\ PartyInv(p)
        /\ pc[p] = "expand"
        /\ Return(p, FALSE, <<>>)
        /\ UNCHANGED <<script, objects, channel, ghosts>>
    BY InvParts DEF ExpandWrongDimensions, ReturnError
  <1>2. <<>> \in Vector /\ params[p].vole_seed_size >= 1
    BY <1>1 DEF Vector, PartyInv, Seeded
  <1>3. /\ LocalTypes' /\ OnlyParty(p) /\ pc'[p] = "idle" /\ loc'[p] = NoCall
        /\ params'[p] = params[p] /\ snd'[p] = snd[p] /\ rcv'[p] = rcv[p]
    BY <1>1, PartyTypes, NoCallType
    DEF Return, Goto, objects, LocalTypes, OnlyParty, Counters
  <1>4. PartyInv(p)'
    BY <1>1, <1>2, <1>3, IdleInv DEF PartyInv
  <1>5. GlobalTypes'
    BY <1>1, <1>2, ReturnResults DEF GlobalTypes, ghosts
  <1>6. ChannelInv'
    BY <1>1, ChannelUnchanged
  <1> QED
    BY <1>3, <1>4, <1>5, <1>6, StepInv

-----------------------------------------------------------------------------
(* The applications.                                                       *)

NewCall(op, size, role) == [NoCall EXCEPT !.op = op, !.size = size, !.role = role]

\* A call starts at level 1 with nothing copied.
LEMMA NewCallType ==
  ASSUME NEW op \in {"Precompute", "Run"}, NEW size \in Int,
         NEW role \in {"sender", "receiver"}
  PROVE  /\ NewCall(op, size, role) \in Locals
         /\ NewCall(op, size, role).op = op
         /\ NewCall(op, size, role).size = size
         /\ NewCall(op, size, role).role = role
         /\ NewCall(op, size, role).i = 1
         /\ NewCall(op, size, role).copied = <<>>
  <1>1. NewCall(op, size, role) \in Locals
    BY NoCallType DEF Locals, NewCall
  <1> QED
    BY <1>1 DEF NoCall, NewCall

\* A call keeps the invariant: its size is positive only if the call checks that.
LEMMA InvokeInv ==
  ASSUME Inv, NEW p \in Parties, NEW c \in Call, Invoke(p, c)
  PROVE  Inv'
  <1> DEFINE role == IF c.sender = p THEN "sender" ELSE "receiver"
             l == NewCall(c.op, c.size, role)
  <1>1. /\ LocalTypes /\ GlobalTypes /\ ChannelInv /\ PartyInv(p)
        /\ pc[p] = "idle" /\ pc' = [pc EXCEPT ![p] = "begin"]
        /\ loc' = [loc EXCEPT ![p] = l]
        /\ UNCHANGED <<results, objects, channel, ghosts>>
    BY InvParts DEF Invoke, Goto, NewCall
  <1>2. /\ c.op \in {"Precompute", "Run"} /\ c.size \in Int
        /\ c.op = "Run" => c.size \in Nat
    <2>1. CASE c \in [op : {"Precompute"}, sender : Parties, size : BatchSizes]
      BY <2>1, CallsAssumption
    <2>2. CASE c \in [op : {"Run"}, sender : Parties, size : RunSizes]
      <3>1. c.op = "Run" /\ c.size \in RunSizes
        BY <2>2
      <3>2. c.size \in Nat
        BY <3>1, CallsAssumption
      <3> QED
        BY <3>1, <3>2
    <2> QED
      BY <2>1, <2>2 DEF Call
  <1>3. /\ l \in Locals /\ l.op = c.op /\ l.role # "none" /\ l.size = c.size
        /\ l.i = 1 /\ l.copied = <<>>
    BY <1>2, NewCallType
  <1> HIDE DEF l
  <1>4. /\ LocalTypes' /\ OnlyParty(p) /\ pc'[p] = "begin" /\ loc'[p] = l
        /\ params'[p] = params[p] /\ snd'[p] = snd[p] /\ rcv'[p] = rcv[p]
    BY <1>1, <1>2, <1>3, PartyTypes
    DEF objects, LocalTypes, OnlyParty, Counters, Working
  <1>5. PartyInv(p)'
    BY <1>1, <1>2, <1>3, <1>4
    DEF PartyInv, Bootstrapping, NextLevel, Running, Seeded
  <1>6. GlobalTypes'
    <2>1. script' \in Seq(Call)
      <3>1. script \in Seq(Call) /\ Append(script, c) \in Seq(Call)
        BY <1>1, AppendProperties DEF GlobalTypes
      <3>2. script' = script \/ script' = Append(script, c)
        BY DEF Invoke
      <3> QED
        BY <3>1, <3>2
    <2> QED
      BY <1>1, <2>1 DEF GlobalTypes, ghosts
  <1>7. ChannelInv'
    BY <1>1, ChannelUnchanged
  <1> QED
    BY <1>4, <1>5, <1>6, <1>7, StepInv

\* A repeated call starts like a new one, with whatever the failed one has left.
LEMMA RetryInv ==
  ASSUME Inv, NEW p \in Parties, Retry(p)
  PROVE  Inv'
  <1> DEFINE l == NewCall(loc[p].op, loc[p].size, loc[p].role)
  <1>1. /\ LocalTypes /\ GlobalTypes /\ ChannelInv /\ PartyInv(p)
        /\ pc[p] = "failed" /\ pc' = [pc EXCEPT ![p] = "begin"]
        /\ loc' = [loc EXCEPT ![p] = l]
        /\ UNCHANGED <<app, objects, channel, ghosts>>
    BY InvParts DEF Retry, Goto, NewCall
  <1>2. /\ l \in Locals /\ l.op = loc[p].op /\ l.role = loc[p].role
        /\ l.size = loc[p].size /\ l.i = 1 /\ l.copied = <<>>
        /\ l.op # "none" /\ l.role # "none"
    <2>1. /\ loc[p].op \in {"Precompute", "Run"}
          /\ loc[p].role \in {"sender", "receiver"} /\ loc[p].size \in Int
      BY <1>1, PartyTypes DEF Locals
    <2> QED
      BY <2>1, NewCallType
  <1> HIDE DEF l
  <1>3. /\ LocalTypes' /\ OnlyParty(p) /\ pc'[p] = "begin" /\ loc'[p] = l
        /\ params'[p] = params[p] /\ snd'[p] = snd[p] /\ rcv'[p] = rcv[p]
    BY <1>1, <1>2, PartyTypes
    DEF objects, LocalTypes, OnlyParty, Counters, Working
  <1>4. PartyInv(p)'
    BY <1>1, <1>2, <1>3
    DEF PartyInv, Bootstrapping, NextLevel, Running, Seeded
  <1>5. GlobalTypes'
    BY <1>1 DEF GlobalTypes, ghosts, app
  <1>6. ChannelInv'
    BY <1>1, ChannelUnchanged
  <1> QED
    BY <1>3, <1>4, <1>5, <1>6, StepInv

-----------------------------------------------------------------------------
(* Precomputation.                                                         *)

\* The fields of the shared members.
LEMMA ParamsFields ==
  ASSUME NEW pr \in Params
  PROVE  /\ pr = [f \in {"batch_size", "vole_seed_size", "mpfss_seed_size",
                         "num_noise", "generator", "buckets"} |-> pr[f]]
         /\ pr.batch_size \in Nat /\ pr.vole_seed_size \in Nat
         /\ pr.mpfss_seed_size \in Nat /\ pr.num_noise \in Nat
         /\ pr.generator \in [rows : Nat, cols : Nat, id : Nat]
         /\ pr.buckets \in [size : Nat, num : Nat]
  BY DEF Params

\* The precomputation starts with the sizes of level 1.
LEMMA FirstSeedsType ==
  ASSUME NEW p \in Parties, params[p] \in Params
  PROVE  /\ FirstSeeds(p) \in Params
         /\ FirstSeeds(p).vole_seed_size = VoleSize(1)
         /\ FirstSeeds(p).mpfss_seed_size = MpfssSize(1)
         /\ FirstSeeds(p).generator = params[p].generator
         /\ VoleSize(1) + MpfssSize(1) \in Nat
         /\ VoleSize(1) >= 1
  <1>1. /\ VoleSize(1) \in Nat \ {0} /\ MpfssSize(1) \in Nat
        /\ num_noise_indices[1] \in Nat
    BY SizeTypes
  <1>2. FirstSeeds(p) = [params[p] EXCEPT !.batch_size = 0,
                           !.num_noise = num_noise_indices[1],
                           !.vole_seed_size = VoleSize(1),
                           !.mpfss_seed_size = MpfssSize(1)]
    BY DEF FirstSeeds, VoleSize, MpfssSize
  <1>3. FirstSeeds(p) \in Params
    <2> DEFINE vole == VoleSize(1)  mpfss == MpfssSize(1)
               noise == num_noise_indices[1]
    <2>1. vole \in Nat /\ mpfss \in Nat /\ noise \in Nat
      BY <1>1
    <2>2. FirstSeeds(p) = [params[p] EXCEPT !.batch_size = 0,
                             !.num_noise = noise, !.vole_seed_size = vole,
                             !.mpfss_seed_size = mpfss]
      BY <1>2
    <2> HIDE DEF vole, mpfss, noise
    <2>3. FirstSeeds(p) =
            [batch_size |-> 0, vole_seed_size |-> vole, mpfss_seed_size |-> mpfss,
             num_noise |-> noise, generator |-> params[p].generator,
             buckets |-> params[p].buckets]
      BY <2>2, ParamsFields
    <2> QED
      BY <2>1, <2>3, ParamsFields DEF Params
  <1>4. /\ FirstSeeds(p).vole_seed_size = VoleSize(1)
        /\ FirstSeeds(p).mpfss_seed_size = MpfssSize(1)
        /\ FirstSeeds(p).generator = params[p].generator
    BY <1>2 DEF Params
  <1> QED
    BY <1>1, <1>3, <1>4

\* The Sender's cache gets exactly the elements that the first seeds need.
LEMMA PrecomputeSenderInv ==
  ASSUME Inv, NEW p \in Parties, PrecomputeSender(p)
  PROVE  Inv'
  <1> DEFINE vec == Unshared(VoleSize(1) + MpfssSize(1))
             s == [snd[p] EXCEPT !.cached = vec]
  <1>1. /\ LocalTypes /\ GlobalTypes /\ ChannelInv /\ PartyInv(p)
        /\ loc[p] \in Locals /\ params[p] \in Params /\ snd[p] \in SenderState
        /\ loc[p].op # "none" /\ loc[p].role # "none"
    BY InvParts, PartyTypes DEF PrecomputeSender
  <1>2. /\ pc[p] = "begin" /\ IsSender(p) /\ ~(loc[p].size < 1)
        /\ pc' = [pc EXCEPT ![p] = "gilboa"]
        /\ params' = [params EXCEPT ![p] = FirstSeeds(p)]
        /\ snd' = [snd EXCEPT ![p] = s]
        /\ UNCHANGED <<app, loc, rcv, channel, ghosts>>
    BY <1>1, FirstSeedsType DEF PrecomputeSender, BadBatchSize, Goto
  <1>3. vec \in Vector /\ Len(vec) = VoleSize(1) + MpfssSize(1)
    BY <1>1, FirstSeedsType, NewVectorTypes
  <1> HIDE DEF vec
  <1>4. s \in SenderState /\ s.cached = vec
    BY <1>1, <1>3 DEF SenderState
  <1> HIDE DEF s
  <1>5. /\ LocalTypes' /\ OnlyParty(p) /\ pc'[p] = "gilboa" /\ loc'[p] = loc[p]
        /\ params'[p] = FirstSeeds(p) /\ snd'[p] = s /\ rcv'[p] = rcv[p]
    BY <1>1, <1>2, <1>4, FirstSeedsType
    DEF LocalTypes, OnlyParty, Counters, Working
  <1>6. PartyInv(p)'
    BY <1>1, <1>2, <1>3, <1>4, <1>5, FirstSeedsType
    DEF PartyInv, Bootstrapping, NextLevel, Running, Seeded, AtLevel, IsSender,
        Locals
  <1>7. GlobalTypes' /\ ChannelInv'
    BY <1>1, <1>2, ChannelUnchanged DEF GlobalTypes, ghosts, app
  <1> QED
    BY <1>5, <1>6, <1>7, StepInv

\* The Receiver draws delta and sends it on.
LEMMA PrecomputeReceiverInv ==
  ASSUME Inv, NEW p \in Parties, PrecomputeReceiver(p)
  PROVE  Inv'
  <1> DEFINE vec == Unshared(VoleSize(1) + MpfssSize(1))
             r == [rcv[p] EXCEPT !.cached = vec, !.delta = serial + 1]
             msg == [kind |-> "choices", delta |-> serial + 1]
  <1>1. /\ LocalTypes /\ GlobalTypes /\ ChannelInv /\ PartyInv(p)
        /\ loc[p] \in Locals /\ params[p] \in Params /\ rcv[p] \in ReceiverState
        /\ loc[p].op # "none" /\ loc[p].role # "none" /\ serial + 1 \in Nat
    BY InvParts, PartyTypes DEF PrecomputeReceiver, GlobalTypes
  <1>2. /\ pc[p] = "begin" /\ ~IsSender(p) /\ ~(loc[p].size < 1)
        /\ pc' = [pc EXCEPT ![p] = "gilboa"]
        /\ params' = [params EXCEPT ![p] = FirstSeeds(p)]
        /\ rcv' = [rcv EXCEPT ![p] = r]
        /\ serial' = serial + 1 /\ Send(p, msg)
        /\ UNCHANGED <<app, loc, snd, spent, failures>>
    BY <1>1, FirstSeedsType DEF PrecomputeReceiver, BadBatchSize, Goto
  <1>3. vec \in Vector /\ Len(vec) = VoleSize(1) + MpfssSize(1)
    BY <1>1, FirstSeedsType, NewVectorTypes
  <1> HIDE DEF vec
  <1>4. r \in ReceiverState
    BY <1>1, <1>3 DEF ReceiverState
  <1> HIDE DEF r
  <1>5. /\ LocalTypes' /\ OnlyParty(p) /\ pc'[p] = "gilboa" /\ loc'[p] = loc[p]
        /\ params'[p] = FirstSeeds(p) /\ snd'[p] = snd[p] /\ rcv'[p] = r
    BY <1>1, <1>2, <1>4, FirstSeedsType
    DEF LocalTypes, OnlyParty, Counters, Working
  <1>6. PartyInv(p)'
    BY <1>1, <1>2, <1>5, FirstSeedsType
    DEF PartyInv, Bootstrapping, NextLevel, Running, Seeded, AtLevel, IsSender,
        Locals
  <1>7. GlobalTypes'
    BY <1>1, <1>2 DEF GlobalTypes, app
  <1>8. ChannelInv'
    <2>1. Sendable(msg)
      BY <1>1 DEF Sendable, Message
    <2> QED
      BY <1>1, <1>2, <2>1, SendInv
  <1> QED
    BY <1>5, <1>6, <1>7, <1>8, StepInv

-----------------------------------------------------------------------------
(* The Gilboa products.                                                    *)

\* What a message of each kind carries.
LEMMA MessageTypes ==
  ASSUME NEW msg \in Message
  PROVE  /\ msg.kind = "choices" => msg.delta \in Nat
         /\ msg.kind = "w" => msg.vec \in Vector
         /\ msg.kind = "seed" => msg.id \in Nat
         /\ msg.kind = "masked" => msg.run \in Nat
  <1>1. CASE msg \in [kind : {"choices"}, delta : Nat]
    BY <1>1
  <1>2. CASE msg \in [kind : {"w"}, vec : Vector]
    BY <1>2
  <1>3. CASE msg \in [kind : {"seed"}, id : Nat]
    BY <1>3
  <1>4. CASE msg \in [kind : {"masked"}, run : Nat, vole_seed : Vector,
                      mpfss_seed : Vector, generator : Nat,
                      buckets : [size : Nat, num : Nat]]
    BY <1>4
  <1>5. CASE msg \in [kind : {"sums"}, run : Nat]
    BY <1>5
  <1> QED
    BY <1>1, <1>2, <1>3, <1>4, <1>5 DEF Message

\* A message that has arrived is well typed, and a first w has the right length.
LEMMA ArrivedTypes ==
  ASSUME ChannelInv, NEW p \in Parties, NEW kind, Arrived(p, kind)
  PROVE  /\ channel[p] # <<>>
         /\ Head(channel[p]) \in Message /\ Head(channel[p]).kind = kind
         /\ kind = "w" => Len(Head(channel[p]).vec) = VoleSize(1) + MpfssSize(1)
  <1>1. /\ channel[p] \in Seq(Message) /\ channel[p] # <<>>
        /\ Head(channel[p]).kind = kind
    BY DEF ChannelInv, Arrived
  <1>2. /\ 1 \in 1 .. Len(channel[p]) /\ Head(channel[p]) = channel[p][1]
        /\ Head(channel[p]) \in Message
    BY <1>1
  <1>3. FirstSeedsSent(p)
    BY DEF ChannelInv
  <1> QED
    BY <1>1, <1>2, <1>3 DEF FirstSeedsSent

\* The first seeds of the Sender are cut from the Gilboa product ...
LEMMA GilboaSenderInv ==
  ASSUME Inv, NEW p \in Parties, GilboaSender(p)
  PROVE  Inv'
  <1> DEFINE delta == Head(channel[p]).delta
             vec == Fresh(delta, serial + 1, Len(snd[p].cached))
             s == SenderSeeds(snd[p], vec, params[p].vole_seed_size,
                              params[p].mpfss_seed_size)
             msg == [kind |-> "w", vec |-> vec]
  <1>1. /\ LocalTypes /\ GlobalTypes /\ ChannelInv /\ PartyInv(p)
        /\ loc[p] \in Locals /\ params[p] \in Params /\ snd[p] \in SenderState
        /\ loc[p].op # "none" /\ loc[p].role # "none" /\ serial + 1 \in Nat
    BY InvParts, PartyTypes DEF GilboaSender, GlobalTypes
  <1>2. /\ pc[p] = "gilboa" /\ IsSender(p) /\ Arrived(p, "choices")
        /\ pc' = [pc EXCEPT ![p] = "loop"]
        /\ snd' = [snd EXCEPT ![p] = s]
        /\ serial' = serial + 1 /\ Reply(p, msg)
        /\ UNCHANGED <<app, loc, params, rcv, spent, failures>>
    BY <1>1 DEF GilboaSender, Goto, LocalTypes
  <1>3. /\ Len(snd[p].cached) = VoleSize(1) + MpfssSize(1)
        /\ Len(snd[p].cached) \in Nat
        /\ params[p].vole_seed_size = VoleSize(1)
        /\ params[p].mpfss_seed_size = MpfssSize(1)
    BY <1>1, <1>2 DEF PartyInv, Seeded, Bootstrapping, AtLevel, SenderState, Vector
  <1>4. vec \in Vector /\ Len(vec) = VoleSize(1) + MpfssSize(1)
    <2>1. delta \in Nat
      BY <1>1, <1>2, ArrivedTypes, MessageTypes
    <2> QED
      BY <1>1, <1>3, <2>1, NewVectorTypes
  <1> HIDE DEF vec
  <1>5. s \in SenderState /\ s.done = snd[p].done
    BY <1>1, <1>3, <1>4, SizeTypes, SenderSeedsType
  <1> HIDE DEF s
  <1>6. /\ LocalTypes' /\ OnlyParty(p) /\ pc'[p] = "loop" /\ loc'[p] = loc[p]
        /\ params'[p] = params[p] /\ snd'[p] = s /\ rcv'[p] = rcv[p]
    BY <1>1, <1>2, <1>5 DEF LocalTypes, OnlyParty, Counters, Working
  <1>7. PartyInv(p)'
    BY <1>1, <1>2, <1>6
    DEF PartyInv, Bootstrapping, NextLevel, Running, Seeded, AtLevel, IsSender
  <1>8. GlobalTypes'
    BY <1>1, <1>2 DEF GlobalTypes, app
  <1>9. ChannelInv'
    <2>1. Sendable(msg)
      BY <1>4 DEF Sendable, Message
    <2> QED
      BY <1>1, <1>2, <2>1, ArrivedTypes, ReplyInv
  <1> QED
    BY <1>6, <1>7, <1>8, <1>9, StepInv

\* ... and so are those of the Receiver, from what the Sender has sent.
LEMMA GilboaReceiverInv ==
  ASSUME Inv, NEW p \in Parties, GilboaReceiver(p)
  PROVE  Inv'
  <1> DEFINE vec == Head(channel[p]).vec
             r == ReceiverSeeds(rcv[p], vec, params[p].vole_seed_size,
                                params[p].mpfss_seed_size)
  <1>1. /\ LocalTypes /\ GlobalTypes /\ ChannelInv /\ PartyInv(p)
        /\ loc[p] \in Locals /\ params[p] \in Params /\ rcv[p] \in ReceiverState
        /\ loc[p].op # "none" /\ loc[p].role # "none"
    BY InvParts, PartyTypes DEF GilboaReceiver
  <1>2. /\ pc[p] = "gilboa" /\ ~IsSender(p) /\ Arrived(p, "w")
        /\ pc' = [pc EXCEPT ![p] = "loop"]
        /\ rcv' = [rcv EXCEPT ![p] = r] /\ Receive(p)
        /\ UNCHANGED <<app, loc, params, snd, ghosts>>
    BY <1>1 DEF GilboaReceiver, Goto, LocalTypes
  <1>3. /\ params[p].vole_seed_size = VoleSize(1)
        /\ params[p].mpfss_seed_size = MpfssSize(1)
    BY <1>1, <1>2 DEF PartyInv, Bootstrapping, AtLevel
  <1>4. vec \in Vector /\ Len(vec) = VoleSize(1) + MpfssSize(1)
    BY <1>1, <1>2, ArrivedTypes, MessageTypes
  <1> HIDE DEF vec
  <1>5. r \in ReceiverState /\ r.done = rcv[p].done
    BY <1>1, <1>3, <1>4, SizeTypes, ReceiverSeedsType
  <1> HIDE DEF r
  <1>6. /\ LocalTypes' /\ OnlyParty(p) /\ pc'[p] = "loop" /\ loc'[p] = loc[p]
        /\ params'[p] = params[p] /\ snd'[p] = snd[p] /\ rcv'[p] = r
    BY <1>1, <1>2, <1>5 DEF LocalTypes, OnlyParty, Counters, Working
  <1>7. PartyInv(p)'
    BY <1>1, <1>2, <1>6
    DEF PartyInv, Bootstrapping, NextLevel, Running, Seeded, AtLevel, IsSender
  <1>8. GlobalTypes'
    BY <1>1, <1>2 DEF GlobalTypes, app, ghosts
  <1>9. ChannelInv'
    BY <1>1, <1>2, ArrivedTypes, ReceiveInv
  <1> QED
    BY <1>6, <1>7, <1>8, <1>9, StepInv

-----------------------------------------------------------------------------
(* The loop over the levels, and the generator for the next expansion.     *)

Resized(p, pr, output) ==
  [pr EXCEPT !.buckets = UpdateBuckets(p, output),
             !.generator = [rows |-> pr.vole_seed_size, cols |-> output, id |-> 0]]

\* Resizing the generator gives it the rows of the current VOLE seed.
LEMMA ResizedType ==
  ASSUME NEW p \in Parties, params[p] \in Params, NEW pr \in Params,
         NEW output \in Nat, pr.vole_seed_size >= 1
  PROVE  /\ Resized(p, pr, output) \in Params
         /\ Resized(p, pr, output).vole_seed_size = pr.vole_seed_size
         /\ Resized(p, pr, output).generator.rows >= 1
  <1> DEFINE buckets == UpdateBuckets(p, output)
             generator == [rows |-> pr.vole_seed_size, cols |-> output, id |-> 0]
  <1>1. buckets \in [size : Nat, num : Nat]
    BY ParamsFields DEF UpdateBuckets
  <1>2. generator \in [rows : Nat, cols : Nat, id : Nat] /\ generator.rows >= 1
    BY ParamsFields
  <1>3. Resized(p, pr, output) = [pr EXCEPT !.buckets = buckets, !.generator = generator]
    BY DEF Resized
  <1> HIDE DEF buckets, generator
  <1>4. Resized(p, pr, output) =
          [batch_size |-> pr.batch_size, vole_seed_size |-> pr.vole_seed_size,
           mpfss_seed_size |-> pr.mpfss_seed_size, num_noise |-> pr.num_noise,
           generator |-> generator, buckets |-> buckets]
    BY <1>3, ParamsFields
  <1> QED
    BY <1>1, <1>2, <1>4, ParamsFields DEF Params

\* While the output is too short there is a next level to expand to.
LEMMA BootstrapInv ==
  ASSUME Inv, NEW p \in Parties, Bootstrap(p)
  PROVE  Inv'
  <1> DEFINE next == loc[p].i + 1
             vole == VoleSize(next)
             mpfss == MpfssSize(next)
             l == [loc[p] EXCEPT !.output = vole + mpfss, !.new_vole = vole,
                                 !.new_mpfss = mpfss]
             pr == Resized(p, params[p], vole + mpfss)
  <1>1. /\ LocalTypes /\ GlobalTypes /\ ChannelInv /\ PartyInv(p)
        /\ loc[p] \in Locals /\ params[p] \in Params
        /\ loc[p].op # "none" /\ loc[p].role # "none"
    BY InvParts, PartyTypes DEF Bootstrap
  <1>2. /\ pc[p] = "loop" /\ loc[p].i < Len(seed_size)
        /\ pc' = [pc EXCEPT ![p] = "seed"]
        /\ loc' = [loc EXCEPT ![p] = l] /\ params' = [params EXCEPT ![p] = pr]
        /\ UNCHANGED <<app, snd, rcv, channel, ghosts>>
    BY <1>1 DEF Bootstrap, Goto, LocalTypes, ResizeGenerator, Resized,
                VoleSize, MpfssSize
  <1>3. next \in Levels /\ vole \in Nat /\ mpfss \in Nat /\ vole + mpfss \in Nat
    <2>1. next \in Levels
      BY <1>1, <1>2, SizeTypes DEF Locals, Levels
    <2> QED
      BY <2>1, SizeTypes
  <1>4. params[p].vole_seed_size >= 1 /\ loc[p].size >= 1
    BY <1>1, <1>2 DEF PartyInv, Seeded, Bootstrapping
  <1>5. /\ pr \in Params /\ pr.generator.rows >= 1 /\ pr.vole_seed_size >= 1
    BY <1>1, <1>3, <1>4, ResizedType
  <1> HIDE DEF pr
  <1>6. /\ l \in Locals /\ l.op = loc[p].op /\ l.role = loc[p].role
        /\ l.i = loc[p].i /\ l.size = loc[p].size /\ l.copied = loc[p].copied
        /\ l.final = loc[p].final
        /\ l.new_vole = vole /\ l.new_mpfss = mpfss /\ l.output = vole + mpfss
    <2> HIDE DEF vole, mpfss
    <2> QED
      BY <1>1, <1>3 DEF Locals
  <1> HIDE DEF l
  <1>7. /\ LocalTypes' /\ OnlyParty(p) /\ pc'[p] = "seed" /\ loc'[p] = l
        /\ params'[p] = pr /\ snd'[p] = snd[p] /\ rcv'[p] = rcv[p]
    BY <1>1, <1>2, <1>5, <1>6 DEF LocalTypes, OnlyParty, Counters, Working
  <1>8. PartyInv(p)'
    BY <1>1, <1>2, <1>3, <1>4, <1>5, <1>6, <1>7
    DEF PartyInv, Bootstrapping, NextLevel, Running, Seeded
  <1>9. GlobalTypes' /\ ChannelInv'
    BY <1>1, <1>2, ChannelUnchanged DEF GlobalTypes, app, ghosts
  <1> QED
    BY <1>7, <1>8, <1>9, StepInv

\* The last level's output has room for the seeds of every level.
LEMMA BatchSizeType ==
  ASSUME NEW p \in Parties, loc[p] \in Locals, loc[p].size >= 1,
         AtLevel(p, loc[p].i)
  PROVE  BatchSize(p) \in Nat /\ BatchSize(p) >= 1
  <1> DEFINE room == output_size[Len(output_size)] - SeedsLength(p)
  <1>1. loc[p].i \in Levels /\ loc[p].size \in Int
    BY DEF Locals
  <1>2. /\ VoleSize(loc[p].i) \in Nat /\ MpfssSize(loc[p].i) \in Nat
        /\ output_size[Len(output_size)] \in Nat
    <2>1. Len(output_size) \in Levels
      BY ParametersAssumption DEF Levels
    <2> QED
      BY <1>1, <2>1, SizeTypes
  <1>3. VoleSize(loc[p].i) + MpfssSize(loc[p].i) < output_size[Len(output_size)]
    BY <1>1, RoomAssumption DEF VoleSize, MpfssSize
  <1>4. room \in Int /\ room >= 1
    BY <1>2, <1>3 DEF AtLevel, SeedsLength
  <1>5. BatchSize(p) = Min({loc[p].size, room})
    BY DEF BatchSize
  <1> HIDE DEF room
  <1>6. BatchSize(p) \in {loc[p].size, room}
    <2>1. \E x \in {loc[p].size, room} : \A y \in {loc[p].size, room} : x =< y
      BY <1>1, <1>4
    <2> QED
      BY <1>5, <2>1 DEF Min
  <1> QED
    BY <1>1, <1>4, <1>6

\* After the loop the output holds a positive batch and the seeds.
LEMMA ChooseBatchSizeInv ==
  ASSUME Inv, NEW p \in Parties, ChooseBatchSize(p)
  PROVE  Inv'
  <1> DEFINE batch == BatchSize(p)
             output == batch + SeedsLength(p)
             l == [loc[p] EXCEPT !.final = TRUE, !.output = output]
             sized == [params[p] EXCEPT !.batch_size = batch]
             pr == Resized(p, sized, output)
  <1>1. /\ LocalTypes /\ GlobalTypes /\ ChannelInv /\ PartyInv(p)
        /\ loc[p] \in Locals /\ params[p] \in Params
        /\ loc[p].op # "none" /\ loc[p].role # "none"
    BY InvParts, PartyTypes DEF ChooseBatchSize
  <1>2. /\ pc[p] = "loop" /\ pc' = [pc EXCEPT ![p] = "seed"]
        /\ loc' = [loc EXCEPT ![p] = l] /\ params' = [params EXCEPT ![p] = pr]
        /\ UNCHANGED <<app, snd, rcv, channel, ghosts>>
    BY <1>1 DEF ChooseBatchSize, Goto, LocalTypes, ResizeGenerator, Resized
  <1>3. /\ params[p].vole_seed_size >= 1 /\ loc[p].size >= 1
        /\ AtLevel(p, loc[p].i)
    BY <1>1, <1>2 DEF PartyInv, Seeded, Bootstrapping
  <1>4. batch \in Nat
    BY <1>1, <1>3, BatchSizeType
  <1> HIDE DEF batch
  <1>5. output \in Nat
    BY <1>1, <1>4, ParamsFields DEF SeedsLength
  <1> HIDE DEF output
  <1>6. sized \in Params /\ sized.vole_seed_size = params[p].vole_seed_size
    <2>1. sized = [batch_size |-> batch, vole_seed_size |-> params[p].vole_seed_size,
                   mpfss_seed_size |-> params[p].mpfss_seed_size,
                   num_noise |-> params[p].num_noise,
                   generator |-> params[p].generator, buckets |-> params[p].buckets]
      BY <1>1, ParamsFields
    <2> QED
      BY <1>1, <1>4, <2>1, ParamsFields DEF Params
  <1> HIDE DEF sized
  <1>7. /\ pr \in Params /\ pr.generator.rows >= 1 /\ pr.vole_seed_size >= 1
    BY <1>1, <1>3, <1>5, <1>6, ResizedType
  <1> HIDE DEF pr
  <1>8. /\ l \in Locals /\ l.op = loc[p].op /\ l.role = loc[p].role
        /\ l.i = loc[p].i /\ l.size = loc[p].size /\ l.copied = loc[p].copied
        /\ l.final
    BY <1>1, <1>5 DEF Locals
  <1> HIDE DEF l
  <1>9. /\ LocalTypes' /\ OnlyParty(p) /\ pc'[p] = "seed" /\ loc'[p] = l
        /\ params'[p] = pr /\ snd'[p] = snd[p] /\ rcv'[p] = rcv[p]
    BY <1>1, <1>2, <1>7, <1>8 DEF LocalTypes, OnlyParty, Counters, Working
  <1>10. PartyInv(p)'
    BY <1>1, <1>2, <1>3, <1>7, <1>8, <1>9
    DEF PartyInv, Bootstrapping, NextLevel, Running, Seeded
  <1>11. GlobalTypes' /\ ChannelInv'
    BY <1>1, <1>2, ChannelUnchanged DEF GlobalTypes, app, ghosts
  <1> QED
    BY <1>9, <1>10, <1>11, StepInv

\* Filling the generator leaves its shape alone.
LEMMA FilledType ==
  ASSUME NEW pr \in Params, NEW id \in Nat
  PROVE  LET new == [pr EXCEPT !.generator.id = id]
         IN  /\ new \in Params
             /\ new.vole_seed_size = pr.vole_seed_size
             /\ new.generator.rows = pr.generator.rows
             /\ new.generator.cols = pr.generator.cols
  <1> DEFINE generator == [pr.generator EXCEPT !.id = id]
             new == [pr EXCEPT !.generator.id = id]
  <1>1. /\ generator \in [rows : Nat, cols : Nat, id : Nat]
        /\ generator.rows = pr.generator.rows /\ generator.cols = pr.generator.cols
    BY ParamsFields
  <1>2. new = [pr EXCEPT !.generator = generator]
    OBVIOUS
  <1> HIDE DEF generator
  <1>3. new = [batch_size |-> pr.batch_size, vole_seed_size |-> pr.vole_seed_size,
               mpfss_seed_size |-> pr.mpfss_seed_size, num_noise |-> pr.num_noise,
               generator |-> generator, buckets |-> pr.buckets]
    BY <1>2, ParamsFields
  <1> HIDE DEF new
  <1>4. new \in Params
    BY <1>1, <1>3, ParamsFields DEF Params
  <1>5. /\ new.vole_seed_size = pr.vole_seed_size
        /\ new.generator.rows = pr.generator.rows
        /\ new.generator.cols = pr.generator.cols
    BY <1>1, <1>3
  <1> QED
    BY <1>4, <1>5 DEF new

\* SetDone changes no more than the role's flag.
LEMMA SetDoneType ==
  ASSUME LocalTypes, NEW p \in Parties, SetDone(p)
  PROVE  /\ snd' \in [Parties -> SenderState] /\ rcv' \in [Parties -> ReceiverState]
         /\ \A q \in Parties \ {p} : snd'[q] = snd[q] /\ rcv'[q] = rcv[q]
  <1>1. /\ snd \in [Parties -> SenderState] /\ rcv \in [Parties -> ReceiverState]
        /\ snd[p] \in SenderState /\ rcv[p] \in ReceiverState
    BY DEF LocalTypes
  <1>2. /\ [snd[p] EXCEPT !.done = TRUE] \in SenderState
        /\ [rcv[p] EXCEPT !.done = TRUE] \in ReceiverState
    BY <1>1 DEF SenderState, ReceiverState
  <1>3. CASE IsSender(p)
    <2>1. rcv' = rcv /\ snd' = [snd EXCEPT ![p] = [snd[p] EXCEPT !.done = TRUE]]
      BY <1>1, <1>3 DEF SetDone
    <2> QED
      BY <1>1, <1>2, <2>1
  <1>4. CASE ~IsSender(p)
    <2>1. snd' = snd /\ rcv' = [rcv EXCEPT ![p] = [rcv[p] EXCEPT !.done = TRUE]]
      BY <1>1, <1>4 DEF SetDone
    <2> QED
      BY <1>1, <1>2, <2>1
  <1> QED
    BY <1>3, <1>4

\* However PrecomputeCommon ends, the sizes fit what comes next.
LEMMA FillGeneratorInv ==
  ASSUME Inv, NEW p \in Parties, NEW id \in Nat, pc[p] = "seed", FillGenerator(p, id)
  PROVE  /\ LocalTypes' /\ OnlyParty(p) /\ PartyInv(p)'
         /\ results' \in [Parties -> Seq(Result)]
  <1> DEFINE pr == [params[p] EXCEPT !.generator.id = id]
  <1>1. /\ LocalTypes /\ GlobalTypes /\ PartyInv(p)
        /\ loc[p] \in Locals /\ params[p] \in Params
        /\ loc[p].op # "none" /\ loc[p].role # "none"
        /\ <<>> \in Vector /\ params[p].vole_seed_size >= 1
    BY InvParts, PartyTypes DEF Vector, PartyInv, Seeded
  <1>2. /\ pr \in Params /\ pr.vole_seed_size = params[p].vole_seed_size
        /\ pr.generator.rows = params[p].generator.rows
        /\ pr.generator.cols = params[p].generator.cols
    BY <1>1, FilledType
  <1>3. CASE ReturnError(p) /\ UNCHANGED objects
    <2>1. Return(p, FALSE, <<>>)
      BY <1>3 DEF ReturnError
    <2>2. /\ LocalTypes' /\ OnlyParty(p) /\ pc'[p] = "idle" /\ loc'[p] = NoCall
          /\ params'[p] = params[p]
      BY <1>1, <1>3, <2>1, NoCallType
      DEF Return, Goto, objects, LocalTypes, OnlyParty, Counters
    <2>3. PartyInv(p)'
      BY <1>1, <2>2, IdleInv DEF PartyInv
    <2> QED
      BY <1>1, <2>1, <2>2, <2>3, ReturnResults
  <1> HIDE DEF pr
  <1>4. CASE /\ params' = [params EXCEPT ![p] = pr]
             /\ ~loc[p].final /\ Goto(p, "expand")
             /\ UNCHANGED <<results, loc, snd, rcv>>
    <2>1. /\ LocalTypes' /\ OnlyParty(p) /\ pc'[p] = "expand" /\ loc'[p] = loc[p]
          /\ params'[p] = pr /\ snd'[p] = snd[p] /\ rcv'[p] = rcv[p]
      BY <1>1, <1>2, <1>4 DEF Goto, LocalTypes, OnlyParty, Counters, Working
    <2>2. /\ loc[p].i + 1 \in Levels /\ loc[p].new_vole >= 1 /\ loc[p].new_mpfss >= 1
          /\ loc[p].new_vole \in Nat /\ loc[p].new_mpfss \in Nat
          /\ loc[p].output = loc[p].new_vole + loc[p].new_mpfss
      BY <1>1, <1>4, SizeTypes DEF PartyInv, NextLevel
    <2>3. PartyInv(p)'
      BY <1>1, <1>2, <1>4, <2>1, <2>2
      DEF PartyInv, Bootstrapping, NextLevel, Running, Seeded
    <2> QED
      BY <1>1, <1>4, <2>1, <2>3 DEF GlobalTypes
  <1>5. CASE /\ params' = [params EXCEPT ![p] = pr]
             /\ loc[p].final /\ loc[p].op = "Precompute"
             /\ SetDone(p) /\ Return(p, TRUE, <<>>)
    <2>1. /\ LocalTypes' /\ OnlyParty(p) /\ pc'[p] = "idle" /\ loc'[p] = NoCall
          /\ params'[p] = pr
      BY <1>1, <1>2, <1>5, NoCallType, SetDoneType
      DEF Return, Goto, LocalTypes, OnlyParty, Counters
    <2>2. PartyInv(p)'
      BY <1>1, <1>2, <2>1, IdleInv DEF PartyInv
    <2> QED
      BY <1>1, <1>5, <2>1, <2>2, ReturnResults
  <1>6. CASE /\ params' = [params EXCEPT ![p] = pr]
             /\ loc[p].final /\ loc[p].op = "Run" /\ SetDone(p)
             /\ Goto(p, "fetch") /\ UNCHANGED <<results, loc>>
    <2>1. /\ LocalTypes' /\ OnlyParty(p) /\ pc'[p] = "fetch" /\ loc'[p] = loc[p]
          /\ params'[p] = pr
      BY <1>1, <1>2, <1>6, SetDoneType
      DEF Goto, LocalTypes, OnlyParty, Counters, Working
    <2>2. PartyInv(p)'
      BY <1>1, <1>2, <1>6, <2>1
      DEF PartyInv, Bootstrapping, NextLevel, Running, Seeded
    <2> QED
      BY <1>1, <1>6, <2>1, <2>2 DEF GlobalTypes
  <1>7. (params' = [params EXCEPT ![p].generator.id = id])
          => params' = [params EXCEPT ![p] = pr]
    BY <1>1 DEF LocalTypes, pr
  <1> QED
    BY <1>3, <1>4, <1>5, <1>6, <1>7 DEF FillGenerator, GeneratorReady

\* The lower end fills its generator after sending the seed, ...
LEMMA SendSeedInv ==
  ASSUME Inv, NEW p \in Parties, SendSeed(p)
  PROVE  Inv'
  <1> DEFINE msg == [kind |-> "seed", id |-> serial + 1]
  <1>1. /\ GlobalTypes /\ ChannelInv /\ serial + 1 \in Nat
        /\ pc[p] = "seed" /\ serial' = serial + 1 /\ Send(p, msg)
        /\ FillGenerator(p, serial + 1) /\ UNCHANGED <<script, spent, failures>>
    BY InvParts DEF SendSeed, GlobalTypes
  <1>2. /\ LocalTypes' /\ OnlyParty(p) /\ PartyInv(p)'
        /\ results' \in [Parties -> Seq(Result)]
    BY <1>1, FillGeneratorInv
  <1>3. GlobalTypes'
    BY <1>1, <1>2 DEF GlobalTypes
  <1>4. Sendable(msg)
    BY <1>1 DEF Sendable, Message
  <1>5. ChannelInv'
    BY <1>1, <1>4, SendInv
  <1> QED
    BY <1>2, <1>3, <1>5, StepInv

\* ... and the higher end after receiving it.
LEMMA ReceiveSeedInv ==
  ASSUME Inv, NEW p \in Parties, ReceiveSeed(p)
  PROVE  Inv'
  <1>1. /\ GlobalTypes /\ ChannelInv /\ pc[p] = "seed" /\ Arrived(p, "seed")
        /\ Receive(p) /\ FillGenerator(p, Head(channel[p]).id)
        /\ UNCHANGED <<script, ghosts>>
    BY InvParts DEF ReceiveSeed
  <1>2. Head(channel[p]).id \in Nat /\ channel[p] # <<>>
    BY <1>1, ArrivedTypes, MessageTypes
  <1>3. /\ LocalTypes' /\ OnlyParty(p) /\ PartyInv(p)'
        /\ results' \in [Parties -> Seq(Result)]
    BY <1>1, <1>2, FillGeneratorInv
  <1>4. GlobalTypes'
    BY <1>1, <1>3 DEF GlobalTypes, ghosts
  <1>5. ChannelInv'
    BY <1>1, <1>2, ReceiveInv
  <1> QED
    BY <1>3, <1>4, <1>5, StepInv

-----------------------------------------------------------------------------
(* Expansions.                                                             *)

\* Updating the MPFSS buckets leaves the sizes of the seeds alone.
LEMMA BucketsType ==
  ASSUME NEW p \in Parties, params[p] \in Params, NEW output \in Nat
  PROVE  LET new == [params[p] EXCEPT !.buckets = UpdateBuckets(p, output)]
         IN  /\ new \in Params
             /\ new.vole_seed_size = params[p].vole_seed_size
             /\ new.generator = params[p].generator
             /\ UpdateBuckets(p, output) \in [size : Nat, num : Nat]
  <1> DEFINE buckets == UpdateBuckets(p, output)
             new == [params[p] EXCEPT !.buckets = buckets]
  <1>1. buckets \in [size : Nat, num : Nat]
    BY ParamsFields DEF UpdateBuckets
  <1> HIDE DEF buckets
  <1>2. new = [batch_size |-> params[p].batch_size,
               vole_seed_size |-> params[p].vole_seed_size,
               mpfss_seed_size |-> params[p].mpfss_seed_size,
               num_noise |-> params[p].num_noise,
               generator |-> params[p].generator, buckets |-> buckets]
    BY ParamsFields
  <1>3. new \in Params
    BY <1>1, <1>2, ParamsFields DEF Params
  <1> QED
    BY <1>1, <1>2, <1>3 DEF buckets

\* A failed cuckoo hashing leaves seeds and cache as they are.
LEMMA ExpandSenderFailsInv ==
  ASSUME Inv, NEW p \in Parties, ExpandSenderFails(p)
  PROVE  Inv'
  <1> DEFINE pr == [params[p] EXCEPT !.buckets = UpdateBuckets(p, loc[p].output)]
  <1>1. /\ LocalTypes /\ GlobalTypes /\ ChannelInv /\ PartyInv(p)
        /\ loc[p] \in Locals /\ params[p] \in Params /\ loc[p].output \in Nat
        /\ loc[p].op # "none" /\ loc[p].role # "none" /\ failures + 1 \in Nat
    BY InvParts, PartyTypes DEF ExpandSenderFails, Locals, GlobalTypes
  <1>2. /\ pc[p] = "expand" /\ pc' = [pc EXCEPT ![p] = "failed"]
        /\ params' = [params EXCEPT ![p] = pr] /\ failures' = failures + 1
        /\ UNCHANGED <<app, loc, snd, rcv, channel, serial, spent>>
    BY <1>1 DEF ExpandSenderFails, Goto, LocalTypes
  <1>3. /\ pr \in Params /\ pr.vole_seed_size = params[p].vole_seed_size
        /\ pr.generator = params[p].generator
    BY <1>1, BucketsType
  <1> HIDE DEF pr
  <1>4. /\ LocalTypes' /\ OnlyParty(p) /\ pc'[p] = "failed" /\ loc'[p] = loc[p]
        /\ params'[p] = pr /\ snd'[p] = snd[p] /\ rcv'[p] = rcv[p]
    BY <1>1, <1>2, <1>3 DEF LocalTypes, OnlyParty, Counters
  <1>5. PartyInv(p)'
    BY <1>1, <1>2, <1>3, <1>4
    DEF PartyInv, Bootstrapping, NextLevel, Running, Seeded
  <1>6. GlobalTypes' /\ ChannelInv'
    BY <1>1, <1>2, ChannelUnchanged DEF GlobalTypes, app
  <1> QED
    BY <1>4, <1>5, <1>6, StepInv

\* An expansion starts only with a seed that is not empty.
LEMMA ExpandSenderInv ==
  ASSUME Inv, NEW p \in Parties, ExpandSender(p)
  PROVE  Inv'
  <1> DEFINE buckets == UpdateBuckets(p, loc[p].output)
             pr == [params[p] EXCEPT !.buckets = buckets]
             l == [loc[p] EXCEPT !.run = serial + 1]
             msg == [kind |-> "masked", run |-> serial + 1,
                     vole_seed |-> snd[p].vole_seed,
                     mpfss_seed |-> snd[p].mpfss_seed,
                     generator |-> params[p].generator.id, buckets |-> buckets]
             used == ToSet(snd[p].vole_seed) \cup ToSet(snd[p].mpfss_seed)
  <1>1. /\ LocalTypes /\ GlobalTypes /\ ChannelInv /\ PartyInv(p)
        /\ loc[p] \in Locals /\ params[p] \in Params /\ loc[p].output \in Nat
        /\ snd[p] \in SenderState
        /\ loc[p].op # "none" /\ loc[p].role # "none" /\ serial + 1 \in Nat
    BY InvParts, PartyTypes DEF ExpandSender, Locals, GlobalTypes
  <1>2. /\ pc[p] = "expand" /\ pc' = [pc EXCEPT ![p] = "sums"]
        /\ IsSender(p) /\ DimensionsMatch(p)
        /\ params' = [params EXCEPT ![p] = pr] /\ loc' = [loc EXCEPT ![p] = l]
        /\ Send(p, msg) /\ serial' = serial + 1
        /\ spent' = [spent EXCEPT ![p] = @ \cup ToSet(snd[p].vole_seed)
                                            \cup ToSet(snd[p].mpfss_seed)]
        /\ UNCHANGED <<app, snd, rcv, failures>>
    BY <1>1 DEF ExpandSender, Goto, LocalTypes
  <1>3. /\ pr \in Params /\ pr.vole_seed_size = params[p].vole_seed_size
        /\ pr.generator = params[p].generator
        /\ buckets \in [size : Nat, num : Nat]
    BY <1>1, BucketsType
  <1> HIDE DEF pr, buckets
  <1>4. /\ l \in Locals /\ l.op = loc[p].op /\ l.role = loc[p].role
        /\ l.i = loc[p].i /\ l.size = loc[p].size /\ l.copied = loc[p].copied
        /\ l.final = loc[p].final /\ l.output = loc[p].output
        /\ l.new_vole = loc[p].new_vole /\ l.new_mpfss = loc[p].new_mpfss
    BY <1>1 DEF Locals
  <1> HIDE DEF l
  <1>5. /\ LocalTypes' /\ OnlyParty(p) /\ pc'[p] = "sums" /\ loc'[p] = l
        /\ params'[p] = pr /\ snd'[p] = snd[p] /\ rcv'[p] = rcv[p]
    BY <1>1, <1>2, <1>3, <1>4 DEF LocalTypes, OnlyParty, Counters, Working
  <1>6. Len(snd[p].vole_seed) >= 1
    <2>1. /\ params[p].generator.rows = Len(snd[p].vole_seed)
          /\ params[p].generator.cols = loc[p].output
      BY <1>2 DEF DimensionsMatch, VoleSeed
    <2>2. loc[p].output >= 1
      BY <1>1, <1>2 DEF PartyInv, NextLevel
    <2> QED
      BY <1>1, <2>1, <2>2 DEF PartyInv, Seeded
  <1>7. PartyInv(p)'
    BY <1>1, <1>2, <1>3, <1>4, <1>5, <1>6
    DEF PartyInv, Bootstrapping, NextLevel, Running, Seeded
  <1>8. GlobalTypes'
    <2>1. snd[p].vole_seed \in Vector /\ snd[p].mpfss_seed \in Vector
      BY <1>1 DEF SenderState
    <2>2. used \subseteq Element
      BY <2>1 DEF ToSet, Vector
    <2>3. spent' \in [Parties -> SUBSET Element]
      BY <1>1, <1>2, <2>2 DEF GlobalTypes
    <2> QED
      BY <1>1, <1>2, <2>3 DEF GlobalTypes, app
  <1>9. ChannelInv'
    <2>1. /\ snd[p].vole_seed \in Vector /\ snd[p].mpfss_seed \in Vector
          /\ params[p].generator.id \in Nat
      BY <1>1, ParamsFields DEF SenderState
    <2>2. Sendable(msg)
      BY <1>1, <1>3, <2>1 DEF Sendable, Message
    <2> QED
      BY <1>1, <1>2, <2>2, SendInv
  <1> QED
    BY <1>5, <1>7, <1>8, <1>9, StepInv

\* The Receiver has room for the expansion at the end of its cache.
LEMMA ExpandReceiverInv ==
  ASSUME Inv, NEW p \in Parties, ExpandReceiver(p)
  PROVE  Inv'
  <1> DEFINE pr == [params[p] EXCEPT !.buckets = UpdateBuckets(p, loc[p].output)]
             cached == rcv[p].cached \o Unshared(loc[p].output)
             r == [rcv[p] EXCEPT !.cached = cached]
  <1>1. /\ LocalTypes /\ GlobalTypes /\ ChannelInv /\ PartyInv(p)
        /\ loc[p] \in Locals /\ params[p] \in Params /\ loc[p].output \in Nat
        /\ rcv[p] \in ReceiverState
        /\ loc[p].op # "none" /\ loc[p].role # "none"
    BY InvParts, PartyTypes DEF ExpandReceiver, Locals
  <1>2. /\ pc[p] = "expand" /\ pc' = [pc EXCEPT ![p] = "masked"]
        /\ params' = [params EXCEPT ![p] = pr] /\ rcv' = [rcv EXCEPT ![p] = r]
        /\ UNCHANGED <<app, loc, snd, channel, ghosts>>
    BY <1>1 DEF ExpandReceiver, Goto, LocalTypes
  <1>3. /\ pr \in Params /\ pr.vole_seed_size = params[p].vole_seed_size
        /\ pr.generator = params[p].generator
    BY <1>1, BucketsType
  <1> HIDE DEF pr
  <1>4. cached \in Vector /\ Len(cached) >= loc[p].output
    <2>1. rcv[p].cached \in Vector /\ Len(rcv[p].cached) \in Nat
      BY <1>1 DEF ReceiverState, Vector
    <2>2. /\ Unshared(loc[p].output) \in Vector
          /\ Len(Unshared(loc[p].output)) = loc[p].output
      BY <1>1, NewVectorTypes
    <2> QED
      <3>1. /\ cached \in Vector
            /\ Len(cached) = Len(rcv[p].cached) + Len(Unshared(loc[p].output))
        BY <2>1, <2>2, ConcatType
      <3> HIDE DEF cached
      <3> QED
        BY <1>1, <2>1, <2>2, <3>1
  <1> HIDE DEF cached
  <1>5. r \in ReceiverState /\ r.cached = cached
    BY <1>1, <1>4 DEF ReceiverState
  <1> HIDE DEF r
  <1>6. /\ LocalTypes' /\ OnlyParty(p) /\ pc'[p] = "masked" /\ loc'[p] = loc[p]
        /\ params'[p] = pr /\ snd'[p] = snd[p] /\ rcv'[p] = r
    BY <1>1, <1>2, <1>3, <1>5 DEF LocalTypes, OnlyParty, Counters, Working
  <1>7. PartyInv(p)'
    BY <1>1, <1>2, <1>3, <1>4, <1>5, <1>6
    DEF PartyInv, Bootstrapping, NextLevel, Running, Seeded
  <1>8. GlobalTypes' /\ ChannelInv'
    BY <1>1, <1>2, ChannelUnchanged DEF GlobalTypes, app, ghosts
  <1> QED
    BY <1>6, <1>7, <1>8, StepInv

\* Failing leaves that room, and the seeds, as they are.
LEMMA ExpandReceiverFailsInv ==
  ASSUME Inv, NEW p \in Parties, ExpandReceiverFails(p)
  PROVE  Inv'
  <1>1. /\ LocalTypes /\ GlobalTypes /\ ChannelInv /\ PartyInv(p)
        /\ loc[p].op # "none" /\ loc[p].role # "none"
        /\ pc[p] = "masked" /\ pc' = [pc EXCEPT ![p] = "failed"]
        /\ Arrived(p, "masked") /\ Receive(p)
        /\ UNCHANGED <<app, loc, objects, ghosts>>
    BY InvParts, PartyTypes DEF ExpandReceiverFails, Goto
  <1>2. /\ LocalTypes' /\ OnlyParty(p) /\ pc'[p] = "failed" /\ loc'[p] = loc[p]
        /\ params'[p] = params[p] /\ snd'[p] = snd[p] /\ rcv'[p] = rcv[p]
    BY <1>1 DEF LocalTypes, OnlyParty, Counters, objects
  <1>3. PartyInv(p)'
    BY <1>1, <1>2 DEF PartyInv, Bootstrapping, NextLevel, Running, Seeded
  <1>4. GlobalTypes' /\ ChannelInv'
    BY <1>1, ArrivedTypes, ReceiveInv DEF GlobalTypes, app, ghosts
  <1> QED
    BY <1>2, <1>3, <1>4, StepInv

\* The sizes of the next seeds are those that the expansion was made for.
LEMMA NextParamsType ==
  ASSUME NEW p \in Parties, params[p] \in Params, loc[p] \in Locals,
         ~loc[p].final => loc[p].i + 1 \in Levels
  PROVE  /\ NextParams(p) \in Params
         /\ NextParams(p).vole_seed_size = loc[p].new_vole
         /\ NextParams(p).mpfss_seed_size = loc[p].new_mpfss
         /\ NextParams(p).generator = params[p].generator
  <1> DEFINE noise == IF loc[p].final THEN params[p].num_noise
                      ELSE num_noise_indices[loc[p].i + 1]
  <1>1. /\ noise \in Nat /\ loc[p].new_vole \in Nat /\ loc[p].new_mpfss \in Nat
    <2>1. params[p].num_noise \in Nat
      BY ParamsFields
    <2> QED
      BY <2>1, SizeTypes DEF Locals
  <1>2. NextParams(p) =
          [batch_size |-> params[p].batch_size, vole_seed_size |-> loc[p].new_vole,
           mpfss_seed_size |-> loc[p].new_mpfss, num_noise |-> noise,
           generator |-> params[p].generator, buckets |-> params[p].buckets]
    <2>1. NextParams(p) = [params[p] EXCEPT !.vole_seed_size = loc[p].new_vole,
                             !.mpfss_seed_size = loc[p].new_mpfss,
                             !.num_noise = noise]
      BY ParamsFields DEF NextParams
    <2> HIDE DEF noise
    <2> QED
      BY <2>1, ParamsFields
  <1> HIDE DEF noise
  <1>3. NextParams(p) \in Params
    BY <1>1, <1>2, ParamsFields DEF Params
  <1> QED
    BY <1>2, <1>3

\* After an expansion the sizes are those of the seeds cut from it.
LEMMA AfterExpandInv ==
  ASSUME Inv, NEW p \in Parties, pc[p] \in {"masked", "sums"}, AfterExpand(p),
         snd' \in [Parties -> SenderState], rcv' \in [Parties -> ReceiverState],
         \A q \in Parties \ {p} : snd'[q] = snd[q] /\ rcv'[q] = rcv[q]
  PROVE  LocalTypes' /\ OnlyParty(p) /\ PartyInv(p)'
  <1> DEFINE pr == NextParams(p)
             next == loc[p].i + 1
             l == [loc[p] EXCEPT !.i = next]
  <1>1. /\ LocalTypes /\ PartyInv(p)
        /\ loc[p] \in Locals /\ params[p] \in Params
        /\ loc[p].op # "none" /\ loc[p].role # "none"
        /\ params' = [params EXCEPT ![p] = pr]
    BY InvParts, PartyTypes DEF AfterExpand
  <1>2. ~loc[p].final => /\ next \in Levels /\ loc[p].size >= 1
                         /\ loc[p].new_vole = VoleSize(next)
                         /\ loc[p].new_mpfss = MpfssSize(next)
    BY <1>1 DEF PartyInv, NextLevel
  <1>3. /\ pr \in Params /\ pr.vole_seed_size = loc[p].new_vole
        /\ pr.mpfss_seed_size = loc[p].new_mpfss /\ pr.vole_seed_size >= 1
        /\ pr.generator = params[p].generator
    BY <1>1, <1>2, NextParamsType DEF PartyInv, NextLevel
  <1> HIDE DEF pr, next
  <1>4. CASE loc[p].final /\ Goto(p, "copy") /\ UNCHANGED loc
    <2>1. /\ LocalTypes' /\ OnlyParty(p) /\ pc'[p] = "copy" /\ loc'[p] = loc[p]
          /\ params'[p] = pr
      BY <1>1, <1>3, <1>4 DEF Goto, LocalTypes, OnlyParty, Counters, Working
    <2>2. PartyInv(p)'
      BY <1>1, <1>3, <1>4, <2>1
      DEF PartyInv, Bootstrapping, NextLevel, Running, Seeded
    <2> QED
      BY <2>1, <2>2
  <1>5. CASE ~loc[p].final /\ Goto(p, "loop") /\ loc' = [loc EXCEPT ![p] = l]
    <2>1. /\ l \in Locals /\ l.op = loc[p].op /\ l.role = loc[p].role /\ l.i = next
          /\ l.size = loc[p].size /\ l.copied = loc[p].copied
      BY <1>1, <1>2, <1>5 DEF Locals
    <2> HIDE DEF l
    <2>2. /\ LocalTypes' /\ OnlyParty(p) /\ pc'[p] = "loop" /\ loc'[p] = l
          /\ params'[p] = pr
      BY <1>1, <1>3, <1>5, <2>1 DEF Goto, LocalTypes, OnlyParty, Counters, Working
    <2>3. PartyInv(p)'
      BY <1>1, <1>2, <1>3, <1>5, <2>1, <2>2
      DEF PartyInv, Bootstrapping, NextLevel, Running, Seeded, AtLevel
    <2> QED
      BY <2>2, <2>3
  <1>6. (loc' = [loc EXCEPT ![p].i = @ + 1]) => loc' = [loc EXCEPT ![p] = l]
    BY <1>1 DEF LocalTypes, next
  <1> QED
    BY <1>4, <1>5, <1>6 DEF AfterExpand

\* The Receiver's expansion holds the next seeds.
LEMMA ExpandReceiverDoneInv ==
  ASSUME Inv, NEW p \in Parties, ExpandReceiverDone(p)
  PROVE  Inv'
  <1> DEFINE msg == Head(channel[p])
             made == IF Matches(p, msg)
                     THEN Fresh(rcv[p].mpfss_delta, msg.run, loc[p].output)
                     ELSE Unshared(loc[p].output)
             cached == WithoutTail(rcv[p].cached, loc[p].output) \o made
             r == ReceiverSeeds(rcv[p], cached, loc[p].new_vole, loc[p].new_mpfss)
             sums == [kind |-> "sums", run |-> msg.run]
  <1>1. /\ LocalTypes /\ GlobalTypes /\ ChannelInv /\ PartyInv(p)
        /\ loc[p] \in Locals /\ rcv[p] \in ReceiverState
        /\ pc[p] = "masked" /\ Arrived(p, "masked") /\ AfterExpand(p)
        /\ rcv' = [rcv EXCEPT ![p] = r] /\ Reply(p, sums)
        /\ UNCHANGED <<app, snd, ghosts>>
    BY InvParts, PartyTypes DEF ExpandReceiverDone, LocalTypes
  <1>2. channel[p] # <<>> /\ msg.run \in Nat
    BY <1>1, ArrivedTypes, MessageTypes
  <1> HIDE DEF msg
  <1>3. /\ loc[p].output \in Nat /\ loc[p].new_vole \in Nat /\ loc[p].new_mpfss \in Nat
        /\ loc[p].output >= loc[p].new_vole + loc[p].new_mpfss
        /\ rcv[p].mpfss_delta \in Nat /\ rcv[p].cached \in Vector
        /\ loc[p].output <= Len(rcv[p].cached) /\ Len(rcv[p].cached) \in Nat
    BY <1>1, SMTT(30) DEF Locals, ReceiverState, PartyInv, NextLevel, Seeded, Vector
  <1>4. made \in Vector /\ Len(made) = loc[p].output
    BY <1>2, <1>3, NewVectorTypes
  <1> HIDE DEF made
  <1>5. cached \in Vector /\ Len(cached) >= loc[p].new_vole + loc[p].new_mpfss
    <2>1. /\ WithoutTail(rcv[p].cached, loc[p].output) \in Vector
          /\ Len(WithoutTail(rcv[p].cached, loc[p].output)) >= 0
      BY <1>3, TailType
    <2> QED
      BY <1>3, <1>4, <2>1, ConcatType
  <1> HIDE DEF cached
  <1>6. r \in ReceiverState
    BY <1>1, <1>3, <1>5, ReceiverSeedsType
  <1> HIDE DEF r
  <1>7. /\ snd' \in [Parties -> SenderState] /\ rcv' \in [Parties -> ReceiverState]
        /\ \A q \in Parties \ {p} : snd'[q] = snd[q] /\ rcv'[q] = rcv[q]
    BY <1>1, <1>6 DEF LocalTypes
  <1>8. LocalTypes' /\ OnlyParty(p) /\ PartyInv(p)'
    BY <1>1, <1>7, AfterExpandInv
  <1>9. GlobalTypes'
    BY <1>1 DEF GlobalTypes, app, ghosts
  <1>10. ChannelInv'
    <2>1. Sendable(sums)
      BY <1>2 DEF Sendable, Message
    <2> QED
      BY <1>1, <1>2, <2>1, ReplyInv
  <1> QED
    BY <1>8, <1>9, <1>10, StepInv

\* So does the Sender's.
LEMMA ExpandSenderDoneInv ==
  ASSUME Inv, NEW p \in Parties, ExpandSenderDone(p)
  PROVE  Inv'
  <1> DEFINE delta == snd[p].vole_seed[1][1]
             made == IF Head(channel[p]).run = loc[p].run
                     THEN Fresh(delta, loc[p].run, loc[p].output)
                     ELSE Unshared(loc[p].output)
             cached == snd[p].cached \o made
             s == SenderSeeds(snd[p], cached, loc[p].new_vole, loc[p].new_mpfss)
  <1>1. /\ LocalTypes /\ GlobalTypes /\ ChannelInv /\ PartyInv(p)
        /\ loc[p] \in Locals /\ snd[p] \in SenderState
        /\ pc[p] = "sums" /\ Arrived(p, "sums") /\ AfterExpand(p)
        /\ snd' = [snd EXCEPT ![p] = s] /\ Receive(p)
        /\ UNCHANGED <<app, rcv, ghosts>>
    BY InvParts, PartyTypes DEF ExpandSenderDone, LocalTypes
  <1>2. channel[p] # <<>>
    BY <1>1, ArrivedTypes
  <1>3. /\ loc[p].output \in Nat /\ loc[p].new_vole \in Nat /\ loc[p].new_mpfss \in Nat
        /\ loc[p].run \in Nat
        /\ loc[p].output >= loc[p].new_vole + loc[p].new_mpfss
        /\ snd[p].cached \in Vector /\ Len(snd[p].cached) \in Nat
        /\ snd[p].vole_seed \in Seq(Element) /\ Len(snd[p].vole_seed) >= 1
    BY <1>1 DEF Locals, SenderState, PartyInv, NextLevel, Seeded, Vector
  <1>4. delta \in Nat
    <2>1. snd[p].vole_seed[1] \in Element
      BY <1>3
    <2> QED
      BY <2>1 DEF Element
  <1> HIDE DEF delta
  <1>5. made \in Vector /\ Len(made) = loc[p].output
    BY <1>3, <1>4, NewVectorTypes
  <1> HIDE DEF made
  <1>6. cached \in Vector /\ Len(cached) >= loc[p].new_vole + loc[p].new_mpfss
    BY <1>3, <1>5, ConcatType
  <1> HIDE DEF cached
  <1>7. s \in SenderState
    BY <1>1, <1>3, <1>6, SenderSeedsType
  <1> HIDE DEF s
  <1>8. /\ snd' \in [Parties -> SenderState] /\ rcv' \in [Parties -> ReceiverState]
        /\ \A q \in Parties \ {p} : snd'[q] = snd[q] /\ rcv'[q] = rcv[q]
    BY <1>1, <1>7 DEF LocalTypes
  <1>9. LocalTypes' /\ OnlyParty(p) /\ PartyInv(p)'
    BY <1>1, <1>8, AfterExpandInv
  <1>10. GlobalTypes' /\ ChannelInv'
    BY <1>1, <1>2, ReceiveInv DEF GlobalTypes, app, ghosts
  <1> QED
    BY <1>9, <1>10, StepInv

-----------------------------------------------------------------------------
(* The results of RunSender and RunReceiver.                               *)

\* A Run that finds a precomputation finds seeds.
LEMMA UsePrecomputedInv ==
  ASSUME Inv, NEW p \in Parties, UsePrecomputed(p)
  PROVE  Inv'
  <1>1. /\ LocalTypes /\ GlobalTypes /\ ChannelInv /\ PartyInv(p)
        /\ loc[p] \in Locals /\ loc[p].op # "none" /\ loc[p].role # "none"
        /\ pc[p] = "begin" /\ pc' = [pc EXCEPT ![p] = "fetch"]
        /\ ~NeedsPrecompute(p)
        /\ UNCHANGED <<app, loc, objects, channel, ghosts>>
    BY InvParts, PartyTypes DEF UsePrecomputed, Goto
  <1>2. loc[p].op = "Run" /\ (snd[p].done \/ rcv[p].done)
    BY <1>1 DEF Locals, NeedsPrecompute, Done
  <1>3. /\ LocalTypes' /\ OnlyParty(p) /\ pc'[p] = "fetch" /\ loc'[p] = loc[p]
        /\ params'[p] = params[p] /\ snd'[p] = snd[p] /\ rcv'[p] = rcv[p]
    BY <1>1 DEF LocalTypes, OnlyParty, Counters, Working, objects
  <1>4. PartyInv(p)'
    BY <1>1, <1>2, <1>3 DEF PartyInv, Bootstrapping, NextLevel, Running, Seeded
  <1>5. GlobalTypes' /\ ChannelInv'
    BY <1>1, ChannelUnchanged DEF GlobalTypes, app, ghosts
  <1> QED
    BY <1>3, <1>4, <1>5, StepInv

\* A cache that is too short is left as it is.
LEMMA FetchOutOfRangeInv ==
  ASSUME Inv, NEW p \in Parties, FetchOutOfRange(p)
  PROVE  Inv'
  <1>1. /\ LocalTypes /\ GlobalTypes /\ ChannelInv /\ PartyInv(p)
        /\ loc[p].op # "none" /\ loc[p].role # "none"
        /\ pc[p] = "fetch" /\ pc' = [pc EXCEPT ![p] = "copy"]
        /\ UNCHANGED <<app, loc, objects, channel, ghosts>>
    BY InvParts, PartyTypes DEF FetchOutOfRange, Goto
  <1>2. /\ LocalTypes' /\ OnlyParty(p) /\ pc'[p] = "copy" /\ loc'[p] = loc[p]
        /\ params'[p] = params[p] /\ snd'[p] = snd[p] /\ rcv'[p] = rcv[p]
    BY <1>1 DEF LocalTypes, OnlyParty, Counters, Working, objects
  <1>3. PartyInv(p)'
    BY <1>1, <1>2 DEF PartyInv, Bootstrapping, NextLevel, Running, Seeded
  <1>4. GlobalTypes' /\ ChannelInv'
    BY <1>1, ChannelUnchanged DEF GlobalTypes, app, ghosts
  <1> QED
    BY <1>2, <1>3, <1>4, StepInv

\* SetCached changes the cache of the current role only.
LEMMA SetCachedType ==
  ASSUME LocalTypes, NEW p \in Parties, NEW vec \in Vector, SetCached(p, vec)
  PROVE  /\ snd' \in [Parties -> SenderState] /\ rcv' \in [Parties -> ReceiverState]
         /\ \A q \in Parties \ {p} : snd'[q] = snd[q] /\ rcv'[q] = rcv[q]
  <1>1. CASE IsSender(p)
    BY <1>1 DEF SetCached, LocalTypes, SenderState
  <1>2. CASE ~IsSender(p)
    BY <1>2 DEF SetCached, LocalTypes, ReceiverState
  <1> QED
    BY <1>1, <1>2

\* The cache of the current role.
LEMMA CachedType ==
  ASSUME LocalTypes, NEW p \in Parties
  PROVE  Cached(p) \in Vector /\ Len(Cached(p)) \in Nat
  BY PartyTypes DEF Cached, SenderState, ReceiverState, Vector

\* A call that returns elements and leaves the rest of the cache.
LEMMA ReturnCachedInv ==
  ASSUME Inv, NEW p \in Parties, pc[p] \in {"fetch", "copy"},
         NEW rest \in Vector, NEW elements \in Vector,
         SetCached(p, rest), Return(p, TRUE, elements),
         UNCHANGED <<script, params, channel, ghosts>>
  PROVE  Inv'
  <1>1. /\ LocalTypes /\ GlobalTypes /\ ChannelInv /\ PartyInv(p)
        /\ params[p].vole_seed_size >= 1
    BY InvParts DEF PartyInv, Seeded
  <1>2. /\ LocalTypes' /\ OnlyParty(p) /\ pc'[p] = "idle" /\ loc'[p] = NoCall
        /\ params'[p] = params[p]
    BY <1>1, NoCallType, SetCachedType
    DEF Return, Goto, LocalTypes, OnlyParty, Counters
  <1>3. PartyInv(p)'
    BY <1>1, <1>2, IdleInv DEF PartyInv
  <1>4. GlobalTypes'
    BY <1>1, ReturnResults DEF GlobalTypes, ghosts
  <1>5. ChannelInv'
    BY <1>1, ChannelUnchanged
  <1> QED
    BY <1>2, <1>3, <1>4, <1>5, StepInv

\* The tail that is returned is in the cache.
LEMMA FetchCachedInv ==
  ASSUME Inv, NEW p \in Parties, FetchCached(p)
  PROVE  Inv'
  <1>1. /\ pc[p] = "fetch" /\ Len(Cached(p)) >= loc[p].size
        /\ SetCached(p, WithoutTail(Cached(p), loc[p].size))
        /\ Return(p, TRUE, TailOf(Cached(p), loc[p].size))
        /\ UNCHANGED <<script, params, channel, ghosts>>
    BY DEF FetchCached
  <1>2. loc[p].size \in Nat
    BY <1>1, InvParts DEF PartyInv, Running
  <1>3. /\ WithoutTail(Cached(p), loc[p].size) \in Vector
        /\ TailOf(Cached(p), loc[p].size) \in Vector
    BY <1>1, <1>2, InvParts, CachedType, TailType
  <1> QED
    BY <1>1, <1>3, ReturnCachedInv

\* So is the last part, which is what is missing.
LEMMA CopyRemainingInv ==
  ASSUME Inv, NEW p \in Parties, CopyRemaining(p)
  PROVE  Inv'
  <1> DEFINE remaining == loc[p].size - Len(loc[p].copied)
  <1>1. /\ pc[p] = "copy" /\ Len(Cached(p)) > remaining
        /\ SetCached(p, WithoutTail(Cached(p), remaining))
        /\ Return(p, TRUE, loc[p].copied \o TailOf(Cached(p), remaining))
        /\ UNCHANGED <<script, params, channel, ghosts>>
    BY DEF CopyRemaining
  <1>2. remaining \in Nat /\ loc[p].copied \in Vector
    <2>1. loc[p].copied \in Vector /\ Len(loc[p].copied) \in Nat
      BY InvParts, PartyTypes DEF Locals, Vector
    <2> QED
      BY <1>1, <2>1, InvParts DEF PartyInv, Running
  <1> HIDE DEF remaining
  <1>3. /\ WithoutTail(Cached(p), remaining) \in Vector
        /\ TailOf(Cached(p), remaining) \in Vector
    BY <1>1, <1>2, InvParts, CachedType, TailType
  <1>4. loc[p].copied \o TailOf(Cached(p), remaining) \in Vector
    BY <1>2, <1>3, ConcatType
  <1> QED
    BY <1>1, <1>3, <1>4, ReturnCachedInv

\* What has been copied is never more than was asked for.
LEMMA CopyWholeCacheInv ==
  ASSUME Inv, NEW p \in Parties, CopyWholeCache(p)
  PROVE  Inv'
  <1> DEFINE copied == CopiedAndCached(p)
             output == params[p].batch_size + SeedsLength(p)
             l == [loc[p] EXCEPT !.copied = copied, !.final = TRUE,
                                 !.output = output,
                                 !.new_vole = params[p].vole_seed_size,
                                 !.new_mpfss = params[p].mpfss_seed_size]
  <1>1. /\ LocalTypes /\ GlobalTypes /\ ChannelInv /\ PartyInv(p)
        /\ loc[p] \in Locals /\ params[p] \in Params
        /\ loc[p].op # "none" /\ loc[p].role # "none"
        /\ pc[p] = "copy" /\ Len(copied) <= loc[p].size
        /\ SetCached(p, <<>>) /\ <<>> \in Vector
        /\ UNCHANGED <<script, params, channel, ghosts>>
    BY InvParts, PartyTypes DEF CopyWholeCache, Vector
  <1>2. copied \in Vector
    <2>1. loc[p].copied \in Vector
      BY <1>1 DEF Locals
    <2>2. Cached(p) \in Vector
      BY <1>1, CachedType
    <2> QED
      BY <2>1, <2>2, ConcatType DEF CopiedAndCached
  <1> HIDE DEF copied
  <1>3. CASE Return(p, TRUE, copied)
    BY <1>1, <1>2, <1>3, ReturnCachedInv
  <1>4. CASE /\ loc' = [loc EXCEPT ![p] = l]
             /\ Goto(p, "expand") /\ UNCHANGED results
    <2>1. /\ output \in Nat /\ output >= 1
          /\ output >= params[p].vole_seed_size + params[p].mpfss_seed_size
          /\ params[p].vole_seed_size \in Nat /\ params[p].mpfss_seed_size \in Nat
          /\ params[p].vole_seed_size >= 1
      <3>1. /\ params[p].batch_size \in Nat /\ params[p].vole_seed_size \in Nat
            /\ params[p].mpfss_seed_size \in Nat
        BY <1>1, ParamsFields
      <3>2. params[p].vole_seed_size >= 1
        BY <1>1 DEF PartyInv, Seeded
      <3> QED
        BY <3>1, <3>2 DEF SeedsLength
    <2> HIDE DEF output
    <2>2. /\ l \in Locals /\ l.op = loc[p].op /\ l.role = loc[p].role
          /\ l.i = loc[p].i /\ l.size = loc[p].size /\ l.copied = copied
          /\ l.final /\ l.output = output
          /\ l.new_vole = params[p].vole_seed_size
          /\ l.new_mpfss = params[p].mpfss_seed_size
      BY <1>1, <1>2, <2>1 DEF Locals
    <2> HIDE DEF l
    <2>3. /\ LocalTypes' /\ OnlyParty(p) /\ pc'[p] = "expand" /\ loc'[p] = l
          /\ params'[p] = params[p]
      BY <1>1, <1>4, <2>2, SetCachedType
      DEF Goto, LocalTypes, OnlyParty, Counters, Working
    <2>4. PartyInv(p)'
      BY <1>1, <2>1, <2>2, <2>3
      DEF PartyInv, Bootstrapping, NextLevel, Running, Seeded
    <2>5. GlobalTypes' /\ ChannelInv'
      BY <1>1, <1>4, ChannelUnchanged DEF GlobalTypes, ghosts
    <2> QED
      BY <2>3, <2>4, <2>5, StepInv
  <1>5. (loc' = [loc EXCEPT ![p].copied = copied, ![p].final = TRUE,
                            ![p].output = output,
                            ![p].new_vole = params[p].vole_seed_size,
                            ![p].new_mpfss = params[p].mpfss_seed_size])
          => loc' = [loc EXCEPT ![p] = l]
    BY <1>1 DEF LocalTypes
  <1> QED
    BY <1>3, <1>4, <1>5 DEF CopyWholeCache, copied

-----------------------------------------------------------------------------
(* The invariant and what follows from it.                                 *)

\* Two new objects.
LEMMA InitInv == Init => Inv
  <1> SUFFICES ASSUME Init PROVE Inv
    OBVIOUS
  <1>1. LocalTypes
    BY NoCallType
    DEF Init, LocalTypes, Counters, Construct, Params, NoSender, SenderState,
        NoReceiver, ReceiverState, Vector
  <1>2. GlobalTypes /\ ChannelInv
    BY DEF Init, GlobalTypes, ChannelInv, FirstSeedsSent
  <1>3. ASSUME NEW p \in Parties PROVE PartyInv(p)
    BY <1>3
    DEF Init, PartyInv, Bootstrapping, NextLevel, Running, Seeded, NoCall,
        Construct, NoSender, NoReceiver
  <1> QED
    BY <1>1, <1>2, <1>3, InvParts

\* Inv is inductive.
LEMMA NextInv == Inv /\ [Next]_vars => Inv'
  <1> SUFFICES ASSUME Inv, [Next]_vars PROVE Inv'
    OBVIOUS
  <1>1. ASSUME NEW p \in Parties, NEW c \in Call, Invoke(p, c) PROVE Inv'
    BY <1>1, InvokeInv
  <1>2. ASSUME NEW p \in Parties, Retry(p) PROVE Inv'
    BY <1>2, RetryInv
  <1>3. ASSUME NEW p \in Parties, Step(p) PROVE Inv'
    BY <1>3, RejectBatchSizeInv, PrecomputeSenderInv, PrecomputeReceiverInv,
       GilboaSenderInv, GilboaReceiverInv, BootstrapInv, ChooseBatchSizeInv,
       SendSeedInv, ReceiveSeedInv, ExpandWrongDimensionsInv,
       ExpandSenderFailsInv, ExpandSenderInv, ExpandReceiverInv,
       ExpandReceiverFailsInv, ExpandReceiverDoneInv, ExpandSenderDoneInv,
       UsePrecomputedInv, FetchCachedInv, FetchOutOfRangeInv,
       CopyWholeCacheInv, CopyRemainingInv
    DEF Step
  <1>4. CASE UNCHANGED vars
    BY <1>4
    DEF vars, app, objects, ghosts, Inv, TypeOK, Bootstrapping, NextLevel,
        Running, Seeded, FirstSeedsSent, AtLevel, IsSender
  <1> QED
    BY <1>1, <1>2, <1>3, <1>4 DEF Next

\* Every reachable state has the types of TypeOK and the sizes of Inv.
THEOREM Invariance == Spec => []Inv
  BY InitInv, NextInv, PTL DEF Spec

\* Whatever the parameters, calls, failures and repeated calls: no vector is
\* read or resized past its end, and every level's sizes are parameters.
THEOREM TypeCorrect == Spec => []TypeOK
  <1>1. Inv => TypeOK
    BY DEF Inv
  <1> QED
    BY <1>1, Invariance, PTL

-----------------------------------------------------------------------------
(***************************************************************************)
(* The sizes of an expansion, which three pieces of code set at different  *)
(* times: the lengths of the two seeds (the last expansion in this role),  *)
(* the members that both roles share (the last expansion in any role), and *)
(* the code generator (PrecomputeCommon, before the last expansion that    *)
(* needed a new one).  For all parameters, calls in changing roles,        *)
(* failures and repeated calls: an expansion that gets past the check of   *)
(* the dimensions finds the seeds of one level, and is no longer than that *)
(* level supports (ExpansionFits); and the check passes for an object that *)
(* is used in one role and without failures (DimensionsAgree).             *)
(***************************************************************************)
(* The invariant.                                                          *)

TwoRoles == {"sender", "receiver"}

\* The state of one role.
VoleLen(p, role) ==
  IF role = "sender" THEN Len(snd[p].vole_seed) ELSE Len(rcv[p].vole_seed)
MpfssLen(p, role) ==
  IF role = "sender" THEN Len(snd[p].mpfss_seed) ELSE Len(rcv[p].mpfss_seed)
DoneAs(p, role) == IF role = "sender" THEN snd[p].done ELSE rcv[p].done

\* The two seeds of a role are of the same level.
SeedsOfLevel(p) ==
  \A role \in TwoRoles :
    \/ VoleLen(p, role) = 0
    \/ \E i \in Levels : /\ VoleLen(p, role) = VoleSize(i)
                         /\ MpfssLen(p, role) = MpfssSize(i)

\* What is noted for the seeds is of one level, ...
Level(p, i) == AtLevel(p, i) /\ params[p].num_noise = num_noise_indices[i]

NotedLevel(p) ==
  \/ /\ params[p].vole_seed_size = 0
     /\ pc[p] \in {"idle", "begin"} /\ ~snd[p].done /\ ~rcv[p].done
  \/ \E i \in Levels : Level(p, i)

\* ... and so is the code generator, unless a new one is about to be made.
Renews(p) == pc[p] \in {"gilboa", "loop"}

GeneratorOfLevel(p) ==
  ~Renews(p) =>
    /\ params[p].generator.rows = params[p].vole_seed_size
    /\ \A i \in Levels : Level(p, i) => params[p].generator.cols <= output_size[i]

\* The first expansions go from level to level ...
Climbs(p) ==
  \/ Renews(p)
  \/ pc[p] \in {"seed", "expand", "masked", "sums"} /\ ~loc[p].final

OnTheWay(p) ==
  /\ pc[p] = "begin" \/ Renews(p) => ~loc[p].final
  /\ pc[p] = "sums" => loc[p].role = "sender"
  /\ pc[p] = "masked" => loc[p].role # "sender"
  /\ Climbs(p) => Level(p, loc[p].i) /\ loc[p].i \in Levels
  /\ \/ pc[p] \in {"loop", "seed"}
     \/ pc[p] = "expand" /\ ~loc[p].final
     => VoleLen(p, loc[p].role) = params[p].vole_seed_size
  /\ \/ pc[p] = "seed"
     \/ pc[p] = "expand" /\ ~loc[p].final
     => params[p].generator.cols = loc[p].output

\* ... and the later ones stay at the level that was reached.
Stays(p) ==
  /\ pc[p] = "seed" /\ loc[p].final =>
       loc[p].output = params[p].batch_size + SeedsLength(p)
  /\ pc[p] \in {"expand", "masked", "sums"} /\ loc[p].final =>
       /\ loc[p].output = params[p].batch_size + SeedsLength(p)
       /\ loc[p].new_vole = params[p].vole_seed_size
       /\ loc[p].new_mpfss = params[p].mpfss_seed_size
  /\ \/ pc[p] \in {"fetch", "copy"}
     \/ pc[p] \in {"expand", "masked", "sums"} /\ loc[p].final
     => ~NeedsPrecompute(p)
  /\ Climbs(p) \/ pc[p] = "seed" => NeedsPrecompute(p)

\* A role is that of a call agreed on, and a role that has seeds was in a call.
RoleIn(c, p) == IF c.sender = p THEN "sender" ELSE "receiver"

Called(p) ==
  /\ Len(results[p]) <= Len(script)
  /\ pc[p] # "idle" => /\ NextCall(p) <= Len(script)
                       /\ loc[p].role = RoleIn(script[NextCall(p)], p)
  /\ \A role \in TwoRoles : DoneAs(p, role) =>
       \E k \in 1 .. Len(script) : k <= NextCall(p) /\ role = RoleIn(script[k], p)

\* No call has failed, and all had one role.
Steady(p) ==
  /\ \A k \in 1 .. Len(results[p]) : results[p][k].ok
  /\ \A j, k \in 1 .. Len(script) :
       j <= NextCall(p) /\ k <= NextCall(p) => script[j].sender = script[k].sender

\* An object in one role and without failures keeps the sizes of its generator.
Fit(p, role) ==
  /\ params[p].generator.rows = VoleLen(p, role)
  /\ params[p].generator.cols = params[p].batch_size + SeedsLength(p)

Settled(p) == pc[p] = "idle" \/ ~NeedsPrecompute(p)

StillFits(p) ==
  Steady(p) /\ Settled(p) =>
    \A role \in TwoRoles : DoneAs(p, role) => Fit(p, role)

PartySizes(p) ==
  /\ SeedsOfLevel(p) /\ NotedLevel(p) /\ GeneratorOfLevel(p)
  /\ OnTheWay(p) /\ Stays(p) /\ Called(p) /\ StillFits(p)

SizesInv == \A p \in Parties : PartySizes(p)

-----------------------------------------------------------------------------
(* What an end sees of the calls.                                          *)

\* Undisturbed, without the minimum.
LEMMA UndisturbedSteady ==
  ASSUME Inv, NEW p \in Parties, Undisturbed(p)
  PROVE  Steady(p)
  <1>1. PICK a, b : a = NextCall(p) /\ b = Len(script)
    OBVIOUS
  <1>2. /\ a \in Nat /\ b \in Nat /\ DOMAIN results[p] = 1 .. Len(results[p])
    <2>1. results[p] \in Seq(Result) /\ script \in Seq(Call)
      BY StateFunctions
    <2> QED
      BY <1>1, <2>1 DEF NextCall
  <1>3. Min({a, b}) \in {a, b} /\ Min({a, b}) =< a /\ Min({a, b}) =< b
    <2>1. \E i \in {a, b} : \A j \in {a, b} : i =< j
      BY <1>2
    <2> QED
      BY <2>1 DEF Min
  <1>4. \A k : k \in 1 .. Min({a, b}) <=> k \in 1 .. b /\ k <= a
    BY <1>2, <1>3
  <1> QED
    BY <1>1, <1>2, <1>4 DEF Undisturbed, Steady

\* What has been agreed on stays, and the results of an end too.
ScriptGrows ==
  /\ Len(script) \in Nat /\ Len(script') \in Nat
  /\ Len(script) <= Len(script') /\ \A k \in 1 .. Len(script) : script'[k] = script[k]

ResultsGrow(p) ==
  /\ Len(results[p]) \in Nat /\ Len(results'[p]) \in Nat
  /\ Len(results[p]) <= Len(results'[p])
  /\ \A k \in 1 .. Len(results[p]) : results'[p][k] = results[p][k]

\* What is steady after a step was steady before it.
LEMMA SteadyBefore ==
  ASSUME NEW p \in Parties, ScriptGrows, ResultsGrow(p), Steady(p)'
  PROVE  Steady(p)
  <1>1. \A k \in 1 .. Len(results[p]) : results[p][k].ok
    BY DEF ResultsGrow, Steady
  <1>2. ASSUME NEW j \in 1 .. Len(script), NEW k \in 1 .. Len(script),
               j <= NextCall(p), k <= NextCall(p)
        PROVE  script[j].sender = script[k].sender
    <2>1. /\ j \in 1 .. Len(script') /\ k \in 1 .. Len(script')
          /\ j <= NextCall(p)' /\ k <= NextCall(p)'
          /\ script'[j] = script[j] /\ script'[k] = script[k]
      BY <1>2 DEF ScriptGrows, ResultsGrow, NextCall
    <2> QED
      BY <2>1 DEF Steady
  <1> QED
    BY <1>1, <1>2 DEF Steady

\* Within a call of such an object, only its own role can have seeds.
LEMMA OneRole ==
  ASSUME Inv, NEW p \in Parties, Called(p), Steady(p), pc[p] # "idle",
         NEW role \in TwoRoles, DoneAs(p, role)
  PROVE  role = loc[p].role
  <1>1. PICK k \in 1 .. Len(script) : k <= NextCall(p) /\ role = RoleIn(script[k], p)
    BY DEF Called
  <1>2. PICK n : n = NextCall(p)
    OBVIOUS
  <1>3. n <= Len(script) /\ loc[p].role = RoleIn(script[n], p) /\ n \in 1 .. Len(script)
    <2>1. results[p] \in Seq(Result) /\ script \in Seq(Call)
      BY StateFunctions
    <2>2. Len(results[p]) \in Nat /\ Len(script) \in Nat
      BY <2>1
    <2> QED
      BY <1>2, <2>2 DEF Called, NextCall
  <1>4. script[k].sender = script[n].sender
    <2>1. n <= NextCall(p)
      BY <1>2, <1>3
    <2> QED
      BY <1>1, <1>3, <2>1 DEF Steady
  <1> QED
    BY <1>1, <1>3, <1>4 DEF RoleIn

\* A step within a call, after which the role of the call may have seeds.
LEMMA CalledWithin ==
  ASSUME Inv, NEW p \in Parties, Called(p), pc[p] # "idle",
         results'[p] = results[p], script' = script, loc'[p].role = loc[p].role,
         \A role \in TwoRoles : DoneAs(p, role)' => DoneAs(p, role) \/ role = loc[p].role
  PROVE  Called(p)'
  <1>1. PICK n : n = NextCall(p)
    OBVIOUS
  <1>2. n \in 1 .. Len(script) /\ n <= NextCall(p) /\ loc[p].role = RoleIn(script[n], p)
    <2>1. results[p] \in Seq(Result) /\ script \in Seq(Call)
      BY StateFunctions
    <2>2. Len(results[p]) \in Nat /\ Len(script) \in Nat
      BY <2>1
    <2> QED
      BY <1>1, <2>2 DEF Called, NextCall
  <1>3. NextCall(p)' = NextCall(p) /\ \A k : RoleIn(script[k], p)' = RoleIn(script[k], p)
    BY DEF NextCall, RoleIn
  <1>4. ASSUME NEW role \in TwoRoles, DoneAs(p, role)'
        PROVE  \E k \in 1 .. Len(script) : k <= NextCall(p) /\ role = RoleIn(script[k], p)
    <2>1. CASE DoneAs(p, role)
      BY <2>1 DEF Called
    <2>2. CASE role = loc[p].role
      BY <1>2, <2>2
    <2> QED
      BY <1>4, <2>1, <2>2
  <1>5. Len(results[p]) <= Len(script)
    BY DEF Called
  <1>6. NextCall(p) <= Len(script) /\ loc[p].role = RoleIn(script[NextCall(p)], p)
    BY DEF Called
  <1> QED
    BY <1>3, <1>4, <1>5, <1>6 DEF Called, RoleIn

\* A call returns.
Returns(p, ok) ==
  /\ results'[p] # results[p] /\ Len(results[p]) \in Nat
  /\ Len(results'[p]) = Len(results[p]) + 1
  /\ \A k \in 1 .. Len(results[p]) : results'[p][k] = results[p][k]
  /\ results'[p][Len(results[p]) + 1].ok = ok
  /\ pc'[p] = "idle" /\ loc'[p] = NoCall
  /\ \A q \in Parties : q # p => results'[q] = results[q] /\ pc'[q] = pc[q] /\ loc'[q] = loc[q]

\* Return appends one result and ends the call.
LEMMA ReturnReturns ==
  ASSUME Inv, NEW p \in Parties, NEW ok, NEW elements, Return(p, ok, elements)
  PROVE  Returns(p, ok)
  <1>1. PICK r : /\ results' = [results EXCEPT ![p] = Append(@, r)] /\ r.ok = ok
    <2>1. PICK r : r = [op |-> loc[p].op, role |-> loc[p].role, ok |-> ok,
                        elements |-> elements,
                        delta |-> IF loc[p].role = "receiver" THEN rcv[p].delta ELSE 0]
      OBVIOUS
    <2>2. r.ok = ok
      BY <2>1
    <2>3. results' = [results EXCEPT ![p] = Append(@, r)]
      BY <2>1 DEF Return
    <2> QED
      BY <2>2, <2>3
  <1>2. /\ results'[p] = Append(results[p], r)
        /\ \A q \in Parties : q # p => results'[q] = results[q]
    BY <1>1, StateFunctions
  <1>3. PICK s : s = results[p]
    OBVIOUS
  <1>4. s \in Seq(Result)
    BY <1>3, StateFunctions
  <1>5. /\ Len(s) \in Nat /\ Len(Append(s, r)) = Len(s) + 1 /\ Append(s, r)[Len(s) + 1] = r
        /\ \A k \in 1 .. Len(s) : Append(s, r)[k] = s[k]
    BY <1>4
  <1>6. Append(s, r) # s
    BY <1>5
  <1>7. /\ pc'[p] = "idle" /\ loc'[p] = NoCall
        /\ \A q \in Parties : q # p => pc'[q] = pc[q] /\ loc'[q] = loc[q]
    BY StateFunctions DEF Return, Goto, Counters
  <1> QED
    BY <1>1, <1>2, <1>3, <1>5, <1>6, <1>7 DEF Returns

\* A call that was agreed on returns.
LEMMA CalledReturns ==
  ASSUME Inv, NEW p \in Parties, Called(p), pc[p] # "idle", NEW ok, Returns(p, ok),
         script' = script,
         \A role \in TwoRoles : DoneAs(p, role)' => DoneAs(p, role) \/ role = loc[p].role
  PROVE  Called(p)' /\ ScriptGrows /\ ResultsGrow(p) /\ (Steady(p)' => ok)
  <1>1. PICK n : n = Len(results[p])
    OBVIOUS
  <1>2. script \in Seq(Call)
    BY StateFunctions
  <1>3. /\ n \in Nat /\ Len(script) \in Nat /\ NextCall(p) = n + 1
        /\ Len(results'[p]) = n + 1 /\ NextCall(p)' = n + 2 /\ n + 1 <= Len(script)
        /\ loc[p].role = RoleIn(script[n + 1], p)
    BY <1>1, <1>2 DEF Returns, NextCall, Called
  <1>4. ASSUME NEW role \in TwoRoles, DoneAs(p, role)'
        PROVE  \E k \in 1 .. Len(script) : k <= n + 2 /\ role = RoleIn(script[k], p)
    <2>1. CASE DoneAs(p, role)
      <3>1. PICK k \in 1 .. Len(script) : k <= NextCall(p) /\ role = RoleIn(script[k], p)
        BY <2>1 DEF Called
      <3> QED
        BY <1>3, <3>1
    <2>2. CASE role = loc[p].role
      <3>1. n + 1 \in 1 .. Len(script) /\ n + 1 <= n + 2
        BY <1>3
      <3> QED
        BY <1>3, <2>2, <3>1
    <2> QED
      BY <1>4, <2>1, <2>2
  <1>5. Called(p)'
    BY <1>3, <1>4 DEF Called, Returns, RoleIn
  <1>6. ScriptGrows /\ ResultsGrow(p)
    BY <1>1, <1>3 DEF ScriptGrows, ResultsGrow, Returns
  <1>7. ASSUME Steady(p)' PROVE ok
    <2>1. results'[p][n + 1].ok
      BY <1>3, <1>7 DEF Steady
    <2> QED
      BY <1>1, <2>1 DEF Returns
  <1> QED
    BY <1>5, <1>6, <1>7

-----------------------------------------------------------------------------
(* Frames.                                                                 *)

\* An end whose state stays the same keeps its part, whoever agrees on calls.
LEMMA OtherSizes ==
  ASSUME Inv, NEW q \in Parties, PartySizes(q), ScriptGrows,
         pc'[q] = pc[q], loc'[q] = loc[q], params'[q] = params[q],
         snd'[q] = snd[q], rcv'[q] = rcv[q], results'[q] = results[q]
  PROVE  PartySizes(q)'
  <1>1. SeedsOfLevel(q)' /\ NotedLevel(q)' /\ GeneratorOfLevel(q)'
    BY DEF PartySizes, SeedsOfLevel, NotedLevel, GeneratorOfLevel, VoleLen, MpfssLen,
           Level, AtLevel, Renews
  <1>2. OnTheWay(q)'
    BY DEF PartySizes, OnTheWay, Climbs, Renews, VoleLen, Level, AtLevel
  <1>3. Stays(q)'
    BY DEF PartySizes, Stays, Climbs, Renews, SeedsLength, NeedsPrecompute, Done, IsSender
  <1>4. Called(q)'
    <2>1. /\ NextCall(q)' = NextCall(q)
          /\ \A role : DoneAs(q, role)' = DoneAs(q, role)
      BY DEF NextCall, DoneAs
    <2>2. /\ Len(results[q]) <= Len(script)
          /\ pc[q] # "idle" => /\ NextCall(q) <= Len(script)
                               /\ loc[q].role = RoleIn(script[NextCall(q)], q)
          /\ \A role \in TwoRoles : DoneAs(q, role) =>
               \E k \in 1 .. Len(script) : k <= NextCall(q) /\ role = RoleIn(script[k], q)
      BY DEF PartySizes, Called
    <2>3. results[q] \in Seq(Result) /\ Len(results[q]) \in Nat
      BY StateFunctions
    <2>4. /\ Len(script) \in Nat /\ Len(script') \in Nat /\ Len(script) <= Len(script')
          /\ \A k \in 1 .. Len(script) : script'[k] = script[k]
      BY DEF ScriptGrows
    <2>5. NextCall(q) \in Nat \ {0}
      BY <2>3 DEF NextCall
    <2>6. \A role \in TwoRoles : DoneAs(q, role) =>
            \E k \in 1 .. Len(script') : k <= NextCall(q) /\ role = RoleIn(script'[k], q)
      <3> SUFFICES ASSUME NEW role \in TwoRoles, DoneAs(q, role)
                   PROVE  \E k \in 1 .. Len(script') :
                            k <= NextCall(q) /\ role = RoleIn(script'[k], q)
        OBVIOUS
      <3>1. PICK k \in 1 .. Len(script) : k <= NextCall(q) /\ role = RoleIn(script[k], q)
        BY <2>2
      <3>2. k \in 1 .. Len(script') /\ script'[k] = script[k]
        BY <2>4
      <3> QED
        BY <3>1, <3>2
    <2>7. pc[q] # "idle" => /\ NextCall(q) <= Len(script')
                            /\ loc[q].role = RoleIn(script'[NextCall(q)], q)
      BY <2>2, <2>4, <2>5
    <2>8. Len(results[q]) <= Len(script')
      BY <2>2, <2>3, <2>4
    <2> QED
      BY <2>1, <2>6, <2>7, <2>8 DEF Called, RoleIn
  <1>5. StillFits(q)'
    <2>1. /\ Settled(q)' = Settled(q)
          /\ \A role : DoneAs(q, role)' = DoneAs(q, role) /\ Fit(q, role)' = Fit(q, role)
      BY DEF Settled, NeedsPrecompute, Done, IsSender, DoneAs, Fit, VoleLen, SeedsLength
    <2>2. Steady(q)' => Steady(q)
      <3>1. Len(results[q]) \in Nat
        BY StateFunctions
      <3> QED
        BY <3>1, SteadyBefore DEF ResultsGrow
    <2> QED
      BY <2>1, <2>2 DEF PartySizes, StillFits
  <1> QED
    BY <1>1, <1>2, <1>3, <1>4, <1>5 DEF PartySizes

\* A step that leaves the sizes of p alone.
SameSizes(p) ==
  /\ params'[p].batch_size = params[p].batch_size
  /\ params'[p].vole_seed_size = params[p].vole_seed_size
  /\ params'[p].mpfss_seed_size = params[p].mpfss_seed_size
  /\ params'[p].num_noise = params[p].num_noise
  /\ params'[p].generator.rows = params[p].generator.rows
  /\ params'[p].generator.cols = params[p].generator.cols
  /\ snd'[p].vole_seed = snd[p].vole_seed /\ snd'[p].mpfss_seed = snd[p].mpfss_seed
  /\ rcv'[p].vole_seed = rcv[p].vole_seed /\ rcv'[p].mpfss_seed = rcv[p].mpfss_seed
  /\ snd'[p].done = snd[p].done /\ rcv'[p].done = rcv[p].done

\* A step that leaves the sizes alone leaves all that is said of them.
LEMMA SameViews ==
  ASSUME NEW p \in Parties, SameSizes(p)
  PROVE  /\ \A role : /\ VoleLen(p, role)' = VoleLen(p, role)
                      /\ MpfssLen(p, role)' = MpfssLen(p, role)
                      /\ DoneAs(p, role)' = DoneAs(p, role)
                      /\ Fit(p, role)' = Fit(p, role)
         /\ \A i : Level(p, i)' = Level(p, i)
         /\ SeedsLength(p)' = SeedsLength(p)
         /\ SeedsOfLevel(p) => SeedsOfLevel(p)'
  BY DEF SameSizes, VoleLen, MpfssLen, DoneAs, Fit, Level, AtLevel, SeedsLength, SeedsOfLevel

-----------------------------------------------------------------------------
(* Steps that leave the sizes alone.                                       *)

\* A call returns, with success only where it returns elements.
LEMMA QuietReturn ==
  ASSUME Inv, NEW p \in Parties, PartySizes(p), SameSizes(p),
         pc[p] \in {"begin", "seed", "expand", "fetch", "copy"},
         NEW ok \in BOOLEAN, Returns(p, ok), ok => pc[p] \in {"fetch", "copy"},
         script' = script
  PROVE  PartySizes(p)'
  <1>1. /\ \A role : /\ VoleLen(p, role)' = VoleLen(p, role)
                     /\ DoneAs(p, role)' = DoneAs(p, role)
                     /\ Fit(p, role)' = Fit(p, role)
        /\ \A i : Level(p, i)' = Level(p, i)
        /\ SeedsOfLevel(p)'
    BY SameViews DEF PartySizes
  <1>2. pc'[p] = "idle" /\ loc'[p] = NoCall
    BY DEF Returns
  <1>3. Called(p)' /\ ScriptGrows /\ ResultsGrow(p) /\ (Steady(p)' => ok)
    BY <1>1, CalledReturns DEF PartySizes
  <1>4. NotedLevel(p)'
    BY <1>1, <1>2 DEF PartySizes, NotedLevel, SameSizes
  <1>5. GeneratorOfLevel(p)'
    BY <1>1, <1>2 DEF PartySizes, GeneratorOfLevel, Renews, SameSizes
  <1>6. OnTheWay(p)' /\ Stays(p)'
    BY <1>2 DEF OnTheWay, Stays, Climbs, Renews
  <1>7. StillFits(p)'
    <2>1. SUFFICES ASSUME Steady(p)', NEW role \in TwoRoles, DoneAs(p, role)'
                   PROVE  Fit(p, role)'
      BY DEF StillFits
    <2>2. Steady(p) /\ Settled(p)
      BY <1>3, <2>1, SteadyBefore DEF PartySizes, Stays, Settled
    <2> QED
      BY <1>1, <2>1, <2>2 DEF PartySizes, StillFits
  <1> QED
    BY <1>1, <1>3, <1>4, <1>5, <1>6, <1>7 DEF PartySizes

\* A step within a call.
LEMMA QuietStep ==
  ASSUME Inv, NEW p \in Parties, PartySizes(p), SameSizes(p),
         pc[p] \in {"begin", "seed", "expand", "masked", "fetch", "copy", "failed"},
         pc'[p] \notin {"idle", "gilboa", "loop"},
         pc[p] = "begin" => snd[p].done \/ rcv[p].done,
         script' = script, results'[p] = results[p],
         loc'[p].op = loc[p].op, loc'[p].role = loc[p].role,
         OnTheWay(p)', Stays(p)'
  PROVE  PartySizes(p)'
  <1>1. /\ \A role : /\ VoleLen(p, role)' = VoleLen(p, role)
                     /\ DoneAs(p, role)' = DoneAs(p, role)
                     /\ Fit(p, role)' = Fit(p, role)
        /\ \A i : Level(p, i)' = Level(p, i)
        /\ SeedsOfLevel(p)'
    BY SameViews DEF PartySizes
  <1>2. Called(p)'
    BY <1>1, CalledWithin DEF PartySizes
  <1>3. NotedLevel(p)'
    BY <1>1 DEF PartySizes, NotedLevel, SameSizes
  <1>4. GeneratorOfLevel(p)'
    BY <1>1 DEF PartySizes, GeneratorOfLevel, Renews, SameSizes
  <1>5. StillFits(p)'
    <2>1. SUFFICES ASSUME Steady(p)', Settled(p)', NEW role \in TwoRoles, DoneAs(p, role)'
                   PROVE  Fit(p, role)'
      BY DEF StillFits
    <2>2. Steady(p)
      BY <2>1 DEF Steady, NextCall
    <2>3. Settled(p)
      BY <2>1 DEF Settled, NeedsPrecompute, Done, IsSender, SameSizes
    <2> QED
      BY <1>1, <2>1, <2>2, <2>3 DEF PartySizes, StillFits
  <1> QED
    BY <1>1, <1>2, <1>3, <1>4, <1>5 DEF PartySizes

\* Done is that of the role of the call.
LEMMA DoneRole ==
  ASSUME NEW p \in Parties
  PROVE  /\ Done(p) = DoneAs(p, loc[p].role)
         /\ Len(VoleSeed(p)) = VoleLen(p, loc[p].role)
         /\ Len(MpfssSeed(p)) = MpfssLen(p, loc[p].role)
  BY DEF Done, IsSender, DoneAs, VoleSeed, VoleLen, MpfssSeed, MpfssLen

\* The parts of the other end.
LEMMA OnlySizes ==
  ASSUME Inv, NEW p \in Parties, SizesInv, PartySizes(p)', ScriptGrows,
         \A q \in Parties : q # p =>
           /\ pc'[q] = pc[q] /\ loc'[q] = loc[q] /\ params'[q] = params[q]
           /\ snd'[q] = snd[q] /\ rcv'[q] = rcv[q] /\ results'[q] = results[q]
  PROVE  SizesInv'
  <1>1. ASSUME NEW q \in Parties, q # p PROVE PartySizes(q)'
    BY <1>1, OtherSizes DEF SizesInv
  <1> QED
    BY <1>1 DEF SizesInv

\* No call is agreed on.
LEMMA SameScript ==
  ASSUME Inv, script' = script
  PROVE  ScriptGrows
  <1>1. script \in Seq(Call)
    BY StateFunctions
  <1> QED
    BY <1>1 DEF ScriptGrows

\* The calls that return at once, and those that return what is in the cache.
LEMMA RejectBatchSizeSizes ==
  ASSUME Inv, SizesInv, NEW p \in Parties, RejectBatchSize(p)
  PROVE  SizesInv'
  <1>1. pc[p] = "begin" /\ Returns(p, FALSE) /\ SameSizes(p) /\ script' = script
    BY ReturnReturns DEF RejectBatchSize, ReturnError, SameSizes, objects
  <1>2. PartySizes(p)'
    BY <1>1, QuietReturn DEF SizesInv
  <1> QED
    BY <1>1, <1>2, SameScript, OnlySizes DEF RejectBatchSize, objects, Returns

\* An expansion that is refused.
LEMMA ExpandWrongDimensionsSizes ==
  ASSUME Inv, SizesInv, NEW p \in Parties, ExpandWrongDimensions(p)
  PROVE  SizesInv'
  <1>1. pc[p] = "expand" /\ Returns(p, FALSE) /\ SameSizes(p) /\ script' = script
    BY ReturnReturns DEF ExpandWrongDimensions, ReturnError, SameSizes, objects
  <1>2. PartySizes(p)'
    BY <1>1, QuietReturn DEF SizesInv
  <1> QED
    BY <1>1, <1>2, SameScript, OnlySizes DEF ExpandWrongDimensions, objects, Returns

\* Setting the cache leaves the seeds.
LEMMA SetCachedSizes ==
  ASSUME Inv, NEW p \in Parties, NEW vec, SetCached(p, vec), params' = params
  PROVE  /\ SameSizes(p)
         /\ \A q \in Parties : q # p => snd'[q] = snd[q] /\ rcv'[q] = rcv[q]
  <1>1. snd \in [Parties -> SenderState] /\ rcv \in [Parties -> ReceiverState]
    BY StateFunctions
  <1>2. CASE IsSender(p)
    BY <1>1, <1>2 DEF SetCached, SameSizes, SenderState
  <1>3. CASE ~IsSender(p)
    BY <1>1, <1>3 DEF SetCached, SameSizes, ReceiverState
  <1> QED
    BY <1>2, <1>3

\* A run that returns elements, and shortens the cache.
LEMMA ReturnCachedSizes ==
  ASSUME Inv, SizesInv, NEW p \in Parties, pc[p] \in {"fetch", "copy"},
         NEW rest, NEW elements, SetCached(p, rest), Return(p, TRUE, elements),
         UNCHANGED <<script, params>>
  PROVE  SizesInv'
  <1>1. Returns(p, TRUE) /\ SameSizes(p) /\ script' = script
    BY ReturnReturns, SetCachedSizes
  <1>2. PartySizes(p)'
    BY <1>1, QuietReturn DEF SizesInv
  <1>3. \A q \in Parties : q # p => snd'[q] = snd[q] /\ rcv'[q] = rcv[q]
    BY SetCachedSizes
  <1> QED
    BY <1>1, <1>2, <1>3, SameScript, OnlySizes DEF Returns

\* A run served from the cache.
LEMMA FetchCachedSizes ==
  ASSUME Inv, SizesInv, NEW p \in Parties, FetchCached(p)
  PROVE  SizesInv'
  BY ReturnCachedSizes DEF FetchCached

\* A run that takes what is missing from the cache.
LEMMA CopyRemainingSizes ==
  ASSUME Inv, SizesInv, NEW p \in Parties, CopyRemaining(p)
  PROVE  SizesInv'
  BY ReturnCachedSizes DEF CopyRemaining

\* A further expansion is of the size that was chosen last.
LEMMA CopyWholeCacheSizes ==
  ASSUME Inv, SizesInv, NEW p \in Parties, CopyWholeCache(p)
  PROVE  SizesInv'
  <1>1. pc[p] = "copy" /\ SetCached(p, <<>>) /\ UNCHANGED <<script, params>>
    BY DEF CopyWholeCache
  <1>2. CASE Return(p, TRUE, CopiedAndCached(p))
    BY <1>1, <1>2, ReturnCachedSizes
  <1>3. CASE /\ loc' = [loc EXCEPT ![p].copied = CopiedAndCached(p),
                                   ![p].final = TRUE,
                                   ![p].output = params[p].batch_size + SeedsLength(p),
                                   ![p].new_vole = params[p].vole_seed_size,
                                   ![p].new_mpfss = params[p].mpfss_seed_size]
             /\ Goto(p, "expand") /\ UNCHANGED results
    <2>1. SameSizes(p) /\ \A q \in Parties : q # p => snd'[q] = snd[q] /\ rcv'[q] = rcv[q]
      BY <1>1, SetCachedSizes
    <2>2. pc \in Counters /\ loc \in [Parties -> Locals]
      BY StateFunctions
    <2>3. /\ pc'[p] = "expand" /\ loc'[p].op = loc[p].op /\ loc'[p].role = loc[p].role
          /\ loc'[p].final /\ loc'[p].output = params[p].batch_size + SeedsLength(p)
          /\ loc'[p].new_vole = params[p].vole_seed_size
          /\ loc'[p].new_mpfss = params[p].mpfss_seed_size
          /\ \A q \in Parties : q # p => pc'[q] = pc[q] /\ loc'[q] = loc[q]
      BY <1>3, <2>2 DEF Goto, Counters, Locals
    <2>4. ~NeedsPrecompute(p)'
      BY <1>1, <2>1, <2>3
      DEF SizesInv, PartySizes, Stays, NeedsPrecompute, Done, IsSender, SameSizes
    <2>5. OnTheWay(p)' /\ Stays(p)'
      BY <1>1, <2>1, <2>3, <2>4 DEF OnTheWay, Stays, Climbs, Renews, SeedsLength, SameSizes
    <2>6. PartySizes(p)'
      BY <1>1, <1>3, <2>1, <2>3, <2>5, QuietStep DEF SizesInv
    <2> QED
      BY <1>1, <1>3, <2>1, <2>3, <2>6, SameScript, OnlySizes
  <1> QED
    BY <1>2, <1>3 DEF CopyWholeCache

\* The steps within a call that leave the sizes alone.
LEMMA UsePrecomputedSizes ==
  ASSUME Inv, SizesInv, NEW p \in Parties, UsePrecomputed(p)
  PROVE  SizesInv'
  <1>1. /\ pc[p] = "begin" /\ ~NeedsPrecompute(p) /\ pc' = [pc EXCEPT ![p] = "fetch"]
        /\ SameSizes(p) /\ UNCHANGED <<script, results, loc, params, snd, rcv>>
    BY DEF UsePrecomputed, Goto, SameSizes, objects, app
  <1>2. pc'[p] = "fetch" /\ \A q \in Parties : q # p => pc'[q] = pc[q]
    BY <1>1, StateFunctions DEF Counters
  <1>3. ~NeedsPrecompute(p)' /\ (snd[p].done \/ rcv[p].done)
    BY <1>1 DEF NeedsPrecompute, Done, IsSender
  <1>4. OnTheWay(p)' /\ Stays(p)'
    BY <1>2, <1>3 DEF OnTheWay, Stays, Climbs, Renews
  <1>5. PartySizes(p)'
    BY <1>1, <1>2, <1>3, <1>4, QuietStep DEF SizesInv
  <1> QED
    BY <1>1, <1>2, <1>5, SameScript, OnlySizes

\* A run for which the cache is too short.
LEMMA FetchOutOfRangeSizes ==
  ASSUME Inv, SizesInv, NEW p \in Parties, FetchOutOfRange(p)
  PROVE  SizesInv'
  <1>1. /\ pc[p] = "fetch" /\ pc' = [pc EXCEPT ![p] = "copy"]
        /\ SameSizes(p) /\ UNCHANGED <<script, results, loc, params, snd, rcv>>
    BY DEF FetchOutOfRange, Goto, SameSizes, objects, app
  <1>2. pc'[p] = "copy" /\ \A q \in Parties : q # p => pc'[q] = pc[q]
    BY <1>1, StateFunctions DEF Counters
  <1>3. ~NeedsPrecompute(p)'
    BY <1>1 DEF SizesInv, PartySizes, Stays, NeedsPrecompute, Done, IsSender
  <1>4. OnTheWay(p)' /\ Stays(p)'
    BY <1>2, <1>3 DEF OnTheWay, Stays, Climbs, Renews
  <1>5. PartySizes(p)'
    BY <1>1, <1>2, <1>4, QuietStep DEF SizesInv
  <1> QED
    BY <1>1, <1>2, <1>5, SameScript, OnlySizes

\* Entering MPFSS, and failing there.
LEMMA ExpandingSizes ==
  ASSUME Inv, SizesInv, NEW p \in Parties, SameSizes(p),
         \/ pc[p] = "expand" /\ pc'[p] \in {"masked", "sums", "failed"}
         \/ pc[p] = "masked" /\ pc'[p] = "failed",
         pc'[p] = "sums" => IsSender(p), pc'[p] = "masked" => ~IsSender(p),
         UNCHANGED <<script, results>>,
         loc'[p].op = loc[p].op, loc'[p].role = loc[p].role, loc'[p].i = loc[p].i,
         loc'[p].final = loc[p].final, loc'[p].output = loc[p].output,
         loc'[p].new_vole = loc[p].new_vole, loc'[p].new_mpfss = loc[p].new_mpfss,
         \A q \in Parties : q # p =>
           /\ pc'[q] = pc[q] /\ loc'[q] = loc[q] /\ params'[q] = params[q]
           /\ snd'[q] = snd[q] /\ rcv'[q] = rcv[q]
  PROVE  SizesInv'
  <1>1. /\ \A i : Level(p, i)' = Level(p, i)
        /\ SeedsLength(p)' = SeedsLength(p) /\ NeedsPrecompute(p)' = NeedsPrecompute(p)
    BY SameViews DEF NeedsPrecompute, Done, IsSender, SameSizes
  <1>2. PartySizes(p)
    BY DEF SizesInv
  <1>3. OnTheWay(p)'
    BY <1>1, <1>2 DEF PartySizes, OnTheWay, Climbs, Renews, IsSender
  <1>4. Stays(p)'
    BY <1>1, <1>2 DEF PartySizes, Stays, Climbs, Renews, SameSizes
  <1>5. PartySizes(p)'
    BY <1>2, <1>3, <1>4, QuietStep
  <1> QED
    BY <1>5, SameScript, OnlySizes

\* HashCuckoo finds no placement.
LEMMA ExpandSenderFailsSizes ==
  ASSUME Inv, SizesInv, NEW p \in Parties, ExpandSenderFails(p)
  PROVE  SizesInv'
  <1>1. pc \in Counters /\ params \in [Parties -> Params]
    BY StateFunctions
  <1>2. /\ pc[p] = "expand" /\ pc'[p] = "failed"
        /\ \A q \in Parties : q # p => pc'[q] = pc[q] /\ params'[q] = params[q]
        /\ UNCHANGED <<script, results, loc, snd, rcv>>
    BY <1>1 DEF ExpandSenderFails, Goto, Counters, app
  <1>3. SameSizes(p)
    BY <1>1, <1>2 DEF ExpandSenderFails, SameSizes, Params
  <1> QED
    BY <1>2, <1>3, ExpandingSizes

\* SendTrees has too few bits.
LEMMA ExpandReceiverFailsSizes ==
  ASSUME Inv, SizesInv, NEW p \in Parties, ExpandReceiverFails(p)
  PROVE  SizesInv'
  <1>1. pc \in Counters
    BY StateFunctions
  <1>2. /\ pc[p] = "masked" /\ pc'[p] = "failed" /\ SameSizes(p)
        /\ \A q \in Parties : q # p => pc'[q] = pc[q]
        /\ UNCHANGED <<script, results, loc, params, snd, rcv>>
    BY <1>1 DEF ExpandReceiverFails, Goto, Counters, app, objects, SameSizes
  <1> QED
    BY <1>2, ExpandingSizes

\* The Sender enters MPFSS.
LEMMA ExpandSenderSizes ==
  ASSUME Inv, SizesInv, NEW p \in Parties, ExpandSender(p)
  PROVE  SizesInv'
  <1>1. pc \in Counters /\ params \in [Parties -> Params] /\ loc \in [Parties -> Locals]
    BY StateFunctions
  <1>2. /\ pc[p] = "expand" /\ pc'[p] = "sums" /\ IsSender(p)
        /\ params' = [params EXCEPT ![p].buckets = UpdateBuckets(p, loc[p].output)]
        /\ loc' = [loc EXCEPT ![p].run = serial + 1]
        /\ \A q \in Parties : q # p =>
             pc'[q] = pc[q] /\ params'[q] = params[q] /\ loc'[q] = loc[q]
        /\ UNCHANGED <<script, results, snd, rcv>>
    BY <1>1 DEF ExpandSender, Goto, Counters, app
  <1>3. SameSizes(p)
    BY <1>1, <1>2 DEF SameSizes, Params
  <1>4. /\ loc'[p].op = loc[p].op /\ loc'[p].role = loc[p].role /\ loc'[p].i = loc[p].i
        /\ loc'[p].final = loc[p].final /\ loc'[p].output = loc[p].output
        /\ loc'[p].new_vole = loc[p].new_vole /\ loc'[p].new_mpfss = loc[p].new_mpfss
    BY <1>1, <1>2 DEF Locals
  <1> QED
    BY <1>2, <1>3, <1>4, ExpandingSizes

\* The Receiver enters MPFSS.
LEMMA ExpandReceiverSizes ==
  ASSUME Inv, SizesInv, NEW p \in Parties, ExpandReceiver(p)
  PROVE  SizesInv'
  <1>1. pc \in Counters /\ params \in [Parties -> Params] /\ rcv \in [Parties -> ReceiverState]
    BY StateFunctions
  <1>2. /\ pc[p] = "expand" /\ pc'[p] = "masked" /\ ~IsSender(p)
        /\ params' = [params EXCEPT ![p].buckets = UpdateBuckets(p, loc[p].output)]
        /\ rcv' = [rcv EXCEPT ![p].cached = @ \o Unshared(loc[p].output)]
        /\ \A q \in Parties : q # p =>
             pc'[q] = pc[q] /\ params'[q] = params[q] /\ rcv'[q] = rcv[q]
        /\ UNCHANGED <<script, results, loc, snd>>
    BY <1>1 DEF ExpandReceiver, Goto, Counters, app
  <1>3. SameSizes(p)
    BY <1>1, <1>2 DEF SameSizes, Params, ReceiverState
  <1> QED
    BY <1>2, <1>3, ExpandingSizes

-----------------------------------------------------------------------------
(* The start of a call.                                                    *)

\* A failed call begins again.
LEMMA RetrySizes ==
  ASSUME Inv, SizesInv, NEW p \in Parties, Retry(p)
  PROVE  SizesInv'
  <1>1. pc \in Counters /\ loc \in [Parties -> Locals]
    BY StateFunctions
  <1>2. /\ pc[p] = "failed" /\ pc'[p] = "begin" /\ SameSizes(p)
        /\ \A q \in Parties : q # p => pc'[q] = pc[q] /\ loc'[q] = loc[q]
        /\ loc'[p].op = loc[p].op /\ loc'[p].role = loc[p].role /\ ~loc'[p].final
        /\ UNCHANGED <<script, results, params, snd, rcv>>
    BY <1>1 DEF Retry, Goto, Counters, app, objects, SameSizes, NoCall
  <1>3. OnTheWay(p)' /\ Stays(p)'
    BY <1>2 DEF OnTheWay, Stays, Climbs, Renews
  <1>4. PartySizes(p)'
    BY <1>2, <1>3, QuietStep DEF SizesInv
  <1> QED
    BY <1>2, <1>4, SameScript, OnlySizes

\* A call that has been agreed on, or is now.
LEMMA InvokeScript ==
  ASSUME Inv, NEW p \in Parties, NEW c \in Call, Invoke(p, c), Len(results[p]) <= Len(script)
  PROVE  /\ ScriptGrows /\ NextCall(p) \in 1 .. Len(script') /\ script'[NextCall(p)] = c
         /\ Len(results[p]) <= Len(script')
  <1>1. PICK s, n : s = script /\ n = Len(results[p])
    OBVIOUS
  <1>2. s \in Seq(Call) /\ n \in Nat /\ Len(s) \in Nat /\ n <= Len(s) /\ NextCall(p) = n + 1
    <2>1. script \in Seq(Call) /\ results[p] \in Seq(Result)
      BY StateFunctions
    <2>2. Len(script) \in Nat /\ Len(results[p]) \in Nat
      BY <2>1
    <2> QED
      BY <1>1, <2>1, <2>2 DEF NextCall
  <1>3. CASE n + 1 <= Len(s) /\ c = s[n + 1] /\ script' = s
    BY <1>1, <1>2, <1>3 DEF ScriptGrows
  <1>4. CASE n + 1 > Len(s) /\ script' = Append(s, c)
    <2>1. /\ Len(Append(s, c)) = Len(s) + 1 /\ Append(s, c)[Len(s) + 1] = c
          /\ \A k \in 1 .. Len(s) : Append(s, c)[k] = s[k]
      BY <1>2
    <2>2. n = Len(s)
      BY <1>2, <1>4
    <2> QED
      BY <1>1, <1>2, <1>4, <2>1, <2>2 DEF ScriptGrows
  <1> QED
    BY <1>1, <1>2, <1>3, <1>4 DEF Invoke

\* A call begins, with sizes that earlier calls have left.
LEMMA InvokeSizes ==
  ASSUME Inv, SizesInv, NEW p \in Parties, NEW c \in Call, Invoke(p, c)
  PROVE  SizesInv'
  <1>1. pc \in Counters /\ loc \in [Parties -> Locals] /\ PartySizes(p)
    BY StateFunctions DEF SizesInv
  <1>2. /\ pc[p] = "idle" /\ pc'[p] = "begin" /\ SameSizes(p)
        /\ \A q \in Parties : q # p => pc'[q] = pc[q] /\ loc'[q] = loc[q]
        /\ loc'[p].role = RoleIn(c, p) /\ ~loc'[p].final
        /\ UNCHANGED <<results, params, snd, rcv>>
    BY <1>1 DEF Invoke, Goto, Counters, objects, SameSizes, NoCall, RoleIn
  <1>3. /\ ScriptGrows /\ NextCall(p) \in 1 .. Len(script') /\ script'[NextCall(p)] = c
        /\ Len(results[p]) <= Len(script')
    BY <1>1, InvokeScript DEF PartySizes, Called
  <1>4. /\ \A role : /\ DoneAs(p, role)' = DoneAs(p, role)
                     /\ Fit(p, role)' = Fit(p, role)
        /\ \A i : Level(p, i)' = Level(p, i)
        /\ SeedsOfLevel(p)'
    BY <1>1, <1>2, SameViews DEF PartySizes
  <1>5. Called(p)'
    <2>1. NextCall(p)' = NextCall(p)
      BY <1>2 DEF NextCall
    <2>2. NextCall(p) <= Len(script')
      BY <1>3
    <2>3. ASSUME NEW role \in TwoRoles, DoneAs(p, role)
          PROVE  \E k \in 1 .. Len(script') : k <= NextCall(p) /\ role = RoleIn(script'[k], p)
      <3>1. PICK k \in 1 .. Len(script) : k <= NextCall(p) /\ role = RoleIn(script[k], p)
        BY <1>1, <2>3 DEF PartySizes, Called
      <3>2. k \in 1 .. Len(script') /\ script'[k] = script[k]
        BY <1>3 DEF ScriptGrows
      <3> QED
        BY <3>1, <3>2
    <2> QED
      BY <1>2, <1>3, <1>4, <2>1, <2>2, <2>3 DEF Called, RoleIn
  <1>6. NotedLevel(p)'
    BY <1>1, <1>2, <1>4 DEF PartySizes, NotedLevel, SameSizes
  <1>7. GeneratorOfLevel(p)'
    BY <1>1, <1>2, <1>4 DEF PartySizes, GeneratorOfLevel, Renews, SameSizes
  <1>8. OnTheWay(p)' /\ Stays(p)'
    BY <1>2 DEF OnTheWay, Stays, Climbs, Renews
  <1>9. StillFits(p)'
    <2>1. SUFFICES ASSUME Steady(p)', NEW role \in TwoRoles, DoneAs(p, role)'
                   PROVE  Fit(p, role)'
      BY DEF StillFits
    <2>2. Len(results[p]) \in Nat
      BY StateFunctions
    <2>3. Steady(p) /\ Settled(p)
      BY <1>2, <1>3, <2>1, <2>2, SteadyBefore DEF ResultsGrow, Settled
    <2> QED
      BY <1>1, <1>4, <2>1, <2>3 DEF PartySizes, StillFits
  <1>10. PartySizes(p)'
    BY <1>4, <1>5, <1>6, <1>7, <1>8, <1>9 DEF PartySizes
  <1> QED
    BY <1>2, <1>3, <1>10, OnlySizes

\* A precomputation starts again from the first level.
LEMMA PrecomputingSizes ==
  ASSUME Inv, SizesInv, NEW p \in Parties, pc[p] = "begin", pc'[p] = "gilboa",
         NeedsPrecompute(p), params'[p] = FirstSeeds(p),
         snd'[p].vole_seed = snd[p].vole_seed, snd'[p].mpfss_seed = snd[p].mpfss_seed,
         rcv'[p].vole_seed = rcv[p].vole_seed, rcv'[p].mpfss_seed = rcv[p].mpfss_seed,
         snd'[p].done = snd[p].done, rcv'[p].done = rcv[p].done,
         UNCHANGED <<script, results, loc>>,
         \A q \in Parties : q # p =>
           /\ pc'[q] = pc[q] /\ params'[q] = params[q]
           /\ snd'[q] = snd[q] /\ rcv'[q] = rcv[q]
  PROVE  SizesInv'
  <1>1. PartySizes(p) /\ loc[p].i = 1 /\ 1 \in Levels /\ ~loc[p].final
    BY SizeTypes DEF SizesInv, PartySizes, OnTheWay, Inv, Bootstrapping
  <1>2. /\ \A role : /\ VoleLen(p, role)' = VoleLen(p, role)
                     /\ MpfssLen(p, role)' = MpfssLen(p, role)
                     /\ DoneAs(p, role)' = DoneAs(p, role)
        /\ NeedsPrecompute(p)'
    BY DEF VoleLen, MpfssLen, DoneAs, NeedsPrecompute, Done, IsSender
  <1>3. Level(p, 1)'
    <2>1. params[p] \in Params
      BY StateFunctions
    <2> QED
      BY <2>1 DEF Level, AtLevel, FirstSeeds, VoleSize, MpfssSize, Params
  <1>4. SeedsOfLevel(p)'
    BY <1>1, <1>2 DEF PartySizes, SeedsOfLevel
  <1>5. NotedLevel(p)'
    BY <1>1, <1>3 DEF NotedLevel
  <1>6. GeneratorOfLevel(p)' /\ OnTheWay(p)'
    BY <1>1, <1>3 DEF GeneratorOfLevel, OnTheWay, Climbs, Renews
  <1>7. Stays(p)' /\ StillFits(p)'
    BY <1>2 DEF Stays, StillFits, Settled
  <1>8. Called(p)'
    BY <1>1, <1>2, CalledWithin DEF PartySizes
  <1>9. PartySizes(p)'
    BY <1>4, <1>5, <1>6, <1>7, <1>8 DEF PartySizes
  <1> QED
    BY <1>9, SameScript, OnlySizes

\* The Sender starts from the first level.
LEMMA PrecomputeSenderSizes ==
  ASSUME Inv, SizesInv, NEW p \in Parties, PrecomputeSender(p)
  PROVE  SizesInv'
  <1>1. /\ pc \in Counters /\ params \in [Parties -> Params]
        /\ snd \in [Parties -> SenderState]
    BY StateFunctions
  <1>2. /\ pc[p] = "begin" /\ pc'[p] = "gilboa" /\ NeedsPrecompute(p)
        /\ params'[p] = FirstSeeds(p)
        /\ snd'[p].vole_seed = snd[p].vole_seed /\ snd'[p].mpfss_seed = snd[p].mpfss_seed
        /\ snd'[p].done = snd[p].done
        /\ UNCHANGED <<script, results, loc, rcv>>
        /\ \A q \in Parties : q # p =>
             pc'[q] = pc[q] /\ params'[q] = params[q] /\ snd'[q] = snd[q]
    BY <1>1 DEF PrecomputeSender, Goto, Counters, SenderState, app
  <1> QED
    BY <1>2, PrecomputingSizes

\* So does the Receiver.
LEMMA PrecomputeReceiverSizes ==
  ASSUME Inv, SizesInv, NEW p \in Parties, PrecomputeReceiver(p)
  PROVE  SizesInv'
  <1>1. /\ pc \in Counters /\ params \in [Parties -> Params]
        /\ rcv \in [Parties -> ReceiverState]
    BY StateFunctions
  <1>2. /\ pc[p] = "begin" /\ pc'[p] = "gilboa" /\ NeedsPrecompute(p)
        /\ params'[p] = FirstSeeds(p)
        /\ rcv'[p].vole_seed = rcv[p].vole_seed /\ rcv'[p].mpfss_seed = rcv[p].mpfss_seed
        /\ rcv'[p].done = rcv[p].done
        /\ UNCHANGED <<script, results, loc, snd>>
        /\ \A q \in Parties : q # p =>
             pc'[q] = pc[q] /\ params'[q] = params[q] /\ rcv'[q] = rcv[q]
    BY <1>1 DEF PrecomputeReceiver, Goto, Counters, ReceiverState, app
  <1> QED
    BY <1>2, PrecomputingSizes

-----------------------------------------------------------------------------
(* New seeds.                                                              *)

\* Get*Cached makes seeds of the lengths asked for.
LEMMA SenderSeedsLengths ==
  ASSUME NEW cached \in Vector, NEW vole \in Nat, NEW mpfss \in Nat,
         Len(cached) >= vole + mpfss, NEW s \in SenderState
  PROVE  /\ Len(SenderSeeds(s, cached, vole, mpfss).vole_seed) = vole
         /\ Len(SenderSeeds(s, cached, vole, mpfss).mpfss_seed) = mpfss
         /\ SenderSeeds(s, cached, vole, mpfss).done = s.done
  <1> DEFINE rest == WithoutTail(cached, vole)
  <1>1. /\ Len(cached) \in Nat /\ vole <= Len(cached) /\ Len(cached) - vole >= mpfss
    BY DEF Vector
  <1>2. Len(TailOf(cached, vole)) = vole /\ rest \in Vector /\ Len(rest) = Len(cached) - vole
    BY <1>1, TailType
  <1> HIDE DEF rest
  <1>3. Len(TailOf(rest, mpfss)) = mpfss
    BY <1>1, <1>2, TailType
  <1>4. SenderSeeds(s, cached, vole, mpfss) =
          [s EXCEPT !.vole_seed = TailOf(cached, vole),
                    !.mpfss_seed = TailOf(rest, mpfss),
                    !.cached = WithoutTail(rest, mpfss)]
    BY DEF SenderSeeds, rest
  <1> QED
    BY <1>2, <1>3, <1>4 DEF SenderState

\* The same for the Receiver.
LEMMA ReceiverSeedsLengths ==
  ASSUME NEW cached \in Vector, NEW vole \in Nat, NEW mpfss \in Nat,
         Len(cached) >= vole + mpfss, NEW r \in ReceiverState
  PROVE  /\ Len(ReceiverSeeds(r, cached, vole, mpfss).vole_seed) = vole
         /\ Len(ReceiverSeeds(r, cached, vole, mpfss).mpfss_seed) = mpfss
         /\ ReceiverSeeds(r, cached, vole, mpfss).done = r.done
  <1> DEFINE rest == WithoutTail(cached, vole)
  <1>1. /\ Len(cached) \in Nat /\ vole <= Len(cached) /\ Len(cached) - vole >= mpfss
    BY DEF Vector
  <1>2. Len(TailOf(cached, vole)) = vole /\ rest \in Vector /\ Len(rest) = Len(cached) - vole
    BY <1>1, TailType
  <1> HIDE DEF rest
  <1>3. Len(TailOf(rest, mpfss)) = mpfss
    BY <1>1, <1>2, TailType
  <1>4. ReceiverSeeds(r, cached, vole, mpfss) =
          [r EXCEPT !.vole_seed = TailOf(cached, vole),
                    !.mpfss_seed = TailOf(rest, mpfss),
                    !.mpfss_delta = r.delta,
                    !.cached = WithoutTail(rest, mpfss)]
    BY DEF ReceiverSeeds, rest
  <1> QED
    BY <1>2, <1>3, <1>4 DEF ReceiverState

\* The role of the call gets seeds of the sizes that are noted.
SeedsOfNewLevel(p) ==
  LET role == loc[p].role
  IN  /\ VoleLen(p, role)' = params'[p].vole_seed_size
      /\ MpfssLen(p, role)' = params'[p].mpfss_seed_size
      /\ \A other \in TwoRoles \ {role} : /\ VoleLen(p, other)' = VoleLen(p, other)
                                          /\ MpfssLen(p, other)' = MpfssLen(p, other)
      /\ snd'[p].done = snd[p].done /\ rcv'[p].done = rcv[p].done

\* New seeds of a level for the role of the call.
LEMMA Reseeding ==
  ASSUME Inv, NEW p \in Parties, PartySizes(p), pc[p] # "idle",
         SeedsOfNewLevel(p), NEW i \in Levels, Level(p, i)',
         script' = script, results'[p] = results[p], loc'[p].role = loc[p].role,
         GeneratorOfLevel(p)', OnTheWay(p)', Stays(p)', StillFits(p)'
  PROVE  PartySizes(p)'
  <1>1. SeedsOfLevel(p)'
    <2>1. PICK role : role = loc[p].role
      OBVIOUS
    <2>2. /\ VoleLen(p, role)' = VoleSize(i) /\ MpfssLen(p, role)' = MpfssSize(i)
      BY <2>1 DEF SeedsOfNewLevel, Level, AtLevel, VoleSize, MpfssSize
    <2>3. \A other \in TwoRoles \ {role} :
            VoleLen(p, other)' = VoleLen(p, other) /\ MpfssLen(p, other)' = MpfssLen(p, other)
      BY <2>1 DEF SeedsOfNewLevel
    <2> QED
      BY <2>2, <2>3 DEF PartySizes, SeedsOfLevel, VoleSize, MpfssSize
  <1>2. NotedLevel(p)'
    BY DEF NotedLevel
  <1>3. Called(p)'
    <2>1. \A role : DoneAs(p, role)' = DoneAs(p, role)
      BY DEF SeedsOfNewLevel, DoneAs
    <2> QED
      BY <2>1, CalledWithin DEF PartySizes
  <1> QED
    BY <1>1, <1>2, <1>3 DEF PartySizes

\* The first seeds come from the Gilboa product.
LEMMA FirstSeedsSizes ==
  ASSUME Inv, SizesInv, NEW p \in Parties, pc[p] = "gilboa", pc'[p] = "loop",
         SeedsOfNewLevel(p), UNCHANGED <<script, results, loc, params>>,
         \A q \in Parties : q # p =>
           pc'[q] = pc[q] /\ snd'[q] = snd[q] /\ rcv'[q] = rcv[q]
  PROVE  SizesInv'
  <1>1. /\ PartySizes(p) /\ Level(p, loc[p].i) /\ loc[p].i \in Levels /\ NeedsPrecompute(p)
        /\ ~loc[p].final
    BY DEF SizesInv, PartySizes, OnTheWay, Stays, Climbs, Renews
  <1>2. \A i : Level(p, i)' = Level(p, i)
    BY DEF Level, AtLevel
  <1>3. NeedsPrecompute(p)'
    BY <1>1 DEF NeedsPrecompute, Done, IsSender, SeedsOfNewLevel
  <1>4. GeneratorOfLevel(p)' /\ Stays(p)' /\ StillFits(p)'
    BY <1>3 DEF GeneratorOfLevel, Renews, Stays, StillFits, Settled
  <1>5. OnTheWay(p)'
    <2>1. VoleLen(p, loc[p].role)' = params'[p].vole_seed_size
      BY DEF SeedsOfNewLevel
    <2>2. Climbs(p)' => Level(p, loc[p].i)' /\ loc'[p].i \in Levels
      BY <1>1, <1>2
    <2> QED
      BY <1>1, <2>1, <2>2 DEF OnTheWay, VoleLen
  <1>6. PartySizes(p)'
    BY <1>1, <1>2, <1>4, <1>5, Reseeding
  <1> QED
    BY <1>6, SameScript, OnlySizes

\* The Sender has new seeds ...
LEMMA SenderReseededTo ==
  ASSUME Inv, NEW p \in Parties, IsSender(p), NEW s,
         snd' = [snd EXCEPT ![p] = s], rcv' = rcv, loc'[p].role = loc[p].role,
         Len(s.vole_seed) = params'[p].vole_seed_size,
         Len(s.mpfss_seed) = params'[p].mpfss_seed_size, s.done = snd[p].done
  PROVE  /\ SeedsOfNewLevel(p) /\ \A q \in Parties : q # p => snd'[q] = snd[q]
  <1>1. snd \in [Parties -> SenderState]
    BY StateFunctions
  <1>2. snd'[p] = s /\ \A q \in Parties : q # p => snd'[q] = snd[q]
    BY <1>1
  <1>3. loc[p].role = "sender" /\ loc'[p].role = "sender"
    BY DEF IsSender
  <1> QED
    BY <1>2, <1>3 DEF SeedsOfNewLevel, VoleLen, MpfssLen, TwoRoles

\* ... or the Receiver has.
LEMMA ReceiverReseededTo ==
  ASSUME Inv, NEW p \in Parties, ~IsSender(p), pc[p] # "idle", NEW r,
         rcv' = [rcv EXCEPT ![p] = r], snd' = snd, loc'[p].role = loc[p].role,
         Len(r.vole_seed) = params'[p].vole_seed_size,
         Len(r.mpfss_seed) = params'[p].mpfss_seed_size, r.done = rcv[p].done
  PROVE  /\ SeedsOfNewLevel(p) /\ \A q \in Parties : q # p => rcv'[q] = rcv[q]
  <1>1. rcv \in [Parties -> ReceiverState]
    BY StateFunctions
  <1>2. rcv'[p] = r /\ \A q \in Parties : q # p => rcv'[q] = rcv[q]
    BY <1>1
  <1>3. loc[p].role = "receiver" /\ loc'[p].role = "receiver"
    BY InvParts, PartyTypes DEF IsSender, Locals
  <1> QED
    BY <1>2, <1>3 DEF SeedsOfNewLevel, VoleLen, MpfssLen, TwoRoles

\* The first seeds of the Sender.
LEMMA GilboaSenderSizes ==
  ASSUME Inv, SizesInv, NEW p \in Parties, GilboaSender(p)
  PROVE  SizesInv'
  <1> DEFINE vec == Fresh(Head(channel[p]).delta, serial + 1, Len(snd[p].cached))
             s == SenderSeeds(snd[p], vec, params[p].vole_seed_size,
                              params[p].mpfss_seed_size)
  <1>1. /\ LocalTypes /\ ChannelInv /\ PartyInv(p) /\ snd[p] \in SenderState
        /\ serial + 1 \in Nat
    BY InvParts, PartyTypes DEF GlobalTypes
  <1>2. /\ pc[p] = "gilboa" /\ IsSender(p) /\ Arrived(p, "choices")
        /\ pc' = [pc EXCEPT ![p] = "loop"]
        /\ snd' = [snd EXCEPT ![p] = s]
        /\ UNCHANGED <<script, results, loc, params, rcv>>
    BY <1>1 DEF GilboaSender, Goto, LocalTypes, app
  <1>3. /\ Len(snd[p].cached) = VoleSize(1) + MpfssSize(1)
        /\ Len(snd[p].cached) \in Nat
        /\ params[p].vole_seed_size = VoleSize(1)
        /\ params[p].mpfss_seed_size = MpfssSize(1)
    BY <1>1, <1>2 DEF PartyInv, Seeded, Bootstrapping, AtLevel, SenderState, Vector
  <1>4. vec \in Vector /\ Len(vec) = VoleSize(1) + MpfssSize(1)
    <2>1. Head(channel[p]).delta \in Nat
      BY <1>1, <1>2, ArrivedTypes, MessageTypes
    <2> QED
      BY <1>1, <1>3, <2>1, NewVectorTypes
  <1> HIDE DEF vec
  <1>5. /\ Len(s.vole_seed) = params[p].vole_seed_size
        /\ Len(s.mpfss_seed) = params[p].mpfss_seed_size /\ s.done = snd[p].done
    <2>1. VoleSize(1) \in Nat /\ MpfssSize(1) \in Nat /\ snd[p] \in SenderState
      BY <1>1, SizeTypes
    <2> QED
      BY <1>3, <1>4, <2>1, SenderSeedsLengths
  <1> HIDE DEF s
  <1>6. SeedsOfNewLevel(p) /\ \A q \in Parties : q # p => snd'[q] = snd[q]
    BY <1>2, <1>5, SenderReseededTo
  <1>7. pc'[p] = "loop" /\ \A q \in Parties : q # p => pc'[q] = pc[q]
    BY <1>1, <1>2 DEF LocalTypes, Counters
  <1> QED
    BY <1>2, <1>6, <1>7, FirstSeedsSizes

\* The first seeds of the Receiver.
LEMMA GilboaReceiverSizes ==
  ASSUME Inv, SizesInv, NEW p \in Parties, GilboaReceiver(p)
  PROVE  SizesInv'
  <1> DEFINE vec == Head(channel[p]).vec
             r == ReceiverSeeds(rcv[p], vec, params[p].vole_seed_size,
                                params[p].mpfss_seed_size)
  <1>1. LocalTypes /\ ChannelInv /\ PartyInv(p) /\ rcv[p] \in ReceiverState
    BY InvParts, PartyTypes
  <1>2. /\ pc[p] = "gilboa" /\ ~IsSender(p) /\ Arrived(p, "w")
        /\ pc' = [pc EXCEPT ![p] = "loop"]
        /\ rcv' = [rcv EXCEPT ![p] = r]
        /\ UNCHANGED <<script, results, loc, params, snd>>
    BY <1>1 DEF GilboaReceiver, Goto, LocalTypes, app
  <1>3. /\ params[p].vole_seed_size = VoleSize(1)
        /\ params[p].mpfss_seed_size = MpfssSize(1)
    BY <1>1, <1>2 DEF PartyInv, Bootstrapping, AtLevel
  <1>4. vec \in Vector /\ Len(vec) = VoleSize(1) + MpfssSize(1)
    BY <1>1, <1>2, ArrivedTypes, MessageTypes
  <1> HIDE DEF vec
  <1>5. /\ Len(r.vole_seed) = params[p].vole_seed_size
        /\ Len(r.mpfss_seed) = params[p].mpfss_seed_size /\ r.done = rcv[p].done
    <2>1. VoleSize(1) \in Nat /\ MpfssSize(1) \in Nat /\ rcv[p] \in ReceiverState
      BY <1>1, SizeTypes
    <2> QED
      BY <1>3, <1>4, <2>1, ReceiverSeedsLengths
  <1> HIDE DEF r
  <1>6. SeedsOfNewLevel(p) /\ \A q \in Parties : q # p => rcv'[q] = rcv[q]
    BY <1>2, <1>5, ReceiverReseededTo
  <1>7. pc'[p] = "loop" /\ \A q \in Parties : q # p => pc'[q] = pc[q]
    BY <1>1, <1>2 DEF LocalTypes, Counters
  <1> QED
    BY <1>2, <1>6, <1>7, FirstSeedsSizes

-----------------------------------------------------------------------------
(* The generator for the next expansion.                                   *)

\* No two levels have the same seeds.
LEMMA OneLevel ==
  ASSUME NEW p \in Parties, NEW i \in Levels, NEW j \in Levels, Level(p, i), Level(p, j)
  PROVE  i = j
  BY LevelsAssumption DEF Level, AtLevel, VoleSize

\* A new generator is made for seeds of a level and an output that it supports.
LEMMA PreparedLevels ==
  ASSUME Inv, SizesInv, NEW p \in Parties, pc[p] = "loop", pc'[p] = "seed",
         loc'[p].op = loc[p].op, loc'[p].role = loc[p].role, loc'[p].i = loc[p].i,
         params'[p].vole_seed_size = params[p].vole_seed_size,
         params'[p].mpfss_seed_size = params[p].mpfss_seed_size,
         params'[p].num_noise = params[p].num_noise,
         params'[p].generator.rows = params[p].vole_seed_size,
         params'[p].generator.cols = loc'[p].output,
         loc'[p].output <= output_size[loc[p].i],
         loc'[p].final => loc'[p].output = params'[p].batch_size + SeedsLength(p)',
         UNCHANGED <<script, results, snd, rcv>>,
         \A q \in Parties : q # p =>
           pc'[q] = pc[q] /\ loc'[q] = loc[q] /\ params'[q] = params[q]
  PROVE  SizesInv'
  <1>1. /\ PartySizes(p) /\ Level(p, loc[p].i) /\ loc[p].i \in Levels /\ NeedsPrecompute(p)
        /\ ~loc[p].final /\ VoleLen(p, loc[p].role) = params[p].vole_seed_size
    BY DEF SizesInv, PartySizes, OnTheWay, Stays, Climbs, Renews
  <1>2. /\ \A i : Level(p, i)' = Level(p, i)
        /\ \A role : /\ VoleLen(p, role)' = VoleLen(p, role)
                     /\ MpfssLen(p, role)' = MpfssLen(p, role)
                     /\ DoneAs(p, role)' = DoneAs(p, role)
    BY DEF Level, AtLevel, VoleLen, MpfssLen, DoneAs
  <1>3. NeedsPrecompute(p)'
    BY <1>1 DEF NeedsPrecompute, Done, IsSender
  <1>4. SeedsOfLevel(p)' /\ NotedLevel(p)'
    BY <1>1, <1>2 DEF PartySizes, SeedsOfLevel, NotedLevel
  <1>5. GeneratorOfLevel(p)'
    <2>1. \A i \in Levels : Level(p, i) => loc'[p].output <= output_size[i]
      BY <1>1, OneLevel
    <2> QED
      BY <1>2, <2>1 DEF GeneratorOfLevel
  <1>6. OnTheWay(p)'
    <2>1. VoleLen(p, loc[p].role)' = params'[p].vole_seed_size
      BY <1>1 DEF VoleLen
    <2>2. Level(p, loc[p].i)' /\ loc'[p].i \in Levels
      BY <1>1 DEF Level, AtLevel
    <2>3. pc'[p] # "begin" /\ ~Renews(p)'
      BY DEF Renews
    <2> QED
      BY <2>1, <2>2, <2>3 DEF OnTheWay
  <1>7. Stays(p)' /\ StillFits(p)'
    BY <1>3 DEF Stays, StillFits, Settled
  <1>8. Called(p)'
    BY <1>1, <1>2, CalledWithin DEF PartySizes
  <1>9. PartySizes(p)'
    BY <1>4, <1>5, <1>6, <1>7, <1>8 DEF PartySizes
  <1> QED
    BY <1>9, SameScript, OnlySizes

\* The fields of params after ResizeGenerator.
LEMMA ResizedFields ==
  ASSUME NEW p \in Parties, NEW pr \in Params, NEW output \in Nat
  PROVE  LET new == Resized(p, pr, output)
         IN  /\ new.batch_size = pr.batch_size /\ new.vole_seed_size = pr.vole_seed_size
             /\ new.mpfss_seed_size = pr.mpfss_seed_size /\ new.num_noise = pr.num_noise
             /\ new.generator.rows = pr.vole_seed_size /\ new.generator.cols = output
  <1> DEFINE buckets == UpdateBuckets(p, output)
             generator == [rows |-> pr.vole_seed_size, cols |-> output, id |-> 0]
  <1>1. generator.rows = pr.vole_seed_size /\ generator.cols = output
    OBVIOUS
  <1>2. Resized(p, pr, output) = [pr EXCEPT !.buckets = buckets, !.generator = generator]
    BY DEF Resized
  <1> HIDE DEF buckets, generator
  <1>3. Resized(p, pr, output) =
          [batch_size |-> pr.batch_size, vole_seed_size |-> pr.vole_seed_size,
           mpfss_seed_size |-> pr.mpfss_seed_size, num_noise |-> pr.num_noise,
           generator |-> generator, buckets |-> buckets]
    BY <1>2, ParamsFields
  <1> QED
    BY <1>1, <1>3

\* The output of a level holds the seeds of the next one ...
LEMMA BootstrapSizes ==
  ASSUME Inv, SizesInv, NEW p \in Parties, Bootstrap(p)
  PROVE  SizesInv'
  <1> DEFINE vole == VoleSize(loc[p].i + 1)
             mpfss == MpfssSize(loc[p].i + 1)
             output == vole + mpfss
             pr == Resized(p, params[p], output)
  <1>1. /\ pc \in Counters /\ loc \in [Parties -> Locals] /\ params \in [Parties -> Params]
    BY StateFunctions
  <1>2. /\ pc[p] = "loop" /\ loc[p].i < Len(seed_size)
        /\ pc' = [pc EXCEPT ![p] = "seed"]
        /\ loc' = [loc EXCEPT ![p].output = output, ![p].new_vole = vole,
                              ![p].new_mpfss = mpfss]
        /\ params' = [params EXCEPT ![p] = pr]
        /\ UNCHANGED <<script, results, snd, rcv>>
    BY DEF Bootstrap, Goto, ResizeGenerator, Resized, VoleSize, MpfssSize, app
  <1>3. /\ loc[p].i \in Levels /\ loc[p].i + 1 \in Levels /\ output \in Nat
        /\ output <= output_size[loc[p].i]
    <2>1. loc[p].i \in Levels /\ loc[p].i + 1 \in Levels
      BY <1>1, <1>2, SizeTypes DEF Locals, Levels
    <2>2. vole \in Nat /\ mpfss \in Nat
      BY <2>1, SizeTypes
    <2>3. output <= output_size[loc[p].i]
      BY <2>1, LevelsAssumption DEF VoleSize, MpfssSize
    <2> QED
      BY <2>1, <2>2, <2>3
  <1> HIDE DEF output
  <1>4. /\ pr.vole_seed_size = params[p].vole_seed_size
        /\ pr.mpfss_seed_size = params[p].mpfss_seed_size
        /\ pr.num_noise = params[p].num_noise
        /\ pr.generator.rows = params[p].vole_seed_size /\ pr.generator.cols = output
    BY <1>1, <1>3, ResizedFields
  <1> HIDE DEF pr, vole, mpfss
  <1>5. /\ pc'[p] = "seed" /\ params'[p] = pr
        /\ loc'[p].op = loc[p].op /\ loc'[p].role = loc[p].role /\ loc'[p].i = loc[p].i
        /\ loc'[p].final = loc[p].final /\ loc'[p].output = output
        /\ \A q \in Parties : q # p =>
             pc'[q] = pc[q] /\ loc'[q] = loc[q] /\ params'[q] = params[q]
    BY <1>1, <1>2 DEF Counters, Locals
  <1>6. ~loc[p].final
    BY <1>2 DEF SizesInv, PartySizes, OnTheWay, Renews
  <1> QED
    BY <1>2, <1>3, <1>4, <1>5, <1>6, PreparedLevels

\* ... and the batch is capped to what is left beside the present ones.
LEMMA ChooseBatchSizeSizes ==
  ASSUME Inv, SizesInv, NEW p \in Parties, ChooseBatchSize(p)
  PROVE  SizesInv'
  <1> DEFINE batch == BatchSize(p)
             output == batch + SeedsLength(p)
             sized == [params[p] EXCEPT !.batch_size = batch]
             pr == Resized(p, sized, output)
  <1>1. /\ pc \in Counters /\ loc \in [Parties -> Locals] /\ params \in [Parties -> Params]
        /\ PartyInv(p)
    BY StateFunctions, InvParts
  <1>2. /\ pc[p] = "loop" /\ (loc[p].i = Len(seed_size) \/ LevelSuffices(p))
        /\ pc' = [pc EXCEPT ![p] = "seed"]
        /\ loc' = [loc EXCEPT ![p].final = TRUE, ![p].output = output]
        /\ params' = [params EXCEPT ![p] = pr]
        /\ UNCHANGED <<script, results, snd, rcv>>
    BY DEF ChooseBatchSize, Goto, ResizeGenerator, Resized, app
  <1>3. loc[p] \in Locals /\ loc[p].size >= 1 /\ AtLevel(p, loc[p].i)
        /\ batch \in Nat /\ SeedsLength(p) \in Nat /\ loc[p].i \in Levels
    <2>1. loc[p] \in Locals /\ loc[p].size >= 1 /\ AtLevel(p, loc[p].i)
      BY <1>1, <1>2 DEF PartyInv, Bootstrapping
    <2>2. params[p].vole_seed_size \in Nat /\ params[p].mpfss_seed_size \in Nat
      BY <1>1 DEF Params
    <2> QED
      BY <2>1, <2>2, BatchSizeType DEF SeedsLength, Locals
  <1>4. output \in Nat /\ output <= output_size[loc[p].i]
    <2> DEFINE room == output_size[Len(output_size)] - SeedsLength(p)
    <2>1. /\ Len(output_size) \in Levels /\ Len(output_size) = Len(seed_size)
          /\ output_size[Len(output_size)] \in Nat /\ output_size[loc[p].i] \in Nat
      <3>1. Len(output_size) \in Levels /\ Len(output_size) = Len(seed_size)
        BY ParametersAssumption DEF Levels
      <3> QED
        BY <1>3, <3>1, SizeTypes
    <2>2. loc[p].size \in Int /\ room \in Int
      BY <1>3, <2>1 DEF Locals
    <2>3. batch = Min({loc[p].size, room})
      BY DEF BatchSize
    <2>4. batch <= loc[p].size /\ batch <= room
      <3> HIDE DEF room, batch
      <3>1. \E x \in {loc[p].size, room} : \A y \in {loc[p].size, room} : x =< y
        BY <2>2
      <3> QED
        BY <2>3, <3>1 DEF Min
    <2>5. CASE loc[p].i = Len(seed_size)
      <3> HIDE DEF batch
      <3> QED
        BY <1>3, <2>1, <2>4, <2>5
    <2>6. CASE LevelSuffices(p)
      <3> HIDE DEF batch
      <3> QED
        BY <1>3, <2>1, <2>2, <2>4, <2>6 DEF LevelSuffices
    <2> QED
      BY <1>2, <1>3, <2>5, <2>6
  <1> HIDE DEF output
  <1>5. /\ sized \in Params /\ sized.batch_size = batch
        /\ sized.vole_seed_size = params[p].vole_seed_size
        /\ sized.mpfss_seed_size = params[p].mpfss_seed_size
        /\ sized.num_noise = params[p].num_noise
    <2> HIDE DEF batch
    <2>1. sized = [batch_size |-> batch, vole_seed_size |-> params[p].vole_seed_size,
                   mpfss_seed_size |-> params[p].mpfss_seed_size,
                   num_noise |-> params[p].num_noise,
                   generator |-> params[p].generator, buckets |-> params[p].buckets]
      BY <1>1, ParamsFields
    <2>2. params[p] \in Params
      BY <1>1
    <2> HIDE DEF sized
    <2> QED
      BY <1>3, <2>1, <2>2, ParamsFields DEF Params
  <1> HIDE DEF sized
  <1>6. /\ pr.batch_size = batch /\ pr.vole_seed_size = params[p].vole_seed_size
        /\ pr.mpfss_seed_size = params[p].mpfss_seed_size
        /\ pr.num_noise = params[p].num_noise
        /\ pr.generator.rows = params[p].vole_seed_size /\ pr.generator.cols = output
    BY <1>4, <1>5, ResizedFields
  <1> HIDE DEF pr
  <1>7. /\ pc'[p] = "seed" /\ params'[p] = pr
        /\ loc'[p].op = loc[p].op /\ loc'[p].role = loc[p].role /\ loc'[p].i = loc[p].i
        /\ loc'[p].output = output
        /\ \A q \in Parties : q # p =>
             pc'[q] = pc[q] /\ loc'[q] = loc[q] /\ params'[q] = params[q]
    BY <1>1, <1>2 DEF Counters, Locals
  <1>8. loc'[p].output = params'[p].batch_size + SeedsLength(p)'
    <2>1. SeedsLength(p)' = SeedsLength(p)
      BY <1>6, <1>7 DEF SeedsLength
    <2> QED
      BY <1>6, <1>7, <2>1 DEF output
  <1>9. /\ params'[p].vole_seed_size = params[p].vole_seed_size
        /\ params'[p].mpfss_seed_size = params[p].mpfss_seed_size
        /\ params'[p].num_noise = params[p].num_noise
        /\ params'[p].generator.rows = params[p].vole_seed_size
        /\ params'[p].generator.cols = loc'[p].output
        /\ loc'[p].output <= output_size[loc[p].i]
    BY <1>4, <1>6, <1>7
  <1>10. pc[p] = "loop" /\ UNCHANGED <<script, results, snd, rcv>>
    BY <1>2
  <1> QED
    BY <1>7, <1>8, <1>9, <1>10, PreparedLevels

\* The flag of the role of the call is all that SetDone changes.
LEMMA SetDoneSizes ==
  ASSUME Inv, NEW p \in Parties, pc[p] # "idle", SetDone(p)
  PROVE  /\ \A role : /\ VoleLen(p, role)' = VoleLen(p, role)
                      /\ MpfssLen(p, role)' = MpfssLen(p, role)
         /\ \A role \in TwoRoles : DoneAs(p, role)' => DoneAs(p, role) \/ role = loc[p].role
         /\ IsSender(p) => snd'[p].done
         /\ ~IsSender(p) => rcv'[p].done
         /\ \A q \in Parties : q # p => snd'[q] = snd[q] /\ rcv'[q] = rcv[q]
  <1>1. snd \in [Parties -> SenderState] /\ rcv \in [Parties -> ReceiverState]
    BY StateFunctions
  <1>2. loc[p].role \in TwoRoles
    BY InvParts, PartyTypes DEF TwoRoles, Locals
  <1>3. CASE IsSender(p)
    <2>1. /\ rcv' = rcv /\ \A q \in Parties : q # p => snd'[q] = snd[q]
          /\ snd'[p].vole_seed = snd[p].vole_seed /\ snd'[p].mpfss_seed = snd[p].mpfss_seed
          /\ snd'[p].done
      BY <1>1, <1>3 DEF SetDone, SenderState
    <2> QED
      BY <1>3, <2>1 DEF VoleLen, MpfssLen, DoneAs, IsSender, TwoRoles
  <1>4. CASE ~IsSender(p)
    <2>1. /\ snd' = snd /\ \A q \in Parties : q # p => rcv'[q] = rcv[q]
          /\ rcv'[p].vole_seed = rcv[p].vole_seed /\ rcv'[p].mpfss_seed = rcv[p].mpfss_seed
          /\ rcv'[p].done
      BY <1>1, <1>4 DEF SetDone, ReceiverState
    <2> QED
      BY <1>2, <1>4, <2>1 DEF VoleLen, MpfssLen, DoneAs, IsSender, TwoRoles
  <1> QED
    BY <1>3, <1>4

\* The generator that is filled last fits the seeds of the role that then is done.
LEMMA FilledSizes ==
  ASSUME Inv, SizesInv, NEW p \in Parties, pc[p] = "seed", loc[p].final, SetDone(p),
         params'[p].batch_size = params[p].batch_size,
         params'[p].vole_seed_size = params[p].vole_seed_size,
         params'[p].mpfss_seed_size = params[p].mpfss_seed_size,
         params'[p].num_noise = params[p].num_noise,
         params'[p].generator.rows = params[p].generator.rows,
         params'[p].generator.cols = params[p].generator.cols,
         Steady(p)' => Steady(p), Called(p)', pc'[p] \in {"idle", "fetch"},
         pc'[p] = "fetch" => ~NeedsPrecompute(p)'
  PROVE  PartySizes(p)'
  <1>1. PartySizes(p)
    BY DEF SizesInv
  <1>2. /\ \A role : /\ VoleLen(p, role)' = VoleLen(p, role)
                     /\ MpfssLen(p, role)' = MpfssLen(p, role)
        /\ \A role \in TwoRoles : DoneAs(p, role)' => DoneAs(p, role) \/ role = loc[p].role
    BY SetDoneSizes
  <1>3. /\ \A i : Level(p, i)' = Level(p, i)
        /\ SeedsLength(p)' = SeedsLength(p)
    BY DEF Level, AtLevel, SeedsLength
  <1>4. SeedsOfLevel(p)'
    BY <1>1, <1>2 DEF PartySizes, SeedsOfLevel
  <1>5. NotedLevel(p)' /\ GeneratorOfLevel(p)'
    BY <1>1, <1>3 DEF PartySizes, NotedLevel, GeneratorOfLevel, Renews
  <1>6. OnTheWay(p)' /\ Stays(p)'
    BY DEF OnTheWay, Stays, Climbs, Renews
  <1>7. StillFits(p)'
    <2>1. SUFFICES ASSUME Steady(p)', NEW role \in TwoRoles, DoneAs(p, role)'
                   PROVE  Fit(p, role)'
      BY DEF StillFits
    <2>2. role = loc[p].role
      BY <1>1, <1>2, <2>1, OneRole DEF PartySizes
    <2>3. /\ params[p].generator.rows = VoleLen(p, role)
          /\ params[p].generator.cols = params[p].batch_size + SeedsLength(p)
      BY <1>1, <2>2 DEF PartySizes, GeneratorOfLevel, OnTheWay, Stays, Renews
    <2> QED
      BY <1>2, <1>3, <2>3 DEF Fit
  <1> QED
    BY <1>4, <1>5, <1>6, <1>7 DEF PartySizes

\* However PrecomputeCommon ends, the generator has the shape it was resized to.
LEMMA FillGeneratorSizes ==
  ASSUME Inv, SizesInv, NEW p \in Parties, NEW id \in Nat, pc[p] = "seed",
         FillGenerator(p, id), script' = script
  PROVE  SizesInv'
  <1>1. /\ pc \in Counters /\ loc \in [Parties -> Locals] /\ params \in [Parties -> Params]
        /\ PartySizes(p)
    BY StateFunctions DEF SizesInv
  <1>2. CASE ReturnError(p) /\ UNCHANGED objects
    <2>1. Returns(p, FALSE) /\ SameSizes(p)
      BY <1>2, ReturnReturns DEF ReturnError, SameSizes, objects
    <2>2. PartySizes(p)'
      BY <1>1, <2>1, QuietReturn
    <2> QED
      BY <1>2, <2>1, <2>2, SameScript, OnlySizes DEF objects, Returns
  <1>3. ASSUME params' = [params EXCEPT ![p].generator.id = id]
        PROVE  /\ params'[p].batch_size = params[p].batch_size
               /\ params'[p].vole_seed_size = params[p].vole_seed_size
               /\ params'[p].mpfss_seed_size = params[p].mpfss_seed_size
               /\ params'[p].num_noise = params[p].num_noise
               /\ params'[p].generator.rows = params[p].generator.rows
               /\ params'[p].generator.cols = params[p].generator.cols
               /\ \A q \in Parties : q # p => params'[q] = params[q]
    BY <1>1, <1>3 DEF Params
  <1>4. CASE /\ params' = [params EXCEPT ![p].generator.id = id]
             /\ ~loc[p].final /\ Goto(p, "expand")
             /\ UNCHANGED <<results, loc, snd, rcv>>
    <2>1. pc'[p] = "expand" /\ \A q \in Parties : q # p => pc'[q] = pc[q]
      BY <1>1, <1>4 DEF Goto, Counters
    <2>2. SameSizes(p)
      BY <1>3, <1>4 DEF SameSizes
    <2>3. \A i : Level(p, i)' = Level(p, i)
      BY <2>2, SameViews
    <2>4. OnTheWay(p)' /\ Stays(p)'
      <3>1. NeedsPrecompute(p)'
        BY <1>1, <1>4 DEF PartySizes, Stays, NeedsPrecompute, Done, IsSender
      <3>2. VoleLen(p, loc[p].role)' = params'[p].vole_seed_size
        BY <1>1, <1>3, <1>4 DEF PartySizes, OnTheWay, VoleLen
      <3>3. Level(p, loc[p].i)' /\ loc'[p].i \in Levels
        BY <1>1, <1>3, <1>4 DEF PartySizes, OnTheWay, Climbs, Level, AtLevel
      <3>4. params'[p].generator.cols = loc'[p].output
        BY <1>1, <1>3, <1>4 DEF PartySizes, OnTheWay
      <3> QED
        BY <1>4, <2>1, <3>1, <3>2, <3>3, <3>4 DEF OnTheWay, Stays, Climbs, Renews
    <2>5. PartySizes(p)'
      BY <1>1, <1>4, <2>1, <2>2, <2>4, QuietStep
    <2> QED
      BY <1>3, <1>4, <2>1, <2>5, SameScript, OnlySizes
  <1>5. CASE /\ params' = [params EXCEPT ![p].generator.id = id]
             /\ loc[p].final /\ loc[p].op = "Precompute"
             /\ SetDone(p) /\ Return(p, TRUE, <<>>)
    <2>1. Returns(p, TRUE)
      BY <1>5, ReturnReturns
    <2>2. /\ \A role \in TwoRoles : DoneAs(p, role)' => DoneAs(p, role) \/ role = loc[p].role
          /\ \A q \in Parties : q # p => snd'[q] = snd[q] /\ rcv'[q] = rcv[q]
      BY <1>5, SetDoneSizes
    <2>3. Called(p)' /\ ScriptGrows /\ ResultsGrow(p)
      BY <1>1, <2>1, <2>2, CalledReturns DEF PartySizes
    <2>4. Steady(p)' => Steady(p)
      BY <2>3, SteadyBefore
    <2>5. PartySizes(p)'
      BY <1>3, <1>5, <2>1, <2>3, <2>4, FilledSizes DEF Returns
    <2> QED
      BY <1>3, <1>5, <2>1, <2>2, <2>5, SameScript, OnlySizes DEF Returns
  <1>6. CASE /\ params' = [params EXCEPT ![p].generator.id = id]
             /\ loc[p].final /\ loc[p].op = "Run" /\ SetDone(p)
             /\ Goto(p, "fetch") /\ UNCHANGED <<results, loc>>
    <2>1. pc'[p] = "fetch" /\ \A q \in Parties : q # p => pc'[q] = pc[q]
      BY <1>1, <1>6 DEF Goto, Counters
    <2>2. /\ \A role \in TwoRoles : DoneAs(p, role)' => DoneAs(p, role) \/ role = loc[p].role
          /\ IsSender(p) => snd'[p].done
          /\ ~IsSender(p) => rcv'[p].done
          /\ \A q \in Parties : q # p => snd'[q] = snd[q] /\ rcv'[q] = rcv[q]
      BY <1>6, SetDoneSizes
    <2>3. Called(p)'
      BY <1>1, <1>6, <2>2, CalledWithin DEF PartySizes
    <2>4. Steady(p)' => Steady(p)
      BY <1>6 DEF Steady, NextCall
    <2>5. ~NeedsPrecompute(p)'
      BY <1>6, <2>2 DEF NeedsPrecompute, Done, IsSender
    <2>6. PartySizes(p)'
      BY <1>3, <1>6, <2>1, <2>3, <2>4, <2>5, FilledSizes
    <2> QED
      BY <1>3, <1>6, <2>1, <2>2, <2>6, SameScript, OnlySizes
  <1> QED
    BY <1>2, <1>4, <1>5, <1>6 DEF FillGenerator, GeneratorReady

\* The lower end fills its generator.
LEMMA SendSeedSizes ==
  ASSUME Inv, SizesInv, NEW p \in Parties, SendSeed(p)
  PROVE  SizesInv'
  <1>1. serial + 1 \in Nat
    BY StateFunctions
  <1> QED
    BY <1>1, FillGeneratorSizes DEF SendSeed

\* The higher end fills its generator.
LEMMA ReceiveSeedSizes ==
  ASSUME Inv, SizesInv, NEW p \in Parties, ReceiveSeed(p)
  PROVE  SizesInv'
  <1>1. Head(channel[p]).id \in Nat
    BY InvParts, ArrivedTypes, MessageTypes DEF ReceiveSeed
  <1> QED
    BY <1>1, FillGeneratorSizes DEF ReceiveSeed

-----------------------------------------------------------------------------
(* The end of an expansion.                                                *)

\* The seeds that an expansion leaves are of the next level, or of the same one.
LEMMA ExpandDoneSizes ==
  ASSUME Inv, SizesInv, NEW p \in Parties, pc[p] \in {"masked", "sums"}, AfterExpand(p),
         SeedsOfNewLevel(p), UNCHANGED <<script, results>>,
         \A q \in Parties : q # p => snd'[q] = snd[q] /\ rcv'[q] = rcv[q]
  PROVE  SizesInv'
  <1>1. /\ pc \in Counters /\ loc \in [Parties -> Locals] /\ params \in [Parties -> Params]
        /\ PartySizes(p) /\ PartyInv(p)
    BY StateFunctions, InvParts DEF SizesInv
  <1>2. /\ params'[p].batch_size = params[p].batch_size
        /\ params'[p].vole_seed_size = loc[p].new_vole
        /\ params'[p].mpfss_seed_size = loc[p].new_mpfss
        /\ params'[p].generator = params[p].generator
        /\ loc[p].final => params'[p].num_noise = params[p].num_noise
        /\ ~loc[p].final => params'[p].num_noise = num_noise_indices[loc[p].i + 1]
        /\ \A q \in Parties : q # p => params'[q] = params[q]
    BY <1>1 DEF AfterExpand, NextParams, Params
  <1>3. snd'[p].done = snd[p].done /\ rcv'[p].done = rcv[p].done
    BY DEF SeedsOfNewLevel
  <1>4. CASE loc[p].final /\ Goto(p, "copy") /\ UNCHANGED loc
    <2>1. pc'[p] = "copy" /\ \A q \in Parties : q # p => pc'[q] = pc[q]
      BY <1>1, <1>4 DEF Goto, Counters
    <2>2. /\ params'[p].vole_seed_size = params[p].vole_seed_size
          /\ params'[p].mpfss_seed_size = params[p].mpfss_seed_size
          /\ params'[p].num_noise = params[p].num_noise
          /\ ~NeedsPrecompute(p)
      BY <1>1, <1>2, <1>4 DEF PartySizes, Stays
    <2>3. PICK i \in Levels : Level(p, i)
      BY <1>1 DEF PartySizes, NotedLevel
    <2>4. \A j : Level(p, j)' = Level(p, j)
      BY <2>2 DEF Level, AtLevel
    <2>5. GeneratorOfLevel(p)'
      BY <1>1, <1>2, <2>2, <2>4 DEF PartySizes, GeneratorOfLevel, Renews
    <2>6. ~NeedsPrecompute(p)'
      BY <1>3, <1>4, <2>2 DEF NeedsPrecompute, Done, IsSender
    <2>7. OnTheWay(p)' /\ Stays(p)'
      BY <2>1, <2>6 DEF OnTheWay, Stays, Climbs, Renews
    <2>8. StillFits(p)'
      <3>1. SUFFICES ASSUME Steady(p)', NEW role \in TwoRoles, DoneAs(p, role)'
                     PROVE  Fit(p, role)'
        BY DEF StillFits
      <3>2. Steady(p) /\ DoneAs(p, role)
        BY <1>3, <3>1 DEF Steady, NextCall, DoneAs
      <3>3. role = loc[p].role
        BY <1>1, <3>2, OneRole DEF PartySizes
      <3>4. params[p].generator.cols = params[p].batch_size + SeedsLength(p)
        BY <1>1, <2>2, <3>2 DEF PartySizes, StillFits, Settled, Fit
      <3>5. params[p].generator.rows = params[p].vole_seed_size
        BY <1>1 DEF PartySizes, GeneratorOfLevel, Renews
      <3>6. VoleLen(p, role)' = params'[p].vole_seed_size
        BY <1>4, <3>3 DEF SeedsOfNewLevel, VoleLen
      <3> QED
        BY <1>2, <2>2, <3>4, <3>5, <3>6 DEF Fit, SeedsLength
    <2>9. PartySizes(p)'
      BY <1>1, <1>4, <2>3, <2>4, <2>5, <2>7, <2>8, Reseeding
    <2> QED
      BY <1>2, <1>4, <2>1, <2>9, SameScript, OnlySizes
  <1>5. CASE /\ ~loc[p].final /\ Goto(p, "loop")
             /\ loc' = [loc EXCEPT ![p].i = @ + 1]
    <2>1. /\ pc'[p] = "loop" /\ loc'[p].i = loc[p].i + 1 /\ ~loc'[p].final
          /\ loc'[p].op = loc[p].op /\ loc'[p].role = loc[p].role
          /\ \A q \in Parties : q # p => pc'[q] = pc[q] /\ loc'[q] = loc[q]
      BY <1>1, <1>5 DEF Goto, Counters, Locals
    <2>2. PICK i : i = loc[p].i + 1
      OBVIOUS
    <2>3. i \in Levels /\ loc[p].new_vole = VoleSize(i) /\ loc[p].new_mpfss = MpfssSize(i)
      BY <1>1, <1>5, <2>2 DEF PartyInv, NextLevel
    <2>4. Level(p, i)'
      BY <1>2, <1>5, <2>2, <2>3 DEF Level, AtLevel, VoleSize, MpfssSize
    <2>5. NeedsPrecompute(p)'
      BY <1>1, <1>3, <1>5, <2>1
      DEF PartySizes, Stays, Climbs, NeedsPrecompute, Done, IsSender
    <2>6. GeneratorOfLevel(p)' /\ Stays(p)' /\ StillFits(p)'
      BY <2>1, <2>5 DEF GeneratorOfLevel, Renews, Stays, StillFits, Settled
    <2>7. OnTheWay(p)'
      <3>1. loc'[p].i = i
        BY <2>1, <2>2
      <3>2. VoleLen(p, loc[p].role)' = params'[p].vole_seed_size
        BY DEF SeedsOfNewLevel
      <3>3. Level(p, loc[p].i)'
        BY <2>4, <3>1 DEF Level, AtLevel
      <3> QED
        BY <2>1, <2>3, <3>1, <3>2, <3>3 DEF OnTheWay
    <2>8. PartySizes(p)'
      BY <1>1, <2>1, <2>3, <2>4, <2>6, <2>7, Reseeding
    <2> QED
      BY <1>2, <2>1, <2>8, SameScript, OnlySizes
  <1> QED
    BY <1>4, <1>5 DEF AfterExpand

\* The next seeds of the Receiver.
LEMMA ExpandReceiverDoneSizes ==
  ASSUME Inv, SizesInv, NEW p \in Parties, ExpandReceiverDone(p)
  PROVE  SizesInv'
  <1> DEFINE msg == Head(channel[p])
             made == IF Matches(p, msg)
                     THEN Fresh(rcv[p].mpfss_delta, msg.run, loc[p].output)
                     ELSE Unshared(loc[p].output)
             cached == WithoutTail(rcv[p].cached, loc[p].output) \o made
             r == ReceiverSeeds(rcv[p], cached, loc[p].new_vole, loc[p].new_mpfss)
  <1>1. /\ LocalTypes /\ GlobalTypes /\ ChannelInv /\ PartyInv(p)
        /\ loc[p] \in Locals /\ rcv[p] \in ReceiverState /\ params[p] \in Params
        /\ pc[p] = "masked" /\ Arrived(p, "masked") /\ AfterExpand(p)
        /\ rcv' = [rcv EXCEPT ![p] = r]
        /\ UNCHANGED <<script, results, snd>>
    BY InvParts, PartyTypes DEF ExpandReceiverDone, LocalTypes, app
  <1>2. channel[p] # <<>> /\ msg.run \in Nat
    BY <1>1, ArrivedTypes, MessageTypes
  <1> HIDE DEF msg
  <1>3. /\ loc[p].output \in Nat /\ loc[p].new_vole \in Nat /\ loc[p].new_mpfss \in Nat
        /\ loc[p].output >= loc[p].new_vole + loc[p].new_mpfss
        /\ rcv[p].mpfss_delta \in Nat /\ rcv[p].cached \in Vector
        /\ loc[p].output <= Len(rcv[p].cached) /\ Len(rcv[p].cached) \in Nat
    BY <1>1, SMTT(30) DEF Locals, ReceiverState, PartyInv, NextLevel, Seeded, Vector
  <1>4. made \in Vector /\ Len(made) = loc[p].output
    BY <1>2, <1>3, NewVectorTypes
  <1> HIDE DEF made
  <1>5. cached \in Vector /\ Len(cached) >= loc[p].new_vole + loc[p].new_mpfss
    <2>1. /\ WithoutTail(rcv[p].cached, loc[p].output) \in Vector
          /\ Len(WithoutTail(rcv[p].cached, loc[p].output)) >= 0
      BY <1>3, TailType
    <2> QED
      BY <1>3, <1>4, <2>1, ConcatType
  <1> HIDE DEF cached
  <1>6. /\ Len(r.vole_seed) = loc[p].new_vole /\ Len(r.mpfss_seed) = loc[p].new_mpfss
        /\ r.done = rcv[p].done
    <2>1. /\ loc[p].new_vole \in Nat /\ loc[p].new_mpfss \in Nat /\ rcv[p] \in ReceiverState
          /\ cached \in Vector /\ Len(cached) >= loc[p].new_vole + loc[p].new_mpfss
      BY <1>1, <1>3, <1>5
    <2> QED
      BY <2>1, ReceiverSeedsLengths, SMTT(30)
  <1> HIDE DEF r
  <1>7. /\ params'[p].vole_seed_size = loc[p].new_vole
        /\ params'[p].mpfss_seed_size = loc[p].new_mpfss
        /\ loc'[p].role = loc[p].role
    BY <1>1 DEF AfterExpand, NextParams, LocalTypes, Params, Locals
  <1>8. ~IsSender(p)
    BY <1>1 DEF SizesInv, PartySizes, OnTheWay, IsSender
  <1>9. SeedsOfNewLevel(p) /\ \A q \in Parties : q # p => rcv'[q] = rcv[q]
    BY <1>1, <1>6, <1>7, <1>8, ReceiverReseededTo
  <1> QED
    BY <1>1, <1>9, ExpandDoneSizes

\* The next seeds of the Sender.
LEMMA ExpandSenderDoneSizes ==
  ASSUME Inv, SizesInv, NEW p \in Parties, ExpandSenderDone(p)
  PROVE  SizesInv'
  <1> DEFINE delta == snd[p].vole_seed[1][1]
             made == IF Head(channel[p]).run = loc[p].run
                     THEN Fresh(delta, loc[p].run, loc[p].output)
                     ELSE Unshared(loc[p].output)
             cached == snd[p].cached \o made
             s == SenderSeeds(snd[p], cached, loc[p].new_vole, loc[p].new_mpfss)
  <1>1. /\ LocalTypes /\ GlobalTypes /\ ChannelInv /\ PartyInv(p)
        /\ loc[p] \in Locals /\ snd[p] \in SenderState /\ params[p] \in Params
        /\ pc[p] = "sums" /\ AfterExpand(p)
        /\ snd' = [snd EXCEPT ![p] = s]
        /\ UNCHANGED <<script, results, rcv>>
    BY InvParts, PartyTypes DEF ExpandSenderDone, LocalTypes, app
  <1>3. /\ loc[p].output \in Nat /\ loc[p].new_vole \in Nat /\ loc[p].new_mpfss \in Nat
        /\ loc[p].run \in Nat
        /\ loc[p].output >= loc[p].new_vole + loc[p].new_mpfss
        /\ snd[p].cached \in Vector /\ Len(snd[p].cached) \in Nat
        /\ snd[p].vole_seed \in Seq(Element) /\ Len(snd[p].vole_seed) >= 1
    BY <1>1, SMTT(30) DEF Locals, SenderState, PartyInv, NextLevel, Seeded, Vector
  <1>4. delta \in Nat
    <2>1. snd[p].vole_seed[1] \in Element
      BY <1>3
    <2> QED
      BY <2>1 DEF Element
  <1> HIDE DEF delta
  <1>5. made \in Vector /\ Len(made) = loc[p].output
    BY <1>3, <1>4, NewVectorTypes
  <1> HIDE DEF made
  <1>6. cached \in Vector /\ Len(cached) >= loc[p].new_vole + loc[p].new_mpfss
    BY <1>3, <1>5, ConcatType
  <1> HIDE DEF cached
  <1>7. /\ Len(s.vole_seed) = loc[p].new_vole /\ Len(s.mpfss_seed) = loc[p].new_mpfss
        /\ s.done = snd[p].done
    <2>1. /\ loc[p].new_vole \in Nat /\ loc[p].new_mpfss \in Nat /\ snd[p] \in SenderState
          /\ cached \in Vector /\ Len(cached) >= loc[p].new_vole + loc[p].new_mpfss
      BY <1>1, <1>3, <1>6
    <2> QED
      BY <2>1, SenderSeedsLengths, SMTT(30)
  <1> HIDE DEF s
  <1>8. /\ params'[p].vole_seed_size = loc[p].new_vole
        /\ params'[p].mpfss_seed_size = loc[p].new_mpfss
        /\ loc'[p].role = loc[p].role
    BY <1>1 DEF AfterExpand, NextParams, LocalTypes, Params, Locals
  <1>9. IsSender(p)
    BY <1>1 DEF SizesInv, PartySizes, OnTheWay, IsSender
  <1>10. SeedsOfNewLevel(p) /\ \A q \in Parties : q # p => snd'[q] = snd[q]
    BY <1>1, <1>7, <1>8, <1>9, SenderReseededTo
  <1> QED
    BY <1>1, <1>10, ExpandDoneSizes

-----------------------------------------------------------------------------
(* The invariant, and what follows.                                        *)

\* An object that has made no call has no seeds.
LEMMA InitSizes == Init => SizesInv
  <1> SUFFICES ASSUME Init, NEW p \in Parties PROVE PartySizes(p)
    BY DEF SizesInv
  <1>1. /\ script = <<>> /\ results[p] = <<>> /\ pc[p] = "idle"
        /\ params[p] = Construct /\ snd[p] = NoSender /\ rcv[p] = NoReceiver
    BY DEF Init
  <1>2. Len(results[p]) = 0 /\ Len(script) = 0
    BY <1>1
  <1>3. /\ ~snd[p].done /\ ~rcv[p].done /\ \A role : VoleLen(p, role) = 0
    BY <1>1 DEF NoSender, NoReceiver, VoleLen
  <1>4. /\ params[p].vole_seed_size = 0 /\ params[p].generator.rows = 0
        /\ params[p].generator.cols = 0
    BY <1>1 DEF Construct
  <1>5. SeedsOfLevel(p) /\ NotedLevel(p)
    BY <1>1, <1>3, <1>4 DEF SeedsOfLevel, NotedLevel
  <1>6. GeneratorOfLevel(p)
    BY <1>4, SizeTypes DEF GeneratorOfLevel
  <1>7. OnTheWay(p) /\ Stays(p)
    BY <1>1 DEF OnTheWay, Stays, Climbs, Renews
  <1>8. Called(p) /\ StillFits(p)
    BY <1>1, <1>2, <1>3 DEF Called, StillFits, DoneAs
  <1> QED
    BY <1>5, <1>6, <1>7, <1>8 DEF PartySizes

\* Every step keeps the sizes.
LEMMA NextSizes == Inv /\ SizesInv /\ [Next]_vars => SizesInv'
  <1> SUFFICES ASSUME Inv, SizesInv, [Next]_vars PROVE SizesInv'
    OBVIOUS
  <1>1. ASSUME NEW p \in Parties, NEW c \in Call, Invoke(p, c) PROVE SizesInv'
    BY <1>1, InvokeSizes
  <1>2. ASSUME NEW p \in Parties, Retry(p) PROVE SizesInv'
    BY <1>2, RetrySizes
  <1>3. ASSUME NEW p \in Parties, Step(p) PROVE SizesInv'
    BY <1>3, RejectBatchSizeSizes, PrecomputeSenderSizes, PrecomputeReceiverSizes,
       GilboaSenderSizes, GilboaReceiverSizes, BootstrapSizes, ChooseBatchSizeSizes,
       SendSeedSizes, ReceiveSeedSizes, ExpandWrongDimensionsSizes,
       ExpandSenderFailsSizes, ExpandSenderSizes, ExpandReceiverSizes,
       ExpandReceiverFailsSizes, ExpandReceiverDoneSizes, ExpandSenderDoneSizes,
       UsePrecomputedSizes, FetchCachedSizes, FetchOutOfRangeSizes,
       CopyWholeCacheSizes, CopyRemainingSizes
    DEF Step
  <1>4. CASE UNCHANGED vars
    <2>1. UNCHANGED <<script, results, pc, loc, params, snd, rcv>>
      BY <1>4 DEF vars, app, objects
    <2> QED
      BY <2>1, SameScript, OtherSizes DEF SizesInv
  <1> QED
    BY <1>1, <1>2, <1>3, <1>4 DEF Next

\* SizesInv is an invariant, for all parameters, roles, failures and retries.
THEOREM SizesInvariance == Spec => []SizesInv
  <1>1. Init => SizesInv
    BY InitSizes
  <1>2. Inv /\ SizesInv /\ [Next]_vars => SizesInv'
    BY NextSizes
  <1> QED
    BY <1>1, <1>2, Invariance, PTL DEF Spec

\* The generator that a steady object keeps fits its seeds.
LEMMA SizesAgree == Inv /\ SizesInv => DimensionsAgree
  <1> SUFFICES ASSUME Inv, SizesInv, NEW p \in Parties, pc[p] = "expand", Undisturbed(p)
               PROVE  DimensionsMatch(p)
    BY DEF DimensionsAgree
  <1>1. PartySizes(p) /\ Steady(p)
    BY UndisturbedSteady DEF SizesInv
  <1>2. PICK role : role = loc[p].role
    OBVIOUS
  <1>3. /\ role \in TwoRoles /\ Len(VoleSeed(p)) = VoleLen(p, role)
        /\ Done(p) = DoneAs(p, role)
    BY <1>2, DoneRole, InvParts, PartyTypes DEF TwoRoles, Locals
  <1>4. CASE ~loc[p].final
    BY <1>1, <1>2, <1>3, <1>4
    DEF PartySizes, OnTheWay, GeneratorOfLevel, Renews, DimensionsMatch
  <1>5. CASE loc[p].final
    <2>1. /\ loc[p].output = params[p].batch_size + SeedsLength(p)
          /\ ~NeedsPrecompute(p)
      BY <1>1, <1>5 DEF PartySizes, Stays
    <2>2. Fit(p, role)
      BY <1>1, <1>3, <2>1 DEF PartySizes, StillFits, Settled, NeedsPrecompute
    <2> QED
      BY <1>3, <2>1, <2>2 DEF Fit, DimensionsMatch
  <1> QED
    BY <1>4, <1>5

\* "Code generator has the wrong dimensions" (distributed_vector_ole.h:427-432)
\* is not the outcome of a call on an object that has had one role and no failure:
\* for all parameters, numbers of calls and sizes.
THEOREM DimensionsHold == Spec => []DimensionsAgree
  <1>1. Inv /\ SizesInv => DimensionsAgree
    BY SizesAgree
  <1> QED
    BY <1>1, Invariance, SizesInvariance, PTL

\* Seeds, noise and generator that fit are of one level.
LEMMA SizesFit == Inv /\ SizesInv => ExpansionFits
  <1> SUFFICES ASSUME Inv, SizesInv, NEW p \in Parties, pc[p] = "expand", DimensionsMatch(p)
               PROVE  \E i \in Levels :
                        /\ num_noise_indices[i] = params[p].num_noise
                        /\ Len(VoleSeed(p)) = seed_size[i]
                        /\ Len(MpfssSeed(p)) = NumBuckets[num_noise_indices[i]]
                        /\ loc[p].output <= output_size[i]
    BY DEF ExpansionFits
  <1>1. PartySizes(p)
    BY DEF SizesInv
  <1>2. PICK role : role = loc[p].role
    OBVIOUS
  <1>3. /\ role \in TwoRoles /\ Len(VoleSeed(p)) = VoleLen(p, role)
        /\ Len(MpfssSeed(p)) = MpfssLen(p, role)
    BY <1>2, DoneRole, InvParts, PartyTypes DEF TwoRoles, Locals
  <1>4. PICK i \in Levels : Level(p, i)
    BY <1>1 DEF PartySizes, NotedLevel
  <1>5. VoleLen(p, role) = VoleSize(i) /\ loc[p].output <= output_size[i]
    BY <1>1, <1>3, <1>4
    DEF PartySizes, GeneratorOfLevel, Renews, DimensionsMatch, Level, AtLevel
  <1>6. MpfssLen(p, role) = MpfssSize(i)
    <2>1. VoleLen(p, role) # 0
      BY <1>4, <1>5, SizeTypes
    <2>2. PICK j \in Levels : VoleLen(p, role) = VoleSize(j) /\ MpfssLen(p, role) = MpfssSize(j)
      BY <1>1, <1>3, <2>1 DEF PartySizes, SeedsOfLevel
    <2>3. j = i
      BY <1>4, <1>5, <2>2, LevelsAssumption DEF VoleSize
    <2> QED
      BY <2>2, <2>3
  <1> QED
    BY <1>3, <1>4, <1>5, <1>6 DEF Level, VoleSize, MpfssSize

\* An expansion that passes the check of the dimensions has both seeds of one
\* level, with its noise, and an output that the level supports: for all
\* parameters, and whatever roles, failures and retries came before
\* (distributed_vector_ole.h:37-42, mpfss_known_indices.h:95, 102-103).
THEOREM ExpansionsFit == Spec => []ExpansionFits
  <1>1. Inv /\ SizesInv => ExpansionFits
    BY SizesFit
  <1> QED
    BY <1>1, Invariance, SizesInvariance, PTL

-----------------------------------------------------------------------------
(***************************************************************************)
(* No element of a Vector-OLE is used twice (NoReuse, SeedsNotReturned,    *)
(* SeedsSpentOnce of OLEProperties): for all parameters, sequences of      *)
(* calls in changing roles, failures, and repeated calls.                  *)
(*                                                                         *)
(* An element is named by the random experiment that made it.  ReuseInv    *)
(* says of each end that the experiments behind its vectors as a Sender,   *)
(* its vectors as a Receiver, the messages on their way to it and the      *)
(* expansion that it has begun are different ones (RunsApart), so that     *)
(* what is added to a cache is new; that the vectors of one role have no   *)
(* element in common (Tidy), which cutting and copying preserve; that of   *)
(* an exchange in MPFSS one message at most is on its way (Exchange); and  *)
(* what spent seeds cannot meet again (Spent).                             *)
(***************************************************************************)
Roles == {"sender", "receiver"}

RunsOf(S) == {e[2] : e \in S}

-----------------------------------------------------------------------------
(* The vectors of one role.                                                *)

\* No element is in two of the vectors, or twice in one of them.
Tidy(returned, copied, cached, vole, mpfss) ==
  /\ NoRepeats(copied) /\ NoRepeats(cached) /\ NoRepeats(vole) /\ NoRepeats(mpfss)
  /\ returned \cap Shared(copied) = {} /\ returned \cap Shared(cached) = {}
  /\ returned \cap Shared(vole) = {} /\ returned \cap Shared(mpfss) = {}
  /\ Shared(copied) \cap Shared(cached) = {} /\ Shared(copied) \cap Shared(vole) = {}
  /\ Shared(copied) \cap Shared(mpfss) = {} /\ Shared(cached) \cap Shared(vole) = {}
  /\ Shared(cached) \cap Shared(mpfss) = {} /\ Shared(vole) \cap Shared(mpfss) = {}

Stock(returned, copied, cached, vole, mpfss) ==
  returned \cup Shared(copied) \cup Shared(cached) \cup Shared(vole) \cup Shared(mpfss)

Returned(p, role) ==
  UNION {Shared(results[p][k].elements) :
           k \in {k \in DOMAIN results[p] : results[p][k].role = role}}

Copied(p, role) == IF loc[p].role = role THEN loc[p].copied ELSE <<>>

TidySender(p) ==
  Tidy(Returned(p, "sender"), Copied(p, "sender"),
       snd[p].cached, snd[p].vole_seed, snd[p].mpfss_seed)
TidyReceiver(p) ==
  Tidy(Returned(p, "receiver"), Copied(p, "receiver"),
       rcv[p].cached, rcv[p].vole_seed, rcv[p].mpfss_seed)

SenderStock(p) ==
  Stock(Returned(p, "sender"), Copied(p, "sender"),
        snd[p].cached, snd[p].vole_seed, snd[p].mpfss_seed)
ReceiverStock(p) ==
  Stock(Returned(p, "receiver"), Copied(p, "receiver"),
        rcv[p].cached, rcv[p].vole_seed, rcv[p].mpfss_seed)

SenderRuns(p) == RunsOf(SenderStock(p))
ReceiverRuns(p) == RunsOf(ReceiverStock(p))

\* No element is in two results.
ResultsApart(p) ==
  \A j \in DOMAIN results[p] :
    /\ NoRepeats(results[p][j].elements)
    /\ \A k \in DOMAIN results[p] \ {j} :
         Shared(results[p][j].elements) \cap Shared(results[p][k].elements) = {}

-----------------------------------------------------------------------------
(* The random experiments.                                                 *)

\* Those that a message makes elements of.
MessageRuns(msg) ==
  IF msg.kind = "w" THEN RunsOf(Shared(msg.vec))
  ELSE IF msg.kind = "masked" THEN {msg.run} ELSE {}

InFlight(messages) == UNION {MessageRuns(messages[k]) : k \in DOMAIN messages}

\* S and R are the runs of an end's vectors in the two roles, and W that of the
\* expansion it has begun; n runs have been made so far.
Apart(S, R, W, messages, n) ==
  /\ S \cap R = {} /\ S \cap W = {} /\ R \cap W = {}
  /\ InFlight(messages) \cap (S \cup R \cup W) = {}
  /\ S \cup R \cup W \cup InFlight(messages) \subseteq 1 .. n
  /\ \A j \in DOMAIN messages :
       /\ messages[j].kind = "w" => NoRepeats(messages[j].vec)
       /\ \A k \in DOMAIN messages \ {j} :
            MessageRuns(messages[j]) \cap MessageRuns(messages[k]) = {}

Begun(p) == IF pc[p] = "sums" THEN {loc[p].run} ELSE {}

RunsApart(p) == Apart(SenderRuns(p), ReceiverRuns(p), Begun(p), channel[p], serial)

\* A Sender in MPFSS has sent its masked values, or they have arrived, or the
\* answer to them is on its way; there is nothing of an earlier exchange.
OneExchange(open, run, out, in) ==
  /\ \A j \in DOMAIN out : out[j].kind = "masked" =>
       /\ open /\ out[j].run = run
       /\ \A k \in DOMAIN out : out[k].kind = "masked" => k = j
       /\ \A k \in DOMAIN in : in[k].kind # "sums"
  /\ \A j \in DOMAIN in : in[j].kind = "sums" =>
       /\ open /\ in[j].run = run
       /\ \A k \in DOMAIN in : in[k].kind = "sums" => k = j

Exchange(p) ==
  OneExchange(pc[p] = "sums", loc[p].run, channel[Peer(p)], channel[p])

\* Spent elements are in no vector, except for the seeds of an expansion that has
\* begun; and the Sender's vectors hold nothing but elements it has from a run.
AllShared(vec) == \A i \in DOMAIN vec : vec[i][2] # 0

Spent(p) ==
  /\ \A e \in spent[p] : e[2] # 0
  /\ RunsOf(spent[p]) \subseteq 1 .. serial
  /\ RunsOf(spent[p]) \cap Begun(p) = {}
  /\ spent[p] \cap Returned(p, "sender") = {}
  /\ spent[p] \cap Shared(Copied(p, "sender")) = {}
  /\ spent[p] \cap Shared(snd[p].cached) = {}
  /\ pc[p] # "sums" => /\ spent[p] \cap Shared(snd[p].vole_seed) = {}
                       /\ spent[p] \cap Shared(snd[p].mpfss_seed) = {}
  /\ AllShared(snd[p].vole_seed) /\ AllShared(snd[p].mpfss_seed)
  /\ AllShared(snd[p].cached) \/ (pc[p] = "gilboa" /\ IsSender(p))

\* What has been copied belongs to a call in one of the roles.
CopiedInCall(p) == loc[p].role = "none" => loc[p].copied = <<>>

Holds(p) ==
  /\ ResultsApart(p) /\ TidySender(p) /\ TidyReceiver(p) /\ CopiedInCall(p)
  /\ RunsApart(p) /\ Spent(p)

ReuseInv == \A p \in Parties : Holds(p) /\ Exchange(p)

-----------------------------------------------------------------------------
(* Vectors: what cutting, joining and making them does to their elements.  *)

\* The elements of a vector, by position.
LEMMA SharedElements ==
  ASSUME NEW vec \in Vector
  PROVE  /\ DOMAIN vec = 1 .. Len(vec) /\ Len(vec) \in Nat
         /\ \A e : e \in Shared(vec) <=>
              \E i \in 1 .. Len(vec) : vec[i] = e /\ e[2] # 0
         /\ RunsOf(Shared(vec)) \subseteq Nat \ {0}
  <1>1. DOMAIN vec = 1 .. Len(vec) /\ Len(vec) \in Nat
    BY DEF Vector
  <1>2. \A i \in 1 .. Len(vec) : vec[i] \in Element
    BY DEF Vector
  <1>3. \A e : e \in Shared(vec) <=>
              \E i \in 1 .. Len(vec) : vec[i] = e /\ e[2] # 0
    BY <1>1 DEF Shared, ToSet
  <1>4. RunsOf(Shared(vec)) \subseteq Nat \ {0}
    BY <1>2, <1>3 DEF RunsOf, Element
  <1> QED
    BY <1>1, <1>3, <1>4

\* The tail that Get*Cached takes and what it leaves have no element in common.
LEMMA SharedSplit ==
  ASSUME NEW vec \in Vector, NEW n \in Nat, n <= Len(vec)
  PROVE  /\ Shared(TailOf(vec, n)) \subseteq Shared(vec)
         /\ Shared(WithoutTail(vec, n)) \subseteq Shared(vec)
         /\ NoRepeats(vec) =>
              /\ NoRepeats(TailOf(vec, n)) /\ NoRepeats(WithoutTail(vec, n))
              /\ Shared(TailOf(vec, n)) \cap Shared(WithoutTail(vec, n)) = {}
         /\ AllShared(vec) => AllShared(TailOf(vec, n)) /\ AllShared(WithoutTail(vec, n))
  <1> DEFINE tail == TailOf(vec, n)
             rest == WithoutTail(vec, n)
             m == Len(vec) - n
  <1>1. m \in Nat /\ Len(vec) = m + n /\ DOMAIN vec = 1 .. m + n
    BY SharedElements
  <1>2. /\ tail \in Vector /\ Len(tail) = n /\ DOMAIN tail = 1 .. n
        /\ rest \in Vector /\ Len(rest) = m /\ DOMAIN rest = 1 .. m
    <2>1. tail \in Vector /\ Len(tail) = n /\ rest \in Vector /\ Len(rest) = m
      BY TailType
    <2> QED
      BY <2>1 DEF Vector
  <1>3. \A i \in 1 .. n : tail[i] = vec[m + i]
    <2>1. \A i \in m + 1 .. Len(vec) : vec[i] \in Element
      BY <1>1 DEF Vector
    <2>2. tail = SubSeq(vec, m + 1, Len(vec)) /\ m + 1 \in Int /\ Len(vec) \in Int
      BY <1>1 DEF TailOf
    <2> HIDE DEF tail, m
    <2>3. \A i \in 1 .. Len(vec) - (m + 1) + 1 : tail[i] = vec[(m + 1) + i - 1]
      BY <2>1, <2>2, SubSeqProperties
    <2>4. /\ Len(vec) - (m + 1) + 1 = n
          /\ \A i \in 1 .. n : (m + 1) + i - 1 = m + i
      BY <1>1
    <2> QED
      BY <2>3, <2>4
  <1>4. \A i \in 1 .. m : rest[i] = vec[i]
    <2>1. \A i \in 1 .. m : vec[i] \in Element
      BY <1>1 DEF Vector
    <2> QED
      BY <1>1, <2>1, SubSeqProperties DEF WithoutTail
  <1> HIDE DEF tail, rest, m
  <1>5. \A i \in 1 .. n : m + i \in 1 .. m + n
    BY <1>1
  <1>6. \A i \in 1 .. m : i \in 1 .. m + n
    BY <1>1
  <1>7. Shared(tail) \subseteq Shared(vec) /\ Shared(rest) \subseteq Shared(vec)
    <2>1. ASSUME NEW e \in Shared(tail) PROVE e \in Shared(vec)
      <3>1. PICK i \in 1 .. n : tail[i] = e /\ e[2] # 0
        BY <1>2, SharedElements
      <3>2. m + i \in 1 .. Len(vec) /\ vec[m + i] = e
        BY <1>1, <1>3, <1>5, <3>1
      <3> QED
        BY <3>1, <3>2, SharedElements
    <2>2. ASSUME NEW e \in Shared(rest) PROVE e \in Shared(vec)
      <3>1. PICK i \in 1 .. m : rest[i] = e /\ e[2] # 0
        BY <1>2, SharedElements
      <3>2. i \in 1 .. Len(vec) /\ vec[i] = e
        BY <1>1, <1>4, <1>6, <3>1
      <3> QED
        BY <3>1, <3>2, SharedElements
    <2> QED
      BY <2>1, <2>2
  <1>8. ASSUME NoRepeats(vec)
        PROVE  /\ NoRepeats(tail) /\ NoRepeats(rest)
               /\ Shared(tail) \cap Shared(rest) = {}
    <2>1. NoRepeats(tail)
      <3> SUFFICES ASSUME NEW i \in 1 .. n, NEW j \in 1 .. n,
                          tail[i] = tail[j], tail[i][2] # 0
                   PROVE  i = j
        BY <1>2 DEF NoRepeats
      <3>1. m + i = m + j
        <4>1. PICK a, b : a = m + i /\ b = m + j
          OBVIOUS
        <4>2. /\ a \in DOMAIN vec /\ b \in DOMAIN vec
              /\ vec[a] = vec[b] /\ vec[a][2] # 0
          BY <1>1, <1>3, <1>5, <4>1
        <4> QED
          BY <1>8, <4>1, <4>2 DEF NoRepeats
      <3> QED
        BY <3>1, <1>1
    <2>2. NoRepeats(rest)
      BY <1>1, <1>2, <1>4, <1>6, <1>8 DEF NoRepeats
    <2>3. ASSUME NEW e \in Shared(tail), e \in Shared(rest) PROVE FALSE
      <3>1. PICK i \in 1 .. n : tail[i] = e /\ e[2] # 0
        BY <1>2, SharedElements
      <3>2. PICK j \in 1 .. m : rest[j] = e
        BY <1>2, <2>3, SharedElements
      <3>3. /\ m + i \in DOMAIN vec /\ j \in DOMAIN vec
            /\ vec[m + i] = vec[j] /\ vec[m + i][2] # 0
        BY <1>1, <1>3, <1>4, <1>5, <1>6, <3>1, <3>2
      <3>4. m + i = j
        BY <1>8, <3>3 DEF NoRepeats
      <3> QED
        BY <1>1, <3>4
    <2> QED
      BY <2>1, <2>2, <2>3
  <1>9. AllShared(vec) => AllShared(tail) /\ AllShared(rest)
    BY <1>1, <1>2, <1>3, <1>4, <1>5, <1>6 DEF AllShared
  <1> QED
    BY <1>7, <1>8, <1>9 DEF tail, rest

\* Appending joins the elements.
LEMMA SharedJoin ==
  ASSUME NEW a \in Vector, NEW b \in Vector
  PROVE  /\ Shared(a \o b) = Shared(a) \cup Shared(b)
         /\ NoRepeats(a) /\ NoRepeats(b) /\ Shared(a) \cap Shared(b) = {}
              => NoRepeats(a \o b)
         /\ AllShared(a) /\ AllShared(b) => AllShared(a \o b)
  <1> DEFINE c == a \o b
             m == Len(a)
             n == Len(b)
  <1>1. /\ c \in Vector /\ Len(c) = m + n /\ m \in Nat /\ n \in Nat
        /\ DOMAIN a = 1 .. m /\ DOMAIN b = 1 .. n /\ DOMAIN c = 1 .. m + n
    BY ConcatType, SharedElements
  <1>2. \A i \in 1 .. m + n : c[i] = IF i <= m THEN a[i] ELSE b[i - m]
    BY ConcatProperties DEF Vector
  <1> HIDE DEF c, m, n
  <1>3. /\ \A i \in 1 .. m : i \in 1 .. m + n /\ c[i] = a[i]
        /\ \A i \in 1 .. n : m + i \in 1 .. m + n /\ c[m + i] = b[i]
    BY <1>1, <1>2
  <1>4. \A i \in 1 .. m + n : \/ i \in 1 .. m /\ c[i] = a[i]
                              \/ i - m \in 1 .. n /\ c[i] = b[i - m]
    BY <1>1, <1>2
  <1>5. /\ \A e : e \in Shared(a) <=> \E i \in 1 .. m : a[i] = e /\ e[2] # 0
        /\ \A e : e \in Shared(b) <=> \E i \in 1 .. n : b[i] = e /\ e[2] # 0
        /\ \A e : e \in Shared(c) <=> \E i \in 1 .. m + n : c[i] = e /\ e[2] # 0
    BY <1>1, SharedElements DEF m, n
  <1>6. Shared(c) = Shared(a) \cup Shared(b)
    <2>1. ASSUME NEW e \in Shared(c) PROVE e \in Shared(a) \cup Shared(b)
      BY <1>4, <1>5
    <2>2. ASSUME NEW e \in Shared(a) PROVE e \in Shared(c)
      BY <1>3, <1>5
    <2>3. ASSUME NEW e \in Shared(b) PROVE e \in Shared(c)
      BY <1>3, <1>5
    <2> QED
      BY <2>1, <2>2, <2>3
  <1>7. ASSUME NoRepeats(a), NoRepeats(b), Shared(a) \cap Shared(b) = {}
        PROVE  NoRepeats(c)
    <2> SUFFICES ASSUME NEW i \in 1 .. m + n, NEW j \in 1 .. m + n,
                        c[i] = c[j], c[i][2] # 0
                 PROVE  i = j
      BY <1>1 DEF NoRepeats
    <2>1. CASE i \in 1 .. m /\ j \in 1 .. m
      BY <1>1, <1>3, <1>7, <2>1 DEF NoRepeats
    <2>2. CASE i \notin 1 .. m /\ j \notin 1 .. m
      <3>1. i - m = j - m
        BY <1>1, <1>4, <1>7, <2>2 DEF NoRepeats
      <3> QED
        BY <3>1, <1>1
    <2>3. CASE i \in 1 .. m /\ j \notin 1 .. m
      BY <1>3, <1>4, <1>5, <1>7, <2>3
    <2>4. CASE i \notin 1 .. m /\ j \in 1 .. m
      BY <1>3, <1>4, <1>5, <1>7, <2>4
    <2> QED
      BY <2>1, <2>2, <2>3, <2>4
  <1>8. AllShared(a) /\ AllShared(b) => AllShared(c)
    BY <1>1, <1>4 DEF AllShared
  <1> QED
    BY <1>6, <1>7, <1>8 DEF c

\* An expansion makes new elements; resizing makes none.
LEMMA SharedNew ==
  ASSUME NEW len \in Nat, NEW delta \in Nat, NEW run \in Nat \ {0}
  PROVE  /\ NoRepeats(Fresh(delta, run, len)) /\ AllShared(Fresh(delta, run, len))
         /\ RunsOf(Shared(Fresh(delta, run, len))) \subseteq {run}
         /\ NoRepeats(Unshared(len)) /\ Shared(Unshared(len)) = {}
         /\ NoRepeats(<<>>) /\ Shared(<<>>) = {} /\ AllShared(<<>>)
  <1>1. /\ \A i \in 1 .. len : Fresh(delta, run, len)[i] = <<delta, run, i>>
        /\ DOMAIN Fresh(delta, run, len) = 1 .. len
    BY DEF Fresh
  <1>2. NoRepeats(Fresh(delta, run, len)) /\ AllShared(Fresh(delta, run, len))
    BY <1>1 DEF NoRepeats, AllShared
  <1>3. RunsOf(Shared(Fresh(delta, run, len))) \subseteq {run}
    <2>1. \A e \in Shared(Fresh(delta, run, len)) :
            \E i \in 1 .. len : e = <<delta, run, i>>
      BY <1>1 DEF Shared, ToSet
    <2> QED
      BY <2>1 DEF RunsOf
  <1>4. NoRepeats(Unshared(len)) /\ Shared(Unshared(len)) = {}
    BY DEF NoRepeats, Shared, ToSet, Unshared
  <1>5. NoRepeats(<<>>) /\ Shared(<<>>) = {} /\ AllShared(<<>>)
    BY DEF NoRepeats, Shared, ToSet, AllShared
  <1> QED
    BY <1>2, <1>3, <1>4, <1>5

\* The runs of more elements are more runs; elements of different runs differ.
LEMMA RunsOfSets ==
  ASSUME NEW A, NEW B
  PROVE  /\ RunsOf(A \cup B) = RunsOf(A) \cup RunsOf(B)
         /\ A \subseteq B => RunsOf(A) \subseteq RunsOf(B)
         /\ RunsOf(A) \cap RunsOf(B) = {} => A \cap B = {}
         /\ RunsOf({}) = {}
  BY DEF RunsOf

-----------------------------------------------------------------------------
(* What the steps of a call do to the vectors of a role.                   *)

\* What has been copied is dropped (Return, Invoke, Retry), or the cache is
\* replaced by one that has no other elements.
LEMMA TidyLess ==
  ASSUME NEW ret, NEW copied, NEW cached, NEW vole, NEW mpfss,
         Tidy(ret, copied, cached, vole, mpfss),
         NEW new, NoRepeats(new), Shared(new) \subseteq Shared(cached)
  PROVE  /\ Tidy(ret, <<>>, cached, vole, mpfss)
         /\ Tidy(ret, copied, new, vole, mpfss)
         /\ Stock(ret, <<>>, cached, vole, mpfss)
              \subseteq Stock(ret, copied, cached, vole, mpfss)
         /\ Stock(ret, copied, new, vole, mpfss)
              \subseteq Stock(ret, copied, cached, vole, mpfss)
  <1>1. NoRepeats(<<>>) /\ Shared(<<>>) = {}
    BY SharedNew
  <1> QED
    BY <1>1 DEF Tidy, Stock

\* Elements that were copied or cached are returned, others stay cached.
LEMMA TidyReturn ==
  ASSUME NEW ret, NEW copied, NEW cached, NEW vole, NEW mpfss,
         Tidy(ret, copied, cached, vole, mpfss),
         NEW elements, NEW rest, NoRepeats(elements), NoRepeats(rest),
         Shared(elements) \cup Shared(rest) \subseteq Shared(copied) \cup Shared(cached),
         Shared(elements) \cap Shared(rest) = {}
  PROVE  /\ Tidy(ret \cup Shared(elements), <<>>, rest, vole, mpfss)
         /\ Stock(ret \cup Shared(elements), <<>>, rest, vole, mpfss)
              \subseteq Stock(ret, copied, cached, vole, mpfss)
         /\ ret \cap Shared(elements) = {}
  <1>1. NoRepeats(<<>>) /\ Shared(<<>>) = {}
    BY SharedNew
  <1> QED
    BY <1>1 DEF Tidy, Stock

\* The whole cache is copied.
LEMMA TidyCopy ==
  ASSUME NEW ret, NEW copied \in Vector, NEW cached \in Vector, NEW vole, NEW mpfss,
         Tidy(ret, copied, cached, vole, mpfss)
  PROVE  /\ Tidy(ret, copied \o cached, <<>>, vole, mpfss)
         /\ Stock(ret, copied \o cached, <<>>, vole, mpfss)
              = Stock(ret, copied, cached, vole, mpfss)
  <1>1. NoRepeats(<<>>) /\ Shared(<<>>) = {}
    BY SharedNew
  <1>2. /\ NoRepeats(copied \o cached)
        /\ Shared(copied \o cached) = Shared(copied) \cup Shared(cached)
    BY SharedJoin DEF Tidy
  <1> QED
    BY <1>1, <1>2 DEF Tidy, Stock

\* Seeds are taken from the end of a vector, the rest of it is cached.
LEMMA TidySeeds ==
  ASSUME NEW ret, NEW copied, NEW vec \in Vector, NEW v \in Nat, NEW m \in Nat,
         Len(vec) >= v + m, NoRepeats(copied), NoRepeats(vec),
         ret \cap Shared(copied) = {}, ret \cap Shared(vec) = {},
         Shared(copied) \cap Shared(vec) = {}
  PROVE  LET rest == WithoutTail(vec, v)
         IN  /\ Tidy(ret, copied, WithoutTail(rest, m), TailOf(vec, v), TailOf(rest, m))
             /\ Stock(ret, copied, WithoutTail(rest, m), TailOf(vec, v), TailOf(rest, m))
                  \subseteq ret \cup Shared(copied) \cup Shared(vec)
             /\ AllShared(vec) => /\ AllShared(WithoutTail(rest, m))
                                  /\ AllShared(TailOf(vec, v))
                                  /\ AllShared(TailOf(rest, m))
  <1> DEFINE rest == WithoutTail(vec, v)
             vole == TailOf(vec, v)
             mpfss == TailOf(rest, m)
             cached == WithoutTail(rest, m)
  <1>1. Len(vec) \in Nat /\ v <= Len(vec) /\ m <= Len(vec) - v
    BY DEF Vector
  <1>2. rest \in Vector /\ Len(rest) = Len(vec) - v
    BY <1>1, TailType
  <1>3. /\ Shared(vole) \subseteq Shared(vec) /\ Shared(rest) \subseteq Shared(vec)
        /\ NoRepeats(vole) /\ NoRepeats(rest) /\ Shared(vole) \cap Shared(rest) = {}
        /\ AllShared(vec) => AllShared(vole) /\ AllShared(rest)
    BY <1>1, SharedSplit
  <1> HIDE DEF rest
  <1>4. /\ Shared(mpfss) \subseteq Shared(rest) /\ Shared(cached) \subseteq Shared(rest)
        /\ NoRepeats(mpfss) /\ NoRepeats(cached)
        /\ Shared(mpfss) \cap Shared(cached) = {}
        /\ AllShared(rest) => AllShared(mpfss) /\ AllShared(cached)
    BY <1>1, <1>2, <1>3, SharedSplit
  <1> HIDE DEF vole, mpfss, cached
  <1>5. /\ Tidy(ret, copied, cached, vole, mpfss)
        /\ Stock(ret, copied, cached, vole, mpfss)
             \subseteq ret \cup Shared(copied) \cup Shared(vec)
    BY <1>3, <1>4 DEF Tidy, Stock
  <1> QED
    BY <1>3, <1>4, <1>5 DEF rest, vole, mpfss, cached

-----------------------------------------------------------------------------
(* What they do to the runs.                                               *)

\* The rest of a channel.
LEMMA TailOfChannel ==
  ASSUME NEW c \in Seq(Message), c # <<>>
  PROVE  /\ Tail(c) \in Seq(Message) /\ Head(c) = c[1] /\ 1 \in DOMAIN c
         /\ \A k \in DOMAIN Tail(c) : /\ k + 1 \in DOMAIN c /\ k + 1 # 1
                                      /\ Tail(c)[k] = c[k + 1]
  BY HeadTailProperties, LenProperties

\* A channel with one more message.
LEMMA LongerChannel ==
  ASSUME NEW c \in Seq(Message), NEW msg \in Message
  PROVE  /\ Append(c, msg) \in Seq(Message)
         /\ \A k \in DOMAIN Append(c, msg) :
              \/ k \in DOMAIN c /\ Append(c, msg)[k] = c[k]
              \/ k \notin DOMAIN c /\ k = Len(c) + 1 /\ Append(c, msg)[k] = msg
  BY AppendProperties, LenProperties

\* Vectors are dropped, messages are received, runs are made.
LEMMA ApartLess ==
  ASSUME NEW S, NEW R, NEW W, NEW c \in Seq(Message), NEW n \in Nat,
         Apart(S, R, W, c, n),
         NEW S1 \in SUBSET S, NEW R1 \in SUBSET R, NEW W1 \in SUBSET W,
         NEW d, d = c \/ (c # <<>> /\ d = Tail(c)), NEW m \in Nat, n <= m
  PROVE  Apart(S1, R1, W1, d, m)
  <1>1. \A k \in DOMAIN d : \E j \in DOMAIN c :
          /\ d[k] = c[j]
          /\ \A i \in DOMAIN d \ {k} : \E h \in DOMAIN c \ {j} : d[i] = c[h]
    <2>1. CASE d = c
      BY <2>1
    <2>2. CASE c # <<>> /\ d = Tail(c)
      <3> SUFFICES ASSUME NEW k \in DOMAIN d
                   PROVE  /\ k + 1 \in DOMAIN c /\ d[k] = c[k + 1]
                          /\ \A i \in DOMAIN d \ {k} :
                               i + 1 \in DOMAIN c \ {k + 1} /\ d[i] = c[i + 1]
        OBVIOUS
      <3>1. DOMAIN d \subseteq Nat
        BY <2>2, TailOfChannel, LenProperties
      <3> QED
        BY <2>2, <3>1, TailOfChannel
    <2> QED
      BY <2>1, <2>2
  <1>2. InFlight(d) \subseteq InFlight(c)
    BY <1>1 DEF InFlight
  <1>3. 1 .. n \subseteq 1 .. m
    OBVIOUS
  <1>4. ASSUME NEW j \in DOMAIN d
        PROVE  /\ d[j].kind = "w" => NoRepeats(d[j].vec)
               /\ \A k \in DOMAIN d \ {j} : MessageRuns(d[j]) \cap MessageRuns(d[k]) = {}
    BY <1>1 DEF Apart
  <1> QED
    BY <1>2, <1>3, <1>4 DEF Apart

\* A message is sent that makes nothing, or elements of the next run.
LEMMA ApartSend ==
  ASSUME NEW S, NEW R, NEW W, NEW c \in Seq(Message), NEW n \in Nat,
         Apart(S, R, W, c, n), NEW msg \in Message, NEW m \in Nat, n <= m,
         MessageRuns(msg) \subseteq n + 1 .. m, msg.kind = "w" => NoRepeats(msg.vec)
  PROVE  Apart(S, R, W, Append(c, msg), m)
  <1> DEFINE d == Append(c, msg)
  <1>1. \A k \in DOMAIN d : \/ k \in DOMAIN c /\ d[k] = c[k]
                            \/ k \notin DOMAIN c /\ k = Len(c) + 1 /\ d[k] = msg
    BY LongerChannel
  <1> HIDE DEF d
  <1>2. InFlight(d) \subseteq InFlight(c) \cup MessageRuns(msg)
    BY <1>1 DEF InFlight
  <1>3. /\ 1 .. n \subseteq 1 .. m /\ MessageRuns(msg) \subseteq 1 .. m
        /\ MessageRuns(msg) \cap 1 .. n = {}
    OBVIOUS
  <1>4. \A k \in DOMAIN c : MessageRuns(c[k]) \subseteq 1 .. n
    BY DEF Apart, InFlight
  <1>5. ASSUME NEW j \in DOMAIN d, NEW k \in DOMAIN d \ {j}
        PROVE  MessageRuns(d[j]) \cap MessageRuns(d[k]) = {}
    BY <1>1, <1>3, <1>4 DEF Apart
  <1>6. \A j \in DOMAIN d : d[j].kind = "w" => NoRepeats(d[j].vec)
    BY <1>1 DEF Apart
  <1>7. S \cup R \cup W \subseteq 1 .. n /\ InFlight(c) \subseteq 1 .. n
    BY DEF Apart
  <1>8. /\ InFlight(d) \cap (S \cup R \cup W) = {}
        /\ S \cup R \cup W \cup InFlight(d) \subseteq 1 .. m
    BY <1>2, <1>3, <1>7 DEF Apart
  <1>9. S \cap R = {} /\ S \cap W = {} /\ R \cap W = {}
    BY DEF Apart
  <1> QED
    BY <1>5, <1>6, <1>8, <1>9 DEF Apart, d

\* The next run is the Sender's: elements of its own, or an expansion.
LEMMA ApartNew ==
  ASSUME NEW S, NEW R, NEW W, NEW c, NEW n \in Nat, Apart(S, R, W, c, n)
  PROVE  /\ Apart(S \cup {n + 1}, R, W, c, n + 1)
         /\ Apart(S, R, W \cup {n + 1}, c, n + 1)
  <1>1. n + 1 \notin 1 .. n /\ 1 .. n \subseteq 1 .. n + 1 /\ n + 1 \in 1 .. n + 1
    OBVIOUS
  <1> QED
    BY <1>1 DEF Apart

\* Received elements are the Receiver's.
LEMMA ApartReceive ==
  ASSUME NEW S, NEW R, NEW W, NEW c \in Seq(Message), c # <<>>, NEW n \in Nat,
         Apart(S, R, W, c, n)
  PROVE  Apart(S, R \cup MessageRuns(Head(c)), W, Tail(c), n)
  <1>1. MessageRuns(Head(c)) \subseteq InFlight(c)
    BY TailOfChannel DEF InFlight
  <1>2. MessageRuns(Head(c)) \cap InFlight(Tail(c)) = {}
    <2>1. \A k \in DOMAIN Tail(c) : MessageRuns(Tail(c)[k]) \cap MessageRuns(Head(c)) = {}
      BY TailOfChannel DEF Apart
    <2> QED
      BY <2>1 DEF InFlight
  <1>3. Apart(S, R, W, Tail(c), n)
    <2>1. S \in SUBSET S /\ R \in SUBSET R /\ W \in SUBSET W /\ n <= n
      OBVIOUS
    <2> QED
      BY <2>1, ApartLess
  <1> HIDE DEF MessageRuns
  <1> QED
    BY <1>1, <1>2, <1>3 DEF Apart

\* The elements of an expansion that has ended are the Sender's.
LEMMA ApartFinish ==
  ASSUME NEW S, NEW R, NEW W, NEW c, NEW n, Apart(S, R, W, c, n)
  PROVE  Apart(S \cup W, R, {}, c, n)
  BY DEF Apart

-----------------------------------------------------------------------------
(* What they do to an exchange.                                            *)

\* Messages of other kinds come and go.
LEMMA ExchangeOther ==
  ASSUME NEW open \in BOOLEAN, NEW run, NEW out \in Seq(Message), NEW in \in Seq(Message),
         OneExchange(open, run, out, in), NEW msg \in Message
  PROVE  /\ out # <<>> => OneExchange(open, run, Tail(out), in)
         /\ in # <<>> => OneExchange(open, run, out, Tail(in))
         /\ msg.kind # "masked" => OneExchange(open, run, Append(out, msg), in)
         /\ msg.kind # "sums" => OneExchange(open, run, out, Append(in, msg))
         /\ ~open => \A r : OneExchange(open, r, out, in)
  <1>1. ASSUME out # <<>> PROVE OneExchange(open, run, Tail(out), in)
    <2>1. DOMAIN Tail(out) \subseteq Nat
      BY <1>1, TailOfChannel, LenProperties
    <2>2. \A k \in DOMAIN Tail(out) : k + 1 \in DOMAIN out /\ Tail(out)[k] = out[k + 1]
      BY <1>1, TailOfChannel
    <2> QED
      BY <2>1, <2>2 DEF OneExchange
  <1>2. ASSUME in # <<>> PROVE OneExchange(open, run, out, Tail(in))
    <2>1. DOMAIN Tail(in) \subseteq Nat
      BY <1>2, TailOfChannel, LenProperties
    <2>2. \A k \in DOMAIN Tail(in) : k + 1 \in DOMAIN in /\ Tail(in)[k] = in[k + 1]
      BY <1>2, TailOfChannel
    <2> QED
      BY <2>1, <2>2 DEF OneExchange
  <1>3. ASSUME msg.kind # "masked" PROVE OneExchange(open, run, Append(out, msg), in)
    <2>1. \A k \in DOMAIN Append(out, msg) :
            \/ k \in DOMAIN out /\ Append(out, msg)[k] = out[k]
            \/ Append(out, msg)[k].kind # "masked"
      BY <1>3, LongerChannel
    <2> QED
      BY <2>1 DEF OneExchange
  <1>4. ASSUME msg.kind # "sums" PROVE OneExchange(open, run, out, Append(in, msg))
    <2>1. \A k \in DOMAIN Append(in, msg) :
            \/ k \in DOMAIN in /\ Append(in, msg)[k] = in[k]
            \/ Append(in, msg)[k].kind # "sums"
      BY <1>4, LongerChannel
    <2> QED
      BY <2>1 DEF OneExchange
  <1>5. ASSUME ~open, NEW r PROVE OneExchange(open, r, out, in)
    BY <1>5 DEF OneExchange
  <1> QED
    BY <1>1, <1>2, <1>3, <1>4, <1>5

\* What is in a channel after a message may have been received or sent.
Moved(c, d, msg) == d = c \/ (c # <<>> /\ d = Tail(c)) \/ d = Append(c, msg)

\* They do so in both directions.
LEMMA ExchangeMoved ==
  ASSUME NEW open \in BOOLEAN, NEW run, NEW out \in Seq(Message), NEW in \in Seq(Message),
         OneExchange(open, run, out, in),
         NEW msg \in Message, msg.kind \notin {"masked", "sums"},
         NEW out2, Moved(out, out2, msg), NEW in2, Moved(in, in2, msg)
  PROVE  OneExchange(open, run, out2, in2)
  <1>1. out2 \in Seq(Message) /\ OneExchange(open, run, out2, in)
    <2>1. CASE out2 = out
      BY <2>1
    <2>2. CASE out # <<>> /\ out2 = Tail(out)
      BY <2>2, TailOfChannel, ExchangeOther
    <2>3. CASE out2 = Append(out, msg)
      BY <2>3, LongerChannel, ExchangeOther
    <2> QED
      BY <2>1, <2>2, <2>3 DEF Moved
  <1>2. CASE in2 = in
    BY <1>1, <1>2
  <1>3. CASE in # <<>> /\ in2 = Tail(in)
    BY <1>1, <1>3, ExchangeOther
  <1>4. CASE in2 = Append(in, msg)
    BY <1>1, <1>4, ExchangeOther
  <1> QED
    BY <1>2, <1>3, <1>4 DEF Moved

\* The masked values are sent, ...
LEMMA ExchangeBegins ==
  ASSUME NEW run, NEW out \in Seq(Message), NEW in \in Seq(Message),
         OneExchange(FALSE, run, out, in),
         NEW msg \in Message, msg.kind = "masked"
  PROVE  OneExchange(TRUE, msg.run, Append(out, msg), in)
  <1>1. \A k \in DOMAIN Append(out, msg) :
          \/ k \in DOMAIN out /\ Append(out, msg)[k] = out[k]
          \/ k \notin DOMAIN out /\ k = Len(out) + 1 /\ Append(out, msg)[k] = msg
    BY LongerChannel
  <1>2. /\ \A k \in DOMAIN out : out[k].kind # "masked"
        /\ \A k \in DOMAIN in : in[k].kind # "sums"
    BY DEF OneExchange
  <1> QED
    BY <1>1, <1>2 DEF OneExchange

\* ... they are answered ...
LEMMA ExchangeAnswered ==
  ASSUME NEW open, NEW run, NEW out \in Seq(Message), NEW in \in Seq(Message),
         OneExchange(open, run, out, in), out # <<>>, Head(out).kind = "masked",
         NEW msg \in Message, msg.kind = "sums", msg.run = Head(out).run
  PROVE  OneExchange(open, run, Tail(out), Append(in, msg))
  <1>1. \A k \in DOMAIN Append(in, msg) :
          \/ k \in DOMAIN in /\ Append(in, msg)[k] = in[k]
          \/ k \notin DOMAIN in /\ k = Len(in) + 1 /\ Append(in, msg)[k] = msg
    BY LongerChannel
  <1>2. /\ 1 \in DOMAIN out /\ out[1].kind = "masked" /\ out[1].run = msg.run
        /\ \A k \in DOMAIN Tail(out) : /\ k + 1 \in DOMAIN out /\ k + 1 # 1
                                       /\ Tail(out)[k] = out[k + 1]
    BY TailOfChannel
  <1>3. \A k \in DOMAIN Tail(out) : Tail(out)[k].kind # "masked"
    BY <1>2 DEF OneExchange
  <1>4. open /\ msg.run = run /\ \A k \in DOMAIN in : in[k].kind # "sums"
    BY <1>2 DEF OneExchange
  <1> QED
    BY <1>1, <1>3, <1>4 DEF OneExchange

\* ... and the answer is received.
LEMMA ExchangeEnds ==
  ASSUME NEW run, NEW out \in Seq(Message), NEW in \in Seq(Message),
         OneExchange(TRUE, run, out, in), in # <<>>, Head(in).kind = "sums"
  PROVE  /\ Head(in).run = run
         /\ OneExchange(FALSE, run, out, Tail(in))
  <1>1. /\ 1 \in DOMAIN in /\ in[1].kind = "sums" /\ in[1] = Head(in)
        /\ \A k \in DOMAIN Tail(in) : /\ k + 1 \in DOMAIN in /\ k + 1 # 1
                                      /\ Tail(in)[k] = in[k + 1]
    BY TailOfChannel
  <1>2. /\ \A k \in DOMAIN Tail(in) : Tail(in)[k].kind # "sums"
        /\ \A k \in DOMAIN out : out[k].kind # "masked"
    BY <1>1 DEF OneExchange
  <1>3. Head(in).run = run
    BY <1>1 DEF OneExchange
  <1> QED
    BY <1>2, <1>3 DEF OneExchange

-----------------------------------------------------------------------------
(* Frames.                                                                 *)

\* The types of what an end has.
LEMMA EndTypes ==
  ASSUME Inv, NEW p \in Parties
  PROVE  /\ results[p] \in Seq(Result) /\ DOMAIN results[p] = 1 .. Len(results[p])
         /\ \A k \in DOMAIN results[p] : /\ results[p][k].elements \in Vector
                                         /\ results[p][k].role \in Roles
         /\ \A role \in Roles : Copied(p, role) \in Vector
         /\ loc[p].copied \in Vector /\ loc[p].run \in Nat
         /\ snd[p].cached \in Vector /\ snd[p].vole_seed \in Vector
         /\ snd[p].mpfss_seed \in Vector
         /\ rcv[p].cached \in Vector /\ rcv[p].vole_seed \in Vector
         /\ rcv[p].mpfss_seed \in Vector
         /\ channel[p] \in Seq(Message) /\ serial \in Nat
  <1>1. results[p] \in Seq(Result) /\ channel[p] \in Seq(Message) /\ serial \in Nat
    BY DEF Inv, TypeOK
  <1>2. DOMAIN results[p] = 1 .. Len(results[p])
    BY <1>1
  <1>3. \A k \in DOMAIN results[p] : results[p][k] \in Result
    BY <1>1
  <1>4. \A k \in DOMAIN results[p] : /\ results[p][k].elements \in Vector
                                     /\ results[p][k].role \in Roles
    BY <1>3 DEF Result, Roles
  <1>5. loc[p] \in Locals /\ snd[p] \in SenderState /\ rcv[p] \in ReceiverState
    BY InvParts, PartyTypes
  <1>6. loc[p].copied \in Vector /\ loc[p].run \in Nat
    BY <1>5 DEF Locals
  <1>7. \A role \in Roles : Copied(p, role) \in Vector
    BY <1>6 DEF Copied, Vector
  <1>8. /\ snd[p].cached \in Vector /\ snd[p].vole_seed \in Vector
        /\ snd[p].mpfss_seed \in Vector
        /\ rcv[p].cached \in Vector /\ rcv[p].vole_seed \in Vector
        /\ rcv[p].mpfss_seed \in Vector
    BY <1>5 DEF SenderState, ReceiverState
  <1> QED
    BY <1>1, <1>2, <1>4, <1>6, <1>7, <1>8

\* A step that leaves the vectors of p as a Sender alone, or drops what was copied.
SenderQuiet(p) ==
  /\ Returned(p, "sender")' = Returned(p, "sender")
  /\ Copied(p, "sender")' \in {Copied(p, "sender"), <<>>}
  /\ snd'[p].cached = snd[p].cached /\ snd'[p].vole_seed = snd[p].vole_seed
  /\ snd'[p].mpfss_seed = snd[p].mpfss_seed

ReceiverQuiet(p) ==
  /\ Returned(p, "receiver")' = Returned(p, "receiver")
  /\ Copied(p, "receiver")' \in {Copied(p, "receiver"), <<>>}
  /\ rcv'[p].cached = rcv[p].cached /\ rcv'[p].vole_seed = rcv[p].vole_seed
  /\ rcv'[p].mpfss_seed = rcv[p].mpfss_seed

\* The Sender's vectors stay apart, ...
LEMMA SenderKept ==
  ASSUME Inv, NEW p \in Parties, TidySender(p), SenderQuiet(p)
  PROVE  TidySender(p)' /\ SenderStock(p)' \subseteq SenderStock(p)
  <1> DEFINE ret == Returned(p, "sender")
             copied == Copied(p, "sender")
             cached == snd[p].cached
             vole == snd[p].vole_seed
             mpfss == snd[p].mpfss_seed
             next == Copied(p, "sender")'
  <1>1. /\ TidySender(p)' <=> Tidy(ret, next, cached, vole, mpfss)
        /\ SenderStock(p)' = Stock(ret, next, cached, vole, mpfss)
    BY DEF SenderQuiet, TidySender, SenderStock
  <1>2. next = copied \/ next = <<>>
    BY DEF SenderQuiet
  <1>3. Tidy(ret, copied, cached, vole, mpfss) /\ NoRepeats(cached)
    BY DEF TidySender, Tidy
  <1>4. SenderStock(p) = Stock(ret, copied, cached, vole, mpfss)
    BY DEF SenderStock
  <1> HIDE DEF ret, copied, cached, vole, mpfss, next
  <1>5. /\ Tidy(ret, next, cached, vole, mpfss)
        /\ Stock(ret, next, cached, vole, mpfss)
             \subseteq Stock(ret, copied, cached, vole, mpfss)
    BY <1>2, <1>3, TidyLess
  <1> QED
    BY <1>1, <1>4, <1>5

\* ... and so do the Receiver's.
LEMMA ReceiverKept ==
  ASSUME Inv, NEW p \in Parties, TidyReceiver(p), ReceiverQuiet(p)
  PROVE  TidyReceiver(p)' /\ ReceiverStock(p)' \subseteq ReceiverStock(p)
  <1> DEFINE ret == Returned(p, "receiver")
             copied == Copied(p, "receiver")
             cached == rcv[p].cached
             vole == rcv[p].vole_seed
             mpfss == rcv[p].mpfss_seed
             next == Copied(p, "receiver")'
  <1>1. /\ TidyReceiver(p)' <=> Tidy(ret, next, cached, vole, mpfss)
        /\ ReceiverStock(p)' = Stock(ret, next, cached, vole, mpfss)
    BY DEF ReceiverQuiet, TidyReceiver, ReceiverStock
  <1>2. next = copied \/ next = <<>>
    BY DEF ReceiverQuiet
  <1>3. Tidy(ret, copied, cached, vole, mpfss) /\ NoRepeats(cached)
    BY DEF TidyReceiver, Tidy
  <1>4. ReceiverStock(p) = Stock(ret, copied, cached, vole, mpfss)
    BY DEF ReceiverStock
  <1> HIDE DEF ret, copied, cached, vole, mpfss, next
  <1>5. /\ Tidy(ret, next, cached, vole, mpfss)
        /\ Stock(ret, next, cached, vole, mpfss)
             \subseteq Stock(ret, copied, cached, vole, mpfss)
    BY <1>2, <1>3, TidyLess
  <1> QED
    BY <1>1, <1>4, <1>5

\* Spent elements stay out of the Sender's vectors if they are not taken back.
LEMMA SpentStep ==
  ASSUME Inv, NEW p \in Parties, Spent(p), spent'[p] = spent[p],
         spent[p] \cap SenderStock(p)' = {}, pc'[p] # "sums",
         AllShared(snd'[p].vole_seed), AllShared(snd'[p].mpfss_seed),
         AllShared(snd'[p].cached) \/ (pc'[p] = "gilboa" /\ IsSender(p)'),
         serial' \in Nat, serial <= serial'
  PROVE  Spent(p)'
  <1>1. Begun(p)' = {} /\ 1 .. serial \subseteq 1 .. serial'
    BY DEF Begun, Inv, TypeOK
  <1>2. /\ spent[p] \cap Returned(p, "sender")' = {}
        /\ spent[p] \cap Shared(Copied(p, "sender"))' = {}
        /\ spent[p] \cap Shared(snd'[p].cached) = {}
        /\ spent[p] \cap Shared(snd'[p].vole_seed) = {}
        /\ spent[p] \cap Shared(snd'[p].mpfss_seed) = {}
    BY DEF SenderStock, Stock
  <1> QED
    BY <1>1, <1>2 DEF Spent

\* Outside of an exchange they are not in them.
LEMMA SpentOutside ==
  ASSUME NEW p \in Parties, Spent(p), pc[p] # "sums"
  PROVE  spent[p] \cap SenderStock(p) = {}
  BY DEF Spent, SenderStock, Stock

\* The messages to q: none is new, or one is, with elements of the next run at
\* most.
Delivers(msg, q) ==
  /\ msg \in Message /\ channel'[q] = Append(channel[q], msg)
  /\ MessageRuns(msg) \subseteq serial + 1 .. serial'
  /\ msg.kind = "w" => NoRepeats(msg.vec)

\* What a step of the other end leaves as it is.
SameEnd(q) ==
  /\ pc'[q] = pc[q] /\ loc'[q] = loc[q] /\ snd'[q] = snd[q] /\ rcv'[q] = rcv[q]
  /\ results'[q] = results[q] /\ spent'[q] = spent[q]

\* The end that a step does not belong to keeps its part of the invariant.
LEMMA OtherEnd ==
  ASSUME Inv, NEW q \in Parties, Holds(q), SameEnd(q),
         serial' \in Nat, serial <= serial',
         channel'[q] = channel[q] \/ \E msg : Delivers(msg, q)
  PROVE  Holds(q)'
  <1>1. /\ Returned(q, "sender")' = Returned(q, "sender")
        /\ Returned(q, "receiver")' = Returned(q, "receiver")
        /\ Copied(q, "sender")' = Copied(q, "sender")
        /\ Copied(q, "receiver")' = Copied(q, "receiver")
        /\ Begun(q)' = Begun(q)
    BY DEF SameEnd, Returned, Copied, Begun
  <1>2. ResultsApart(q)' /\ CopiedInCall(q)'
    BY DEF Holds, SameEnd, ResultsApart, CopiedInCall
  <1>3. /\ TidySender(q)' /\ TidyReceiver(q)'
        /\ SenderRuns(q)' = SenderRuns(q) /\ ReceiverRuns(q)' = ReceiverRuns(q)
    BY <1>1
    DEF Holds, SameEnd, TidySender, TidyReceiver, SenderRuns, ReceiverRuns,
        SenderStock, ReceiverStock
  <1>4. serial \in Nat /\ channel[q] \in Seq(Message) /\ 1 .. serial \subseteq 1 .. serial'
    BY EndTypes
  <1>5. Spent(q)'
    BY <1>1, <1>4 DEF Holds, Spent, SameEnd, IsSender
  <1>6. RunsApart(q)'
    <2> DEFINE S == SenderRuns(q)
               R == ReceiverRuns(q)
               W == Begun(q)
    <2>1. Apart(S, R, W, channel[q], serial)
      BY DEF Holds, RunsApart
    <2>2. S \in SUBSET S /\ R \in SUBSET R /\ W \in SUBSET W
      OBVIOUS
    <2> HIDE DEF S, R, W
    <2>3. Apart(S, R, W, channel'[q], serial')
      <3>1. CASE channel'[q] = channel[q]
        BY <1>4, <2>1, <2>2, <3>1, ApartLess
      <3>2. CASE \E msg : Delivers(msg, q)
        BY <1>4, <2>1, <3>2, ApartSend DEF Delivers
      <3> QED
        BY <3>1, <3>2
    <2> QED
      BY <1>1, <1>3, <2>3 DEF RunsApart, S, R, W
  <1> QED
    BY <1>2, <1>3, <1>5, <1>6 DEF Holds

\* What p receives, if anything.
Takes(p) == channel'[p] = channel[p] \/ (channel[p] # <<>> /\ channel'[p] = Tail(channel[p]))

\* A step that changes the vectors of p as a Receiver: it may receive elements.
LEMMA ReceiverStep ==
  ASSUME Inv, NEW p \in Parties, Holds(p), ResultsApart(p)', CopiedInCall(p)',
         SenderQuiet(p), TidyReceiver(p)', spent'[p] = spent[p],
         pc[p] # "sums", pc'[p] # "sums", ~(pc[p] = "gilboa" /\ IsSender(p)),
         serial' \in Nat, serial <= serial',
         \/ Takes(p) /\ ReceiverRuns(p)' \subseteq ReceiverRuns(p)
         \/ /\ channel[p] # <<>> /\ channel'[p] = Tail(channel[p])
            /\ ReceiverRuns(p)' \subseteq ReceiverRuns(p) \cup MessageRuns(Head(channel[p]))
  PROVE  Holds(p)'
  <1> DEFINE S == SenderRuns(p)
             R == ReceiverRuns(p)
             W == Begun(p)
             R1 == ReceiverRuns(p)'
             c == channel[p]
             d == channel'[p]
  <1>1. TidySender(p)' /\ SenderStock(p)' \subseteq SenderStock(p)
    BY SenderKept DEF Holds
  <1>2. Spent(p)'
    <2>1. /\ AllShared(snd[p].vole_seed) /\ AllShared(snd[p].mpfss_seed)
          /\ AllShared(snd[p].cached)
      BY DEF Holds, Spent
    <2>2. spent[p] \cap SenderStock(p)' = {}
      BY <1>1, SpentOutside DEF Holds
    <2> QED
      BY <2>1, <2>2, SpentStep DEF Holds, SenderQuiet
  <1>3. SenderRuns(p)' \in SUBSET S /\ Begun(p)' \in SUBSET W /\ W \in SUBSET W
    BY <1>1, RunsOfSets DEF SenderRuns, Begun
  <1>4. c \in Seq(Message) /\ serial \in Nat /\ Apart(S, R, W, c, serial)
    BY EndTypes DEF Holds, RunsApart
  <1> SUFFICES Apart(SenderRuns(p)', R1, Begun(p)', d, serial')
    BY <1>1, <1>2 DEF Holds, RunsApart
  <1>5. CASE Takes(p) /\ R1 \in SUBSET R
    <2> HIDE DEF S, R, W, R1
    <2> QED
      BY <1>3, <1>4, <1>5, ApartLess DEF Takes
  <1>6. CASE c # <<>> /\ d = Tail(c) /\ R1 \subseteq R \cup MessageRuns(Head(c))
    <2> HIDE DEF S, R, W, R1, c, d
    <2>1. Apart(S, R \cup MessageRuns(Head(c)), W, Tail(c), serial)
      BY <1>4, <1>6, ApartReceive
    <2>2. Tail(c) \in Seq(Message) /\ R1 \in SUBSET (R \cup MessageRuns(Head(c)))
      BY <1>4, <1>6, TailOfChannel
    <2> QED
      BY <1>3, <1>4, <1>6, <2>1, <2>2, ApartLess
  <1> QED
    BY <1>5, <1>6

\* A step that changes those of p as a Sender: they may get the elements of the
\* expansion that p had begun, or of the next run.
LEMMA SenderStep ==
  ASSUME Inv, NEW p \in Parties, Holds(p), ResultsApart(p)', CopiedInCall(p)',
         ReceiverQuiet(p), TidySender(p)', Spent(p)', pc'[p] # "sums",
         serial' \in {serial, serial + 1}, Takes(p),
         SenderRuns(p)' \subseteq SenderRuns(p) \cup Begun(p) \cup serial + 1 .. serial'
  PROVE  Holds(p)'
  <1> DEFINE S == SenderRuns(p)
             R == ReceiverRuns(p)
             W == Begun(p)
             S1 == SenderRuns(p)'
             R1 == ReceiverRuns(p)'
             c == channel[p]
             d == channel'[p]
             n == serial
  <1>1. TidyReceiver(p)' /\ R1 \in SUBSET R
    BY ReceiverKept, RunsOfSets DEF Holds, ReceiverRuns
  <1>2. c \in Seq(Message) /\ n \in Nat /\ Apart(S, R, W, c, n)
    BY EndTypes DEF Holds, RunsApart
  <1>3. Begun(p)' = {} /\ (d = c \/ (c # <<>> /\ d = Tail(c)))
    BY DEF Begun, Takes
  <1> HIDE DEF S, R, W, S1, R1, c, d
  <1>4. Apart(S \cup W, R, {}, c, n)
    BY <1>2, ApartFinish
  <1>5. Apart(S1, R1, {}, d, serial')
    <2>1. CASE serial' = n
      <3>1. S1 \in SUBSET (S \cup W) /\ n <= n /\ {} \in SUBSET {}
        BY <1>2, <2>1 DEF S, W, S1
      <3> QED
        BY <1>1, <1>2, <1>3, <1>4, <2>1, <3>1, ApartLess
    <2>2. CASE serial' = n + 1
      <3>1. Apart((S \cup W) \cup {n + 1}, R, {}, c, n + 1)
        BY <1>2, <1>4, ApartNew
      <3>2. /\ S1 \in SUBSET ((S \cup W) \cup {n + 1}) /\ n + 1 <= n + 1 /\ n + 1 \in Nat
            /\ {} \in SUBSET {}
        BY <1>2, <2>2 DEF S, W, S1
      <3> QED
        BY <1>1, <1>2, <1>3, <2>2, <3>1, <3>2, ApartLess
    <2> QED
      BY <2>1, <2>2
  <1> QED
    BY <1>1, <1>3, <1>5 DEF Holds, RunsApart, S1, R1, d

\* A step that begins, answers or ends no exchange.
LEMMA ExchangeKept ==
  ASSUME Inv, ReuseInv, NEW p \in Parties, NEW q \in Parties, q = Peer(p),
         pc[p] # "sums", pc'[p] # "sums", pc'[q] = pc[q], loc'[q] = loc[q],
         Takes(p),
         \/ channel'[q] = channel[q]
         \/ \E msg : Delivers(msg, q) /\ msg.kind \notin {"masked", "sums"}
  PROVE  Exchange(p)' /\ Exchange(q)'
  <1>1. p = Peer(q)
    BY PeerType, PartiesAssumption DEF Peer, Parties
  <1>2. /\ OneExchange(FALSE, loc[p].run, channel[q], channel[p])
        /\ OneExchange(pc[q] = "sums", loc[q].run, channel[p], channel[q])
    BY <1>1 DEF ReuseInv, Exchange
  <1>3. channel[p] \in Seq(Message) /\ channel[q] \in Seq(Message)
    BY EndTypes
  <1>4. PICK msg \in Message :
          /\ msg.kind \notin {"masked", "sums"}
          /\ channel'[q] = channel[q] \/ channel'[q] = Append(channel[q], msg)
    <2>1. [kind |-> "choices", delta |-> 0] \in Message
      BY DEF Message
    <2> QED
      BY <2>1 DEF Delivers
  <1>5. Moved(channel[p], channel'[p], msg) /\ Moved(channel[q], channel'[q], msg)
    BY <1>4 DEF Moved, Takes
  <1>6. /\ OneExchange(FALSE, loc[p].run, channel'[q], channel'[p])
        /\ OneExchange(pc[q] = "sums", loc[q].run, channel'[p], channel'[q])
    BY <1>2, <1>3, <1>4, <1>5, ExchangeMoved
  <1>7. OneExchange(FALSE, loc'[p].run, channel'[q], channel'[p])
    BY <1>6 DEF OneExchange
  <1>8. /\ OneExchange(FALSE, loc'[p].run, channel'[q], channel'[p]) => Exchange(p)'
        /\ OneExchange(pc[q] = "sums", loc[q].run, channel'[p], channel'[q])
             => Exchange(q)'
    BY <1>1 DEF Exchange
  <1> QED
    BY <1>6, <1>7, <1>8

-----------------------------------------------------------------------------
(* Returning to the application.                                           *)

\* A call that returns adds its elements to those returned in its role.
LEMMA ReturnStock ==
  ASSUME Inv, NEW p \in Parties, pc[p] # "idle", NEW ok, NEW elements,
         Return(p, ok, elements)
  PROVE  /\ loc[p].role \in Roles
         /\ \A role \in Roles :
              /\ Copied(p, role)' = <<>>
              /\ Returned(p, role)' = Returned(p, role) \cup
                   (IF role = loc[p].role THEN Shared(elements) ELSE {})
         /\ CopiedInCall(p)' /\ pc'[p] = "idle"
         /\ \A q \in Parties \ {p} : /\ pc'[q] = pc[q] /\ loc'[q] = loc[q]
                                     /\ results'[q] = results[q]
  <1> DEFINE delta == IF loc[p].role = "receiver" THEN rcv[p].delta ELSE 0
             result == [op |-> loc[p].op, role |-> loc[p].role, ok |-> ok,
                        elements |-> elements, delta |-> delta]
  <1>1. loc[p].role \in Roles /\ loc \in [Parties -> Locals] /\ pc \in Counters
    BY InvParts, PartyTypes DEF Locals, Roles, LocalTypes
  <1>2. /\ results' = [results EXCEPT ![p] = Append(@, result)]
        /\ loc'[p] = NoCall /\ pc'[p] = "idle"
        /\ \A q \in Parties \ {p} : pc'[q] = pc[q] /\ loc'[q] = loc[q]
    BY <1>1 DEF Return, Goto, Counters
  <1>3. results \in [Parties -> Seq(Result)]
    BY DEF Inv, TypeOK
  <1>4. result.role = loc[p].role /\ result.elements = elements
    OBVIOUS
  <1> HIDE DEF result
  <1> DEFINE n == Len(results[p])
  <1>5. /\ results'[p] = Append(results[p], result)
        /\ \A q \in Parties \ {p} : results'[q] = results[q]
    BY <1>2, <1>3
  <1>6. /\ n \in Nat /\ DOMAIN results[p] = 1 .. n /\ DOMAIN results'[p] = 1 .. n + 1
        /\ \A k \in 1 .. n : results'[p][k] = results[p][k]
        /\ results'[p][n + 1] = result
    BY <1>3, <1>5
  <1> HIDE DEF n
  <1>7. ASSUME NEW role \in Roles
        PROVE  /\ Copied(p, role)' = <<>>
               /\ Returned(p, role)' = Returned(p, role) \cup
                    (IF role = loc[p].role THEN Shared(elements) ELSE {})
    <2>1. Copied(p, role)' = <<>>
      BY <1>2, <1>7 DEF Copied, NoCall, Roles
    <2> DEFINE old == {k \in 1 .. n : results[p][k].role = role}
               new == {k \in 1 .. n + 1 : results'[p][k].role = role}
    <2>2. /\ Returned(p, role) = UNION {Shared(results[p][k].elements) : k \in old}
          /\ Returned(p, role)' = UNION {Shared(results'[p][k].elements) : k \in new}
      BY <1>6 DEF Returned
    <2>3. \A k \in 1 .. n + 1 : k \in 1 .. n \/ k = n + 1
      BY <1>6
    <2>4. new = old \cup (IF role = loc[p].role THEN {n + 1} ELSE {})
      BY <1>4, <1>6, <2>3
    <2>5. \A k \in old : k \in new /\ results'[p][k].elements = results[p][k].elements
      BY <1>6, <2>4
    <2> HIDE DEF new, old
    <2>6. Returned(p, role)' = Returned(p, role) \cup
                                 (IF role = loc[p].role THEN Shared(elements) ELSE {})
      BY <1>4, <1>6, <2>2, <2>4, <2>5
    <2> QED
      BY <2>1, <2>6
  <1>8. CopiedInCall(p)'
    BY <1>2 DEF CopiedInCall, NoCall
  <1> QED
    BY <1>1, <1>2, <1>5, <1>7, <1>8

\* The results stay apart if the new one has elements that were not returned.
LEMMA ReturnApart ==
  ASSUME Inv, NEW p \in Parties, ResultsApart(p), NEW ok, NEW elements,
         Return(p, ok, elements), NoRepeats(elements),
         \A role \in Roles : Returned(p, role) \cap Shared(elements) = {}
  PROVE  ResultsApart(p)'
  <1> DEFINE delta == IF loc[p].role = "receiver" THEN rcv[p].delta ELSE 0
             result == [op |-> loc[p].op, role |-> loc[p].role, ok |-> ok,
                        elements |-> elements, delta |-> delta]
             n == Len(results[p])
  <1>1. results' = [results EXCEPT ![p] = Append(@, result)]
    BY DEF Return
  <1>2. results \in [Parties -> Seq(Result)]
    BY DEF Inv, TypeOK
  <1>3. result.elements = elements
    OBVIOUS
  <1> HIDE DEF result
  <1>4. /\ n \in Nat /\ DOMAIN results[p] = 1 .. n /\ DOMAIN results'[p] = 1 .. n + 1
        /\ \A k \in 1 .. n : results'[p][k] = results[p][k]
        /\ results'[p][n + 1] = result
        /\ \A k \in 1 .. n + 1 : k \in 1 .. n \/ k = n + 1
    BY <1>1, <1>2
  <1>5. \A k \in 1 .. n : Shared(results[p][k].elements) \cap Shared(elements) = {}
    <2> SUFFICES ASSUME NEW k \in 1 .. n
                 PROVE  Shared(results[p][k].elements) \cap Shared(elements) = {}
      OBVIOUS
    <2>1. results[p][k].role \in Roles
      BY <1>4, EndTypes
    <2>2. Shared(results[p][k].elements) \subseteq Returned(p, results[p][k].role)
      BY <1>4 DEF Returned
    <2> QED
      BY <2>1, <2>2
  <1> HIDE DEF n
  <1> SUFFICES ASSUME NEW j \in 1 .. n + 1
               PROVE  /\ NoRepeats(results'[p][j].elements)
                      /\ \A k \in 1 .. n + 1 \ {j} :
                           Shared(results'[p][j].elements)
                             \cap Shared(results'[p][k].elements) = {}
    BY <1>4 DEF ResultsApart
  <1>6. CASE j \in 1 .. n
    BY <1>3, <1>4, <1>5, <1>6 DEF ResultsApart
  <1>7. CASE j = n + 1
    BY <1>3, <1>4, <1>5, <1>7 DEF ResultsApart
  <1> QED
    BY <1>4, <1>6, <1>7

-----------------------------------------------------------------------------
(* Steps that make, move and lose no element but those that were copied.   *)

\* There are two ends.
LEMMA BothEnds ==
  ASSUME NEW p \in Parties,
         Holds(p)', Exchange(p)', Holds(Peer(p))', Exchange(Peer(p))'
  PROVE  ReuseInv'
  <1>1. \A q \in Parties : q = p \/ q = Peer(p)
    BY DEF Parties, Peer
  <1> SUFFICES ASSUME NEW q \in Parties PROVE Holds(q)' /\ Exchange(q)'
    BY DEF ReuseInv
  <1>2. CASE q = p
    BY <1>2
  <1>3. CASE q = Peer(p)
    BY <1>3
  <1> QED
    BY <1>1, <1>2, <1>3

\* While no result is added, p has the vectors that its members hold.
LEMMA SameResults ==
  ASSUME Inv, NEW p \in Parties, Holds(p), results'[p] = results[p],
         \/ loc'[p].copied = <<>>
         \/ loc'[p].role = loc[p].role /\ loc'[p].copied = loc[p].copied
  PROVE  /\ ResultsApart(p)' /\ CopiedInCall(p)'
         /\ \A role \in Roles : /\ Returned(p, role)' = Returned(p, role)
                                /\ Copied(p, role)' \in {Copied(p, role), <<>>}
  <1>1. ResultsApart(p)' /\ CopiedInCall(p)'
    BY DEF Holds, ResultsApart, CopiedInCall
  <1>2. \A role \in Roles : /\ Returned(p, role)' = Returned(p, role)
                            /\ Copied(p, role)' \in {Copied(p, role), <<>>}
    BY DEF Returned, Copied
  <1> QED
    BY <1>1, <1>2

\* The same if a call returns no elements.
LEMMA EmptyResult ==
  ASSUME Inv, NEW p \in Parties, Holds(p), pc[p] # "idle", NEW ok, Return(p, ok, <<>>)
  PROVE  /\ ResultsApart(p)' /\ CopiedInCall(p)'
         /\ \A role \in Roles : /\ Returned(p, role)' = Returned(p, role)
                                /\ Copied(p, role)' \in {Copied(p, role), <<>>}
  <1>1. NoRepeats(<<>>) /\ Shared(<<>>) = {}
    BY SharedNew
  <1>2. ResultsApart(p)'
    BY <1>1, ReturnApart DEF Holds
  <1>3. /\ CopiedInCall(p)'
        /\ \A role \in Roles :
             /\ Copied(p, role)' = <<>>
             /\ Returned(p, role)' = Returned(p, role) \cup
                  (IF role = loc[p].role THEN Shared(<<>>) ELSE {})
    BY ReturnStock
  <1>4. \A role \in Roles : Returned(p, role)' = Returned(p, role)
    BY <1>1, <1>3
  <1> QED
    BY <1>2, <1>3, <1>4

SameMembers(p) ==
  /\ snd'[p].cached = snd[p].cached /\ snd'[p].vole_seed = snd[p].vole_seed
  /\ snd'[p].mpfss_seed = snd[p].mpfss_seed
  /\ rcv'[p].cached = rcv[p].cached /\ rcv'[p].vole_seed = rcv[p].vole_seed
  /\ rcv'[p].mpfss_seed = rcv[p].mpfss_seed

\* Nothing is sent, or a message without elements.
Tells(p) ==
  \/ channel'[Peer(p)] = channel[Peer(p)]
  \/ \E msg : Delivers(msg, Peer(p)) /\ msg.kind \notin {"masked", "sums"}

\* A step of p keeps the invariant if it keeps p's part and is not one of an
\* exchange.
LEMMA OwnInv ==
  ASSUME Inv, ReuseInv, NEW p \in Parties, Holds(p)',
         pc[p] # "sums", pc'[p] # "sums", \A q \in Parties \ {p} : SameEnd(q),
         serial' \in Nat, serial <= serial', Takes(p), Tells(p)
  PROVE  ReuseInv'
  <1> DEFINE q == Peer(p)
  <1>1. q \in Parties /\ q # p
    BY PeerType
  <1>2. Holds(q)'
    BY <1>1, OtherEnd DEF ReuseInv, Tells
  <1>3. Exchange(p)' /\ Exchange(q)'
    BY <1>1, ExchangeKept DEF SameEnd, Tells
  <1> QED
    BY <1>2, <1>3, BothEnds

\* It does if it changes no vector of p.
LEMMA QuietInv ==
  ASSUME Inv, ReuseInv, NEW p \in Parties, SameMembers(p),
         ResultsApart(p)', CopiedInCall(p)',
         \A role \in Roles : /\ Returned(p, role)' = Returned(p, role)
                             /\ Copied(p, role)' \in {Copied(p, role), <<>>},
         pc[p] \notin {"gilboa", "sums"}, pc'[p] # "sums",
         \A q \in Parties \ {p} : SameEnd(q),
         spent'[p] = spent[p], serial' \in Nat, serial <= serial',
         Takes(p), Tells(p)
  PROVE  ReuseInv'
  <1>1. Holds(p) /\ SenderQuiet(p) /\ ReceiverQuiet(p)
    BY DEF SenderQuiet, ReceiverQuiet, SameMembers, Roles, ReuseInv
  <1>2. TidyReceiver(p)' /\ ReceiverRuns(p)' \subseteq ReceiverRuns(p)
    BY <1>1, ReceiverKept, RunsOfSets DEF Holds, ReceiverRuns
  <1>3. Holds(p)'
    BY <1>1, <1>2, ReceiverStep
  <1> QED
    BY <1>3, OwnInv

\* The channels as they were.
LEMMA NoMessages ==
  ASSUME Inv, NEW p \in Parties, UNCHANGED channel
  PROVE  Takes(p) /\ Tells(p)
  BY DEF Takes, Tells

\* serial as it was.
LEMMA NoRun ==
  ASSUME Inv, UNCHANGED serial
  PROVE  serial' \in Nat /\ serial <= serial'
  BY DEF Inv, TypeOK

\* The application makes a call; nothing has been copied for it.
LEMMA InvokeReuse ==
  ASSUME Inv, ReuseInv, NEW p \in Parties, NEW c \in Call, Invoke(p, c)
  PROVE  ReuseInv'
  <1>1. /\ pc[p] = "idle" /\ pc'[p] = "begin" /\ loc'[p].copied = <<>>
        /\ \A q \in Parties \ {p} : pc'[q] = pc[q] /\ loc'[q] = loc[q]
        /\ UNCHANGED <<results, objects, channel, ghosts>>
    BY InvParts DEF Invoke, Goto, NoCall, LocalTypes, Counters
  <1>2. Holds(p) /\ SameMembers(p) /\ \A q \in Parties \ {p} : SameEnd(q)
    BY <1>1 DEF ReuseInv, SameMembers, SameEnd, objects, ghosts
  <1>3. Takes(p) /\ Tells(p) /\ serial' \in Nat /\ serial <= serial'
    BY <1>1, NoMessages, NoRun DEF ghosts
  <1>4. /\ ResultsApart(p)' /\ CopiedInCall(p)'
        /\ \A role \in Roles : /\ Returned(p, role)' = Returned(p, role)
                               /\ Copied(p, role)' \in {Copied(p, role), <<>>}
    BY <1>1, <1>2, SameResults
  <1> QED
    BY <1>1, <1>2, <1>3, <1>4, QuietInv DEF ghosts

\* A repeated call starts without what the failed one had copied.
LEMMA RetryReuse ==
  ASSUME Inv, ReuseInv, NEW p \in Parties, Retry(p)
  PROVE  ReuseInv'
  <1>1. /\ pc[p] = "failed" /\ pc'[p] = "begin" /\ loc'[p].copied = <<>>
        /\ \A q \in Parties \ {p} : pc'[q] = pc[q] /\ loc'[q] = loc[q]
        /\ UNCHANGED <<app, objects, channel, ghosts>>
    BY InvParts DEF Retry, Goto, NoCall, LocalTypes, Counters
  <1>2. Holds(p) /\ SameMembers(p) /\ \A q \in Parties \ {p} : SameEnd(q)
    BY <1>1 DEF ReuseInv, SameMembers, SameEnd, app, objects, ghosts
  <1>3. Takes(p) /\ Tells(p) /\ serial' \in Nat /\ serial <= serial'
    BY <1>1, NoMessages, NoRun DEF ghosts
  <1>4. /\ ResultsApart(p)' /\ CopiedInCall(p)'
        /\ \A role \in Roles : /\ Returned(p, role)' = Returned(p, role)
                               /\ Copied(p, role)' \in {Copied(p, role), <<>>}
    BY <1>1, <1>2, SameResults DEF app
  <1> QED
    BY <1>1, <1>2, <1>3, <1>4, QuietInv DEF ghosts

\* p moves on within a call.
LEMMA MoveReuse ==
  ASSUME Inv, ReuseInv, NEW p \in Parties, pc[p] \notin {"gilboa", "sums"},
         NEW to, to # "sums", Goto(p, to), SameMembers(p),
         loc'[p].role = loc[p].role, loc'[p].copied = loc[p].copied,
         \A q \in Parties \ {p} :
           loc'[q] = loc[q] /\ snd'[q] = snd[q] /\ rcv'[q] = rcv[q],
         UNCHANGED <<results, spent>>,
         serial' \in Nat, serial <= serial', Takes(p), Tells(p)
  PROVE  ReuseInv'
  <1>1. pc'[p] = to /\ \A q \in Parties \ {p} : pc'[q] = pc[q]
    BY InvParts DEF Goto, LocalTypes, Counters
  <1>2. Holds(p) /\ \A q \in Parties \ {p} : SameEnd(q)
    BY <1>1 DEF ReuseInv, SameEnd
  <1>3. /\ ResultsApart(p)' /\ CopiedInCall(p)'
        /\ \A role \in Roles : /\ Returned(p, role)' = Returned(p, role)
                               /\ Copied(p, role)' \in {Copied(p, role), <<>>}
    BY <1>2, SameResults
  <1> QED
    BY <1>1, <1>2, <1>3, QuietInv

\* A call returns without elements: it has failed, or was a precomputation.
LEMMA ReturnEmptyReuse ==
  ASSUME Inv, ReuseInv, NEW p \in Parties, pc[p] \notin {"gilboa", "sums", "idle"},
         NEW ok, Return(p, ok, <<>>), SameMembers(p),
         \A q \in Parties \ {p} : snd'[q] = snd[q] /\ rcv'[q] = rcv[q],
         UNCHANGED spent, serial' \in Nat, serial <= serial', Takes(p), Tells(p)
  PROVE  ReuseInv'
  <1>1. /\ pc'[p] = "idle"
        /\ \A q \in Parties \ {p} : /\ pc'[q] = pc[q] /\ loc'[q] = loc[q]
                                    /\ results'[q] = results[q]
    BY ReturnStock
  <1>2. Holds(p) /\ \A q \in Parties \ {p} : SameEnd(q)
    BY <1>1 DEF ReuseInv, SameEnd
  <1>3. /\ ResultsApart(p)' /\ CopiedInCall(p)'
        /\ \A role \in Roles : /\ Returned(p, role)' = Returned(p, role)
                               /\ Copied(p, role)' \in {Copied(p, role), <<>>}
    BY <1>2, EmptyResult
  <1> QED
    BY <1>1, <1>2, <1>3, QuietInv

\* Calls that are refused before anything is sent.
LEMMA RefusedReuse ==
  ASSUME Inv, ReuseInv, NEW p \in Parties,
         RejectBatchSize(p) \/ ExpandWrongDimensions(p)
  PROVE  ReuseInv'
  <1>1. /\ pc[p] \in {"begin", "expand"} /\ Return(p, FALSE, <<>>)
        /\ UNCHANGED <<script, objects, channel, ghosts>>
    BY DEF RejectBatchSize, ExpandWrongDimensions, ReturnError
  <1>2. /\ SameMembers(p) /\ UNCHANGED spent
        /\ \A q \in Parties \ {p} : snd'[q] = snd[q] /\ rcv'[q] = rcv[q]
    BY <1>1 DEF SameMembers, objects, ghosts
  <1>3. Takes(p) /\ Tells(p) /\ serial' \in Nat /\ serial <= serial'
    BY <1>1, NoMessages, NoRun DEF ghosts
  <1> QED
    BY <1>1, <1>2, <1>3, ReturnEmptyReuse

\* The steps that only look at the cache, prepare an expansion or fail in one.
LEMMA MovingReuse ==
  ASSUME Inv, ReuseInv, NEW p \in Parties,
         \/ Bootstrap(p) \/ ChooseBatchSize(p) \/ UsePrecomputed(p)
         \/ FetchOutOfRange(p) \/ ExpandSenderFails(p) \/ ExpandReceiverFails(p)
  PROVE  ReuseInv'
  <1>1. PICK to \in {"seed", "fetch", "copy", "failed"} : Goto(p, to)
    BY DEF Bootstrap, ChooseBatchSize, UsePrecomputed, FetchOutOfRange,
           ExpandSenderFails, ExpandReceiverFails
  <1>2. loc \in [Parties -> Locals]
    BY InvParts DEF LocalTypes
  <1>3. /\ loc'[p].role = loc[p].role /\ loc'[p].copied = loc[p].copied
        /\ \A q \in Parties \ {p} : loc'[q] = loc[q]
    <2>1. CASE Bootstrap(p)
      BY <1>2, <2>1 DEF Bootstrap, Locals
    <2>2. CASE ChooseBatchSize(p)
      BY <1>2, <2>2 DEF ChooseBatchSize, Locals
    <2>3. CASE UNCHANGED loc
      BY <2>3
    <2> QED
      BY <2>1, <2>2, <2>3
      DEF UsePrecomputed, FetchOutOfRange, ExpandSenderFails, ExpandReceiverFails
  <1>4. /\ pc[p] \notin {"gilboa", "sums"} /\ UNCHANGED <<results, spent, snd, rcv, serial>>
    BY DEF Bootstrap, ChooseBatchSize, UsePrecomputed, FetchOutOfRange,
           ExpandSenderFails, ExpandReceiverFails, app, objects, ghosts
  <1>5. Takes(p) /\ Tells(p)
    <2>1. CASE ExpandReceiverFails(p)
      <3>1. channel[p] # <<>> /\ channel' = [channel EXCEPT ![p] = Tail(@)]
        BY <2>1 DEF ExpandReceiverFails, Arrived, Receive
      <3> QED
        BY <3>1, PeerType DEF Takes, Tells, Inv, TypeOK
    <2>2. CASE UNCHANGED channel
      BY <2>2, NoMessages
    <2> QED
      BY <2>1, <2>2 DEF Bootstrap, ChooseBatchSize, UsePrecomputed, FetchOutOfRange,
                        ExpandSenderFails
  <1>6. /\ SameMembers(p) /\ serial' \in Nat /\ serial <= serial'
        /\ \A q \in Parties \ {p} : snd'[q] = snd[q] /\ rcv'[q] = rcv[q]
    BY <1>4, NoRun DEF SameMembers
  <1> QED
    BY <1>1, <1>3, <1>4, <1>5, <1>6, MoveReuse

\* The code generator is filled, or cannot be: with either end's seed.
LEMMA FillGeneratorReuse ==
  ASSUME Inv, ReuseInv, NEW p \in Parties, NEW id, pc[p] = "seed",
         FillGenerator(p, id), UNCHANGED spent,
         serial' \in Nat, serial <= serial', Takes(p), Tells(p)
  PROVE  ReuseInv'
  <1>1. CASE ReturnError(p) /\ UNCHANGED objects
    <2>1. SameMembers(p) /\ \A q \in Parties \ {p} : snd'[q] = snd[q] /\ rcv'[q] = rcv[q]
      BY <1>1 DEF objects, SameMembers
    <2> QED
      BY <1>1, <2>1, ReturnEmptyReuse DEF ReturnError
  <1>2. ASSUME SetDone(p)
        PROVE  /\ SameMembers(p)
               /\ \A q \in Parties \ {p} : snd'[q] = snd[q] /\ rcv'[q] = rcv[q]
    <2>1. snd \in [Parties -> SenderState] /\ rcv \in [Parties -> ReceiverState]
      BY InvParts DEF LocalTypes
    <2>2. CASE IsSender(p)
      BY <1>2, <2>1, <2>2 DEF SetDone, SameMembers, SenderState
    <2>3. CASE ~IsSender(p)
      BY <1>2, <2>1, <2>3 DEF SetDone, SameMembers, ReceiverState
    <2> QED
      BY <2>2, <2>3
  <1>3. CASE Goto(p, "expand") /\ UNCHANGED <<results, loc, snd, rcv>>
    <2>1. SameMembers(p) /\ \A q \in Parties \ {p} : snd'[q] = snd[q] /\ rcv'[q] = rcv[q]
      BY <1>3 DEF SameMembers
    <2> QED
      BY <1>3, <2>1, MoveReuse
  <1>4. CASE SetDone(p) /\ Return(p, TRUE, <<>>)
    BY <1>2, <1>4, ReturnEmptyReuse
  <1>5. CASE SetDone(p) /\ Goto(p, "fetch") /\ UNCHANGED <<results, loc>>
    BY <1>2, <1>5, MoveReuse
  <1> QED
    BY <1>1, <1>3, <1>4, <1>5 DEF FillGenerator, GeneratorReady

\* Its seed is a random experiment too, of no element.
LEMMA SendSeedReuse ==
  ASSUME Inv, ReuseInv, NEW p \in Parties, SendSeed(p)
  PROVE  ReuseInv'
  <1> DEFINE msg == [kind |-> "seed", id |-> serial + 1]
  <1>1. /\ pc[p] = "seed" /\ FillGenerator(p, serial + 1) /\ UNCHANGED spent
        /\ serial' = serial + 1 /\ Send(p, msg) /\ serial \in Nat
    BY EndTypes DEF SendSeed
  <1>2. channel'[p] = channel[p] /\ channel'[Peer(p)] = Append(channel[Peer(p)], msg)
    BY <1>1, PeerType DEF Send, Inv, TypeOK
  <1>3. msg \in Message /\ msg.kind = "seed" /\ MessageRuns(msg) = {}
    BY <1>1 DEF Message, MessageRuns
  <1> HIDE DEF msg
  <1>4. Takes(p) /\ Tells(p)
    BY <1>2, <1>3 DEF Takes, Tells, Delivers
  <1> QED
    BY <1>1, <1>4, FillGeneratorReuse

\* The seed of the generator is no element of a vector.
LEMMA ReceiveSeedReuse ==
  ASSUME Inv, ReuseInv, NEW p \in Parties, ReceiveSeed(p)
  PROVE  ReuseInv'
  <1>1. /\ pc[p] = "seed" /\ FillGenerator(p, Head(channel[p]).id)
        /\ channel[p] # <<>> /\ Receive(p) /\ UNCHANGED ghosts
    BY DEF ReceiveSeed, Arrived
  <1>2. Takes(p) /\ Tells(p)
    BY <1>1, PeerType DEF Takes, Tells, Receive, Inv, TypeOK
  <1>3. UNCHANGED spent /\ serial' \in Nat /\ serial <= serial'
    BY <1>1, NoRun DEF ghosts
  <1> QED
    BY <1>1, <1>2, <1>3, FillGeneratorReuse

-----------------------------------------------------------------------------
(* Elements are returned or copied.                                        *)

\* SetCached changes the cache of the role that p has, and nothing else.
LEMMA SetCachedMembers ==
  ASSUME Inv, NEW p \in Parties, NEW vec, SetCached(p, vec)
  PROVE  /\ \A q \in Parties \ {p} : snd'[q] = snd[q] /\ rcv'[q] = rcv[q]
         /\ snd'[p].vole_seed = snd[p].vole_seed /\ snd'[p].mpfss_seed = snd[p].mpfss_seed
         /\ rcv'[p].vole_seed = rcv[p].vole_seed /\ rcv'[p].mpfss_seed = rcv[p].mpfss_seed
         /\ IsSender(p) => snd'[p].cached = vec /\ rcv'[p].cached = rcv[p].cached
         /\ ~IsSender(p) => rcv'[p].cached = vec /\ snd'[p].cached = snd[p].cached
  <1>1. snd \in [Parties -> SenderState] /\ rcv \in [Parties -> ReceiverState]
    BY InvParts DEF LocalTypes
  <1>2. CASE IsSender(p)
    BY <1>1, <1>2 DEF SetCached, SenderState
  <1>3. CASE ~IsSender(p)
    BY <1>1, <1>3 DEF SetCached, ReceiverState
  <1> QED
    BY <1>2, <1>3

\* What both ways of taking elements out of the stock of p's role have in common:
\* the other role is not concerned, and spent elements are not among them.
LEMMA TakenReuse ==
  ASSUME Inv, ReuseInv, NEW p \in Parties, pc[p] \in {"fetch", "copy"}, pc'[p] # "sums",
         ResultsApart(p)', CopiedInCall(p)',
         \A q \in Parties \ {p} : SameEnd(q),
         UNCHANGED <<channel, ghosts>>,
         NEW rest, SetCached(p, rest), AllShared(Cached(p)) => AllShared(rest),
         IsSender(p) => /\ TidySender(p)' /\ ReceiverQuiet(p)
                        /\ SenderStock(p)' \subseteq SenderStock(p),
         ~IsSender(p) => /\ TidyReceiver(p)' /\ SenderQuiet(p)
                         /\ ReceiverStock(p)' \subseteq ReceiverStock(p)
  PROVE  ReuseInv'
  <1>1. /\ Holds(p) /\ spent'[p] = spent[p]
        /\ Takes(p) /\ Tells(p) /\ serial' \in Nat /\ serial <= serial'
        /\ serial' \in {serial, serial + 1}
    BY NoMessages, NoRun DEF ReuseInv, ghosts
  <1>2. CASE IsSender(p)
    <2>1. AllShared(snd[p].vole_seed) /\ AllShared(snd[p].mpfss_seed) /\ AllShared(rest)
      BY <1>1, <1>2 DEF Holds, Spent, Cached
    <2>2. Spent(p)'
      <3>1. spent[p] \cap SenderStock(p)' = {}
        BY <1>1, <1>2, SpentOutside DEF Holds
      <3> QED
        BY <1>1, <1>2, <2>1, <3>1, SetCachedMembers, SpentStep DEF Holds
    <2>3. SenderRuns(p)' \subseteq SenderRuns(p)
      BY <1>2, RunsOfSets DEF SenderRuns
    <2>4. Holds(p)'
      BY <1>1, <1>2, <2>2, <2>3, SenderStep
    <2> QED
      BY <1>1, <2>4, OwnInv
  <1>3. CASE ~IsSender(p)
    <2>1. ReceiverRuns(p)' \subseteq ReceiverRuns(p)
      BY <1>3, RunsOfSets DEF ReceiverRuns
    <2>2. Holds(p)'
      BY <1>1, <1>3, <2>1, ReceiverStep
    <2> QED
      BY <1>1, <2>2, OwnInv
  <1> QED
    BY <1>2, <1>3

\* The vectors of the two roles have no element in common.
LEMMA RolesApart ==
  ASSUME ReuseInv, NEW p \in Parties
  PROVE  SenderStock(p) \cap ReceiverStock(p) = {}
  <1>1. SenderRuns(p) \cap ReceiverRuns(p) = {}
    BY DEF ReuseInv, Holds, RunsApart, Apart
  <1> QED
    BY <1>1 DEF SenderRuns, ReceiverRuns, RunsOf

\* A call returns elements that it had copied or that were cached.
LEMMA ReturnCachedReuse ==
  ASSUME Inv, ReuseInv, NEW p \in Parties, pc[p] \in {"fetch", "copy"},
         NEW rest, NEW elements, SetCached(p, rest), Return(p, TRUE, elements),
         UNCHANGED <<script, params, channel, ghosts>>,
         NoRepeats(elements), NoRepeats(rest),
         Shared(elements) \cup Shared(rest)
           \subseteq Shared(loc[p].copied) \cup Shared(Cached(p)),
         Shared(elements) \cap Shared(rest) = {},
         AllShared(Cached(p)) => AllShared(rest)
  PROVE  ReuseInv'
  <1>1. Holds(p)
    BY DEF ReuseInv
  <1>2. /\ loc[p].role \in Roles /\ CopiedInCall(p)' /\ pc'[p] = "idle"
        /\ \A role \in Roles :
             /\ Copied(p, role)' = <<>>
             /\ Returned(p, role)' = Returned(p, role) \cup
                  (IF role = loc[p].role THEN Shared(elements) ELSE {})
        /\ \A q \in Parties \ {p} : /\ pc'[q] = pc[q] /\ loc'[q] = loc[q]
                                    /\ results'[q] = results[q]
    BY ReturnStock
  <1>3. \A q \in Parties \ {p} : SameEnd(q)
    BY <1>2, SetCachedMembers DEF SameEnd, ghosts
  <1>4. CASE IsSender(p)
    <2> DEFINE ret == Returned(p, "sender")
               copied == loc[p].copied
               cached == snd[p].cached
               vole == snd[p].vole_seed
               mpfss == snd[p].mpfss_seed
    <2>1. /\ Tidy(ret, copied, cached, vole, mpfss)
          /\ SenderStock(p) = Stock(ret, copied, cached, vole, mpfss)
          /\ Shared(elements) \cup Shared(rest) \subseteq Shared(copied) \cup Shared(cached)
      BY <1>1, <1>4 DEF Holds, TidySender, SenderStock, Copied, IsSender, Cached
    <2>2. /\ Returned(p, "sender")' = ret \cup Shared(elements)
          /\ Copied(p, "sender")' = <<>> /\ Copied(p, "receiver")' = <<>>
          /\ Returned(p, "receiver")' = Returned(p, "receiver")
      BY <1>2, <1>4 DEF IsSender, Roles
    <2>3. /\ snd'[p].cached = rest /\ snd'[p].vole_seed = vole
          /\ snd'[p].mpfss_seed = mpfss
          /\ TidySender(p)' <=> Tidy(ret \cup Shared(elements), <<>>, rest, vole, mpfss)
          /\ SenderStock(p)' = Stock(ret \cup Shared(elements), <<>>, rest, vole, mpfss)
      BY <1>4, <2>2, SetCachedMembers DEF TidySender, SenderStock
    <2>4. ReceiverQuiet(p)
      BY <1>4, <2>2, SetCachedMembers DEF ReceiverQuiet
    <2>5. /\ ret \cap Shared(elements) = {}
          /\ ret \subseteq SenderStock(p) /\ Shared(elements) \subseteq SenderStock(p)
          /\ Returned(p, "receiver") \subseteq ReceiverStock(p)
      BY <2>1 DEF Tidy, Stock, ReceiverStock
    <2> HIDE DEF ret, copied, cached, vole, mpfss
    <2>6. TidySender(p)' /\ SenderStock(p)' \subseteq SenderStock(p)
      <3>1. /\ Tidy(ret \cup Shared(elements), <<>>, rest, vole, mpfss)
            /\ Stock(ret \cup Shared(elements), <<>>, rest, vole, mpfss)
                 \subseteq Stock(ret, copied, cached, vole, mpfss)
            /\ ret \cap Shared(elements) = {}
        <4> HIDE DEF Tidy, Stock, NoRepeats, Shared
        <4> QED
          BY <2>1, TidyReturn
      <3> QED
        BY <2>1, <2>3, <3>1
    <2>7. SenderStock(p) \cap ReceiverStock(p) = {}
      BY RolesApart
    <2>8. ResultsApart(p)'
      <3>1. \A role \in Roles : Returned(p, role) \cap Shared(elements) = {}
        BY <2>5, <2>7 DEF Roles, ret
      <3> QED
        BY <1>1, <3>1, ReturnApart DEF Holds
    <2> QED
      BY <1>2, <1>3, <1>4, <2>4, <2>6, <2>8, TakenReuse
  <1>5. CASE ~IsSender(p)
    <2> DEFINE ret == Returned(p, "receiver")
               copied == loc[p].copied
               cached == rcv[p].cached
               vole == rcv[p].vole_seed
               mpfss == rcv[p].mpfss_seed
    <2>1. /\ Tidy(ret, copied, cached, vole, mpfss)
          /\ ReceiverStock(p) = Stock(ret, copied, cached, vole, mpfss)
          /\ Shared(elements) \cup Shared(rest) \subseteq Shared(copied) \cup Shared(cached)
      BY <1>1, <1>2, <1>5
      DEF Holds, TidyReceiver, ReceiverStock, Copied, IsSender, Cached, Roles
    <2>2. /\ Returned(p, "receiver")' = ret \cup Shared(elements)
          /\ Copied(p, "sender")' = <<>> /\ Copied(p, "receiver")' = <<>>
          /\ Returned(p, "sender")' = Returned(p, "sender")
      BY <1>2, <1>5 DEF IsSender, Roles
    <2>3. /\ rcv'[p].cached = rest /\ rcv'[p].vole_seed = vole
          /\ rcv'[p].mpfss_seed = mpfss
          /\ TidyReceiver(p)' <=> Tidy(ret \cup Shared(elements), <<>>, rest, vole, mpfss)
          /\ ReceiverStock(p)' = Stock(ret \cup Shared(elements), <<>>, rest, vole, mpfss)
      BY <1>5, <2>2, SetCachedMembers DEF TidyReceiver, ReceiverStock
    <2>4. SenderQuiet(p)
      BY <1>5, <2>2, SetCachedMembers DEF SenderQuiet
    <2>5. /\ ret \cap Shared(elements) = {}
          /\ ret \subseteq ReceiverStock(p) /\ Shared(elements) \subseteq ReceiverStock(p)
          /\ Returned(p, "sender") \subseteq SenderStock(p)
      BY <2>1 DEF Tidy, Stock, SenderStock
    <2> HIDE DEF ret, copied, cached, vole, mpfss
    <2>6. TidyReceiver(p)' /\ ReceiverStock(p)' \subseteq ReceiverStock(p)
      <3>1. /\ Tidy(ret \cup Shared(elements), <<>>, rest, vole, mpfss)
            /\ Stock(ret \cup Shared(elements), <<>>, rest, vole, mpfss)
                 \subseteq Stock(ret, copied, cached, vole, mpfss)
            /\ ret \cap Shared(elements) = {}
        <4> HIDE DEF Tidy, Stock, NoRepeats, Shared
        <4> QED
          BY <2>1, TidyReturn
      <3> QED
        BY <2>1, <2>3, <3>1
    <2>7. SenderStock(p) \cap ReceiverStock(p) = {}
      BY RolesApart
    <2>8. ResultsApart(p)'
      <3>1. \A role \in Roles : Returned(p, role) \cap Shared(elements) = {}
        BY <2>5, <2>7 DEF Roles, ret
      <3> QED
        BY <1>1, <3>1, ReturnApart DEF Holds
    <2> QED
      BY <1>2, <1>3, <1>5, <2>4, <2>6, <2>8, TakenReuse
  <1> QED
    BY <1>4, <1>5

\* What has been copied and what is cached in p's role have no element in common.
LEMMA CachedApart ==
  ASSUME Inv, ReuseInv, NEW p \in Parties, pc[p] # "idle"
  PROVE  /\ Cached(p) \in Vector /\ loc[p].copied \in Vector
         /\ NoRepeats(Cached(p)) /\ NoRepeats(loc[p].copied)
         /\ Shared(loc[p].copied) \cap Shared(Cached(p)) = {}
  <1>1. Holds(p) /\ Cached(p) \in Vector /\ loc[p].copied \in Vector
    BY InvParts, CachedType, EndTypes DEF ReuseInv
  <1>2. loc[p].role \in Roles
    BY InvParts, PartyTypes DEF Locals, Roles
  <1>3. CASE IsSender(p)
    BY <1>1, <1>3 DEF Holds, TidySender, Tidy, Copied, Cached, IsSender
  <1>4. CASE ~IsSender(p)
    BY <1>1, <1>2, <1>4 DEF Holds, TidyReceiver, Tidy, Copied, Cached, IsSender, Roles
  <1> QED
    BY <1>1, <1>3, <1>4

\* The tail of the cache is returned, ...
LEMMA FetchCachedReuse ==
  ASSUME Inv, ReuseInv, NEW p \in Parties, FetchCached(p)
  PROVE  ReuseInv'
  <1> DEFINE n == loc[p].size
  <1>1. /\ pc[p] = "fetch" /\ Len(Cached(p)) >= n
        /\ SetCached(p, WithoutTail(Cached(p), n))
        /\ Return(p, TRUE, TailOf(Cached(p), n))
        /\ UNCHANGED <<script, params, channel, ghosts>>
    BY DEF FetchCached
  <1>2. n \in Nat
    BY <1>1, InvParts DEF PartyInv, Running
  <1>3. Cached(p) \in Vector /\ NoRepeats(Cached(p))
    BY <1>1, CachedApart
  <1> HIDE DEF n
  <1>4. /\ Shared(TailOf(Cached(p), n)) \subseteq Shared(Cached(p))
        /\ Shared(WithoutTail(Cached(p), n)) \subseteq Shared(Cached(p))
        /\ NoRepeats(TailOf(Cached(p), n)) /\ NoRepeats(WithoutTail(Cached(p), n))
        /\ Shared(TailOf(Cached(p), n)) \cap Shared(WithoutTail(Cached(p), n)) = {}
        /\ AllShared(Cached(p)) => AllShared(WithoutTail(Cached(p), n))
    BY <1>1, <1>2, <1>3, SharedSplit
  <1> QED
    BY <1>1, <1>4, ReturnCachedReuse

\* ... or that behind what has been copied, ...
LEMMA CopyRemainingReuse ==
  ASSUME Inv, ReuseInv, NEW p \in Parties, CopyRemaining(p)
  PROVE  ReuseInv'
  <1> DEFINE n == loc[p].size - Len(loc[p].copied)
             copied == loc[p].copied
             tail == TailOf(Cached(p), n)
             rest == WithoutTail(Cached(p), n)
  <1>1. /\ pc[p] = "copy" /\ Len(Cached(p)) > n
        /\ SetCached(p, rest) /\ Return(p, TRUE, copied \o tail)
        /\ UNCHANGED <<script, params, channel, ghosts>>
    BY DEF CopyRemaining
  <1>2. /\ Cached(p) \in Vector /\ NoRepeats(Cached(p))
        /\ copied \in Vector /\ NoRepeats(copied)
        /\ Shared(copied) \cap Shared(Cached(p)) = {}
    BY <1>1, CachedApart
  <1>3. n \in Nat /\ n <= Len(Cached(p))
    <2>1. Len(loc[p].copied) \in Nat /\ Len(Cached(p)) \in Nat
      BY <1>2 DEF Vector
    <2> QED
      BY <1>1, <2>1, InvParts DEF PartyInv, Running
  <1> HIDE DEF n, copied
  <1>4. /\ Shared(tail) \subseteq Shared(Cached(p)) /\ Shared(rest) \subseteq Shared(Cached(p))
        /\ NoRepeats(tail) /\ NoRepeats(rest) /\ Shared(tail) \cap Shared(rest) = {}
        /\ AllShared(Cached(p)) => AllShared(rest)
        /\ tail \in Vector
    BY <1>2, <1>3, SharedSplit, TailType
  <1> HIDE DEF tail, rest
  <1>5. /\ Shared(copied \o tail) = Shared(copied) \cup Shared(tail)
        /\ NoRepeats(copied \o tail)
    BY <1>2, <1>4, SharedJoin
  <1>6. /\ Shared(copied \o tail) \cap Shared(rest) = {}
        /\ Shared(copied \o tail) \cup Shared(rest)
             \subseteq Shared(copied) \cup Shared(Cached(p))
    BY <1>2, <1>4, <1>5
  <1> QED
    BY <1>1, <1>4, <1>5, <1>6, ReturnCachedReuse DEF copied

\* ... or all of it; or all of it is copied and more is to come.
LEMMA CopyWholeCacheReuse ==
  ASSUME Inv, ReuseInv, NEW p \in Parties, CopyWholeCache(p)
  PROVE  ReuseInv'
  <1> DEFINE all == CopiedAndCached(p)
  <1>1. /\ pc[p] = "copy" /\ SetCached(p, <<>>)
        /\ UNCHANGED <<script, params, channel, ghosts>>
        /\ Holds(p) /\ loc \in [Parties -> Locals] /\ pc \in Counters
    BY InvParts DEF CopyWholeCache, ReuseInv, LocalTypes
  <1>2. /\ Cached(p) \in Vector /\ NoRepeats(Cached(p))
        /\ loc[p].copied \in Vector /\ NoRepeats(loc[p].copied)
        /\ Shared(loc[p].copied) \cap Shared(Cached(p)) = {}
    BY <1>1, CachedApart
  <1>3. NoRepeats(<<>>) /\ Shared(<<>>) = {} /\ AllShared(<<>>)
    BY SharedNew
  <1>4. CASE Return(p, TRUE, all)
    <2>1. /\ Shared(all) = Shared(loc[p].copied) \cup Shared(Cached(p))
          /\ NoRepeats(all)
      BY <1>2, SharedJoin DEF CopiedAndCached
    <2> HIDE DEF all
    <2> QED
      BY <1>1, <1>3, <1>4, <2>1, ReturnCachedReuse
  <1>5. CASE /\ loc'[p].copied = all /\ loc'[p].role = loc[p].role
             /\ \A q \in Parties \ {p} : loc'[q] = loc[q]
             /\ Goto(p, "expand") /\ UNCHANGED results
    <2>1. pc'[p] = "expand" /\ \A q \in Parties \ {p} : SameEnd(q)
      BY <1>1, <1>5, SetCachedMembers DEF Goto, Counters, SameEnd, ghosts
    <2>2. loc[p].role \in Roles
      BY <1>1, InvParts, PartyTypes DEF Locals, Roles
    <2>3. /\ ResultsApart(p)' /\ CopiedInCall(p)'
          /\ \A role \in Roles :
               /\ Returned(p, role)' = Returned(p, role)
               /\ role # loc[p].role => Copied(p, role)' = Copied(p, role)
               /\ role = loc[p].role => Copied(p, role)' = all
      BY <1>1, <1>5, <2>2
      DEF Holds, ResultsApart, CopiedInCall, Returned, Copied, Roles
    <2>4. ASSUME IsSender(p)
          PROVE  /\ TidySender(p)' /\ SenderStock(p)' \subseteq SenderStock(p)
                 /\ ReceiverQuiet(p)
      <3> DEFINE ret == Returned(p, "sender")
                 copied == loc[p].copied
                 cached == snd[p].cached
                 vole == snd[p].vole_seed
                 mpfss == snd[p].mpfss_seed
      <3>1. /\ Tidy(ret, copied, cached, vole, mpfss)
            /\ SenderStock(p) = Stock(ret, copied, cached, vole, mpfss)
            /\ all = copied \o cached /\ copied \in Vector /\ cached \in Vector
        BY <1>1, <1>2, <2>4
        DEF Holds, TidySender, SenderStock, Copied, IsSender, Cached, CopiedAndCached
      <3>2. /\ TidySender(p)' <=> Tidy(ret, all, <<>>, vole, mpfss)
            /\ SenderStock(p)' = Stock(ret, all, <<>>, vole, mpfss)
        BY <1>1, <2>3, <2>4, SetCachedMembers DEF TidySender, SenderStock, IsSender, Roles
      <3>3. ReceiverQuiet(p)
        BY <1>1, <2>3, <2>4, SetCachedMembers DEF ReceiverQuiet, IsSender, Roles
      <3> HIDE DEF ret, copied, cached, vole, mpfss, all
      <3>4. /\ Tidy(ret, copied \o cached, <<>>, vole, mpfss)
            /\ Stock(ret, copied \o cached, <<>>, vole, mpfss)
                 = Stock(ret, copied, cached, vole, mpfss)
        BY <3>1, TidyCopy
      <3> QED
        BY <3>1, <3>2, <3>3, <3>4
    <2>5. ASSUME ~IsSender(p)
          PROVE  /\ TidyReceiver(p)' /\ ReceiverStock(p)' \subseteq ReceiverStock(p)
                 /\ SenderQuiet(p)
      <3> DEFINE ret == Returned(p, "receiver")
                 copied == loc[p].copied
                 cached == rcv[p].cached
                 vole == rcv[p].vole_seed
                 mpfss == rcv[p].mpfss_seed
      <3>1. loc[p].role = "receiver"
        BY <2>2, <2>5 DEF Roles, IsSender
      <3>2. /\ Tidy(ret, copied, cached, vole, mpfss)
            /\ ReceiverStock(p) = Stock(ret, copied, cached, vole, mpfss)
            /\ all = copied \o cached /\ copied \in Vector /\ cached \in Vector
        BY <1>1, <1>2, <2>5, <3>1
        DEF Holds, TidyReceiver, ReceiverStock, Copied, Cached, CopiedAndCached
      <3>3. /\ TidyReceiver(p)' <=> Tidy(ret, all, <<>>, vole, mpfss)
            /\ ReceiverStock(p)' = Stock(ret, all, <<>>, vole, mpfss)
        BY <1>1, <2>3, <2>5, <3>1, SetCachedMembers
        DEF TidyReceiver, ReceiverStock, Roles
      <3>4. SenderQuiet(p)
        BY <1>1, <2>3, <2>5, <3>1, SetCachedMembers DEF SenderQuiet, Roles
      <3> HIDE DEF ret, copied, cached, vole, mpfss, all
      <3>5. /\ Tidy(ret, copied \o cached, <<>>, vole, mpfss)
            /\ Stock(ret, copied \o cached, <<>>, vole, mpfss)
                 = Stock(ret, copied, cached, vole, mpfss)
        BY <3>2, TidyCopy
      <3> QED
        BY <3>2, <3>3, <3>4, <3>5
    <2> HIDE DEF all
    <2> QED
      BY <1>1, <1>3, <2>1, <2>3, <2>4, <2>5, TakenReuse
  <1>6. ASSUME loc' = [loc EXCEPT ![p].copied = all, ![p].final = TRUE,
                         ![p].output = params[p].batch_size + SeedsLength(p),
                         ![p].new_vole = params[p].vole_seed_size,
                         ![p].new_mpfss = params[p].mpfss_seed_size]
        PROVE  /\ loc'[p].copied = all /\ loc'[p].role = loc[p].role
               /\ \A q \in Parties \ {p} : loc'[q] = loc[q]
    <2> HIDE DEF all
    <2> QED
      BY <1>1, <1>6 DEF Locals
  <1> QED
    BY <1>4, <1>5, <1>6 DEF CopyWholeCache

-----------------------------------------------------------------------------
(* Caches get elements without a counterpart.                              *)

\* The precomputation of the Sender draws u and v.
LEMMA PrecomputeSenderReuse ==
  ASSUME Inv, ReuseInv, NEW p \in Parties, PrecomputeSender(p)
  PROVE  ReuseInv'
  <1> DEFINE len == FirstSeeds(p).vole_seed_size + FirstSeeds(p).mpfss_seed_size
             ret == Returned(p, "sender")
             copied == Copied(p, "sender")
             cached == snd[p].cached
             vole == snd[p].vole_seed
             mpfss == snd[p].mpfss_seed
  <1>1. /\ pc[p] = "begin" /\ IsSender(p) /\ pc' = [pc EXCEPT ![p] = "gilboa"]
        /\ snd' = [snd EXCEPT ![p].cached = Unshared(len)]
        /\ UNCHANGED <<app, loc, rcv, channel, ghosts>>
        /\ pc \in Counters /\ snd \in [Parties -> SenderState] /\ Holds(p)
    BY InvParts DEF PrecomputeSender, Goto, LocalTypes, ReuseInv
  <1>2. len \in Nat
    BY InvParts, PartyTypes, FirstSeedsType
  <1>3. NoRepeats(Unshared(len)) /\ Shared(Unshared(len)) = {}
    BY <1>2, SharedNew
  <1> HIDE DEF len
  <1>4. /\ pc'[p] = "gilboa" /\ snd'[p].cached = Unshared(len)
        /\ snd'[p].vole_seed = vole /\ snd'[p].mpfss_seed = mpfss
        /\ \A q \in Parties \ {p} : SameEnd(q)
    BY <1>1 DEF Counters, SenderState, SameEnd, app, ghosts
  <1>5. /\ ResultsApart(p)' /\ CopiedInCall(p)' /\ ReceiverQuiet(p)
        /\ Returned(p, "sender")' = ret /\ Copied(p, "sender")' = copied
    BY <1>1 DEF Holds, ResultsApart, CopiedInCall, ReceiverQuiet, Returned, Copied, app
  <1>6. /\ TidySender(p)' <=> Tidy(ret, copied, Unshared(len), vole, mpfss)
        /\ SenderStock(p)' = Stock(ret, copied, Unshared(len), vole, mpfss)
        /\ Tidy(ret, copied, cached, vole, mpfss)
        /\ SenderStock(p) = Stock(ret, copied, cached, vole, mpfss)
    BY <1>1, <1>4, <1>5 DEF TidySender, SenderStock, Holds
  <1> HIDE DEF ret, copied, cached
  <1>7. /\ Tidy(ret, copied, Unshared(len), vole, mpfss)
        /\ Stock(ret, copied, Unshared(len), vole, mpfss)
             \subseteq Stock(ret, copied, cached, vole, mpfss)
    BY <1>3, <1>6, TidyLess
  <1>8. TidySender(p)' /\ SenderStock(p)' \subseteq SenderStock(p)
    BY <1>6, <1>7
  <1>9. /\ Takes(p) /\ Tells(p) /\ serial' \in Nat /\ serial <= serial'
        /\ serial' = serial /\ spent'[p] = spent[p]
    BY <1>1, NoMessages, NoRun DEF ghosts
  <1>10. Spent(p)'
    <2>1. spent[p] \cap SenderStock(p)' = {}
      BY <1>1, <1>8, SpentOutside DEF Holds
    <2>2. AllShared(snd[p].vole_seed) /\ AllShared(snd[p].mpfss_seed)
      BY <1>1 DEF Holds, Spent
    <2>3. IsSender(p)'
      BY <1>1 DEF IsSender
    <2> QED
      BY <1>1, <1>4, <1>9, <2>1, <2>2, <2>3, SpentStep DEF Holds
  <1>11. Holds(p)'
    <2>1. SenderRuns(p)' \subseteq SenderRuns(p)
      BY <1>8, RunsOfSets DEF SenderRuns
    <2> QED
      BY <1>1, <1>4, <1>5, <1>8, <1>9, <1>10, <2>1, SenderStep
  <1> QED
    BY <1>1, <1>4, <1>9, <1>11, OwnInv

\* The Receiver's cache is replaced by one with no other elements.
LEMMA ReceiverCacheReuse ==
  ASSUME Inv, ReuseInv, NEW p \in Parties, pc[p] # "sums", pc'[p] # "sums", ~IsSender(p),
         NEW new, NoRepeats(new), Shared(new) \subseteq Shared(rcv[p].cached),
         rcv'[p].cached = new,
         rcv'[p].vole_seed = rcv[p].vole_seed, rcv'[p].mpfss_seed = rcv[p].mpfss_seed,
         \A q \in Parties \ {p} : SameEnd(q), UNCHANGED <<app, loc, snd, spent>>,
         serial' \in Nat, serial <= serial', Takes(p), Tells(p)
  PROVE  ReuseInv'
  <1> DEFINE ret == Returned(p, "receiver")
             copied == Copied(p, "receiver")
             cached == rcv[p].cached
             vole == rcv[p].vole_seed
             mpfss == rcv[p].mpfss_seed
  <1>1. /\ Holds(p) /\ ResultsApart(p)' /\ CopiedInCall(p)' /\ SenderQuiet(p)
        /\ Returned(p, "receiver")' = ret /\ Copied(p, "receiver")' = copied
    BY DEF ReuseInv, Holds, ResultsApart, CopiedInCall, SenderQuiet, Returned, Copied, app
  <1>2. /\ TidyReceiver(p)' <=> Tidy(ret, copied, new, vole, mpfss)
        /\ ReceiverStock(p)' = Stock(ret, copied, new, vole, mpfss)
        /\ Tidy(ret, copied, cached, vole, mpfss)
        /\ ReceiverStock(p) = Stock(ret, copied, cached, vole, mpfss)
    BY <1>1 DEF TidyReceiver, ReceiverStock, Holds
  <1> HIDE DEF ret, copied
  <1>3. /\ Tidy(ret, copied, new, vole, mpfss)
        /\ Stock(ret, copied, new, vole, mpfss)
             \subseteq Stock(ret, copied, cached, vole, mpfss)
    BY <1>2, TidyLess
  <1>4. TidyReceiver(p)' /\ ReceiverStock(p)' \subseteq ReceiverStock(p)
    BY <1>2, <1>3
  <1>5. ReceiverRuns(p)' \subseteq ReceiverRuns(p)
    BY <1>4, RunsOfSets DEF ReceiverRuns
  <1>6. Holds(p)'
    BY <1>1, <1>4, <1>5, ReceiverStep
  <1> QED
    BY <1>6, OwnInv

\* The precomputation of the Receiver draws delta.
LEMMA PrecomputeReceiverReuse ==
  ASSUME Inv, ReuseInv, NEW p \in Parties, PrecomputeReceiver(p)
  PROVE  ReuseInv'
  <1> DEFINE len == FirstSeeds(p).vole_seed_size + FirstSeeds(p).mpfss_seed_size
             msg == [kind |-> "choices", delta |-> serial + 1]
  <1>1. /\ pc[p] = "begin" /\ ~IsSender(p) /\ pc' = [pc EXCEPT ![p] = "gilboa"]
        /\ rcv' = [rcv EXCEPT ![p].cached = Unshared(len), ![p].delta = serial + 1]
        /\ serial' = serial + 1 /\ Send(p, msg)
        /\ UNCHANGED <<app, loc, snd, spent>>
        /\ pc \in Counters /\ rcv \in [Parties -> ReceiverState] /\ serial \in Nat
    BY InvParts, EndTypes DEF PrecomputeReceiver, Goto, LocalTypes
  <1>2. len \in Nat
    BY InvParts, PartyTypes, FirstSeedsType
  <1>3. NoRepeats(Unshared(len)) /\ Shared(Unshared(len)) = {}
    BY <1>2, SharedNew
  <1> HIDE DEF len
  <1>4. /\ pc'[p] = "gilboa" /\ rcv'[p].cached = Unshared(len)
        /\ rcv'[p].vole_seed = rcv[p].vole_seed /\ rcv'[p].mpfss_seed = rcv[p].mpfss_seed
        /\ \A q \in Parties \ {p} : SameEnd(q)
    BY <1>1 DEF Counters, ReceiverState, SameEnd, app
  <1>5. channel'[p] = channel[p] /\ channel'[Peer(p)] = Append(channel[Peer(p)], msg)
    BY <1>1, PeerType DEF Send, Inv, TypeOK
  <1>6. msg \in Message /\ msg.kind = "choices" /\ MessageRuns(msg) = {}
    BY <1>1 DEF Message, MessageRuns
  <1> HIDE DEF msg
  <1>7. Takes(p) /\ Tells(p)
    BY <1>5, <1>6 DEF Takes, Tells, Delivers
  <1>8. serial' \in Nat /\ serial <= serial'
    BY <1>1
  <1> QED
    BY <1>1, <1>3, <1>4, <1>7, <1>8, ReceiverCacheReuse

\* The Receiver's expansion resizes the cache.
LEMMA ExpandReceiverReuse ==
  ASSUME Inv, ReuseInv, NEW p \in Parties, ExpandReceiver(p)
  PROVE  ReuseInv'
  <1> DEFINE made == Unshared(loc[p].output)
             new == rcv[p].cached \o made
  <1>1. /\ pc[p] = "expand" /\ ~IsSender(p) /\ pc' = [pc EXCEPT ![p] = "masked"]
        /\ rcv' = [rcv EXCEPT ![p].cached = new]
        /\ UNCHANGED <<app, loc, snd, channel, ghosts>>
        /\ pc \in Counters /\ rcv \in [Parties -> ReceiverState]
    BY InvParts, EndTypes DEF ExpandReceiver, Goto, LocalTypes
  <1>2. loc[p].output \in Nat /\ rcv[p].cached \in Vector /\ NoRepeats(rcv[p].cached)
    BY InvParts, PartyTypes, EndTypes DEF Locals, ReuseInv, Holds, TidyReceiver, Tidy
  <1>3. /\ made \in Vector /\ NoRepeats(made) /\ Shared(made) = {}
    BY <1>2, SharedNew, NewVectorTypes
  <1> HIDE DEF made
  <1>4. NoRepeats(new) /\ Shared(new) \subseteq Shared(rcv[p].cached)
    BY <1>2, <1>3, SharedJoin
  <1> HIDE DEF new
  <1>5. /\ pc'[p] = "masked" /\ rcv'[p].cached = new
        /\ rcv'[p].vole_seed = rcv[p].vole_seed /\ rcv'[p].mpfss_seed = rcv[p].mpfss_seed
        /\ \A q \in Parties \ {p} : SameEnd(q)
    BY <1>1 DEF Counters, ReceiverState, SameEnd, app, ghosts
  <1>6. /\ Takes(p) /\ Tells(p) /\ serial' \in Nat /\ serial <= serial'
        /\ UNCHANGED <<app, loc, snd, spent>>
    BY <1>1, NoMessages, NoRun DEF ghosts
  <1> QED
    BY <1>1, <1>4, <1>5, <1>6, ReceiverCacheReuse

-----------------------------------------------------------------------------
(* Elements are made, and received.                                        *)

\* Seeds and cache are cut from a vector of cached and of new elements.
LEMMA NewSeeds ==
  ASSUME NEW ret, NEW copied, NEW cached, NEW vole, NEW mpfss,
         Tidy(ret, copied, cached, vole, mpfss),
         NEW vec \in Vector, NEW v \in Nat, NEW m \in Nat, Len(vec) >= v + m,
         NoRepeats(vec), NEW B, Shared(vec) \subseteq Shared(cached) \cup B,
         RunsOf(B) \cap RunsOf(Stock(ret, copied, cached, vole, mpfss)) = {}
  PROVE  LET rest == WithoutTail(vec, v)
         IN  /\ Tidy(ret, copied, WithoutTail(rest, m), TailOf(vec, v), TailOf(rest, m))
             /\ Stock(ret, copied, WithoutTail(rest, m), TailOf(vec, v), TailOf(rest, m))
                  \subseteq ret \cup Shared(copied) \cup Shared(cached) \cup B
             /\ AllShared(vec) => /\ AllShared(WithoutTail(rest, m))
                                  /\ AllShared(TailOf(vec, v))
                                  /\ AllShared(TailOf(rest, m))
  <1> DEFINE rest == WithoutTail(vec, v)
             c == WithoutTail(rest, m)
             s == TailOf(vec, v)
             t == TailOf(rest, m)
  <1>1. B \cap Stock(ret, copied, cached, vole, mpfss) = {}
    BY DEF RunsOf
  <1>2. /\ NoRepeats(copied) /\ ret \cap Shared(copied) = {}
        /\ ret \cap Shared(vec) = {} /\ Shared(copied) \cap Shared(vec) = {}
    BY <1>1 DEF Tidy, Stock
  <1>3. /\ Tidy(ret, copied, c, s, t)
        /\ Stock(ret, copied, c, s, t) \subseteq ret \cup Shared(copied) \cup Shared(vec)
        /\ AllShared(vec) => AllShared(c) /\ AllShared(s) /\ AllShared(t)
    BY <1>2, TidySeeds
  <1> HIDE DEF rest, c, s, t
  <1>4. Stock(ret, copied, c, s, t) \subseteq ret \cup Shared(copied) \cup Shared(cached) \cup B
    BY <1>3
  <1> QED
    BY <1>3, <1>4 DEF rest, c, s, t

\* The Sender's new seeds and cache, from a vector with nothing unshared.
LEMMA NewSenderSeeds ==
  ASSUME Inv, NEW p \in Parties, TidySender(p),
         NEW vec \in Vector, NEW v \in Nat, NEW m \in Nat, Len(vec) >= v + m,
         NoRepeats(vec),
         NEW B, Shared(vec) \subseteq Shared(snd[p].cached) \cup B,
         RunsOf(B) \cap SenderRuns(p) = {},
         snd' = [snd EXCEPT ![p] = SenderSeeds(snd[p], vec, v, m)],
         Returned(p, "sender")' = Returned(p, "sender"),
         Copied(p, "sender")' = Copied(p, "sender")
  PROVE  /\ TidySender(p)'
         /\ SenderStock(p)' \subseteq Returned(p, "sender") \cup
              Shared(Copied(p, "sender")) \cup Shared(snd[p].cached) \cup B
         /\ AllShared(vec) => /\ AllShared(snd'[p].cached) /\ AllShared(snd'[p].vole_seed)
                              /\ AllShared(snd'[p].mpfss_seed)
         /\ \A q \in Parties \ {p} : snd'[q] = snd[q]
  <1> DEFINE ret == Returned(p, "sender")
             copied == Copied(p, "sender")
             cached == snd[p].cached
             vole == snd[p].vole_seed
             mpfss == snd[p].mpfss_seed
             rest == WithoutTail(vec, v)
             c == WithoutTail(rest, m)
             s == TailOf(vec, v)
             t == TailOf(rest, m)
  <1>1. snd \in [Parties -> SenderState]
    BY InvParts DEF LocalTypes
  <1>2. /\ snd'[p].cached = c /\ snd'[p].vole_seed = s /\ snd'[p].mpfss_seed = t
        /\ \A q \in Parties \ {p} : snd'[q] = snd[q]
    <2>1. SenderSeeds(snd[p], vec, v, m) =
            [snd[p] EXCEPT !.vole_seed = s, !.mpfss_seed = t, !.cached = c]
      BY DEF SenderSeeds
    <2> HIDE DEF c, s, t
    <2> QED
      BY <1>1, <2>1 DEF SenderState
  <1> HIDE DEF rest, c, s, t
  <1>3. /\ TidySender(p)' <=> Tidy(ret, copied, c, s, t)
        /\ SenderStock(p)' = Stock(ret, copied, c, s, t)
        /\ Tidy(ret, copied, cached, vole, mpfss)
        /\ SenderRuns(p) = RunsOf(Stock(ret, copied, cached, vole, mpfss))
    BY <1>2 DEF TidySender, SenderStock, SenderRuns
  <1> HIDE DEF ret, copied, vole, mpfss
  <1>4. /\ Tidy(ret, copied, c, s, t)
        /\ Stock(ret, copied, c, s, t) \subseteq ret \cup Shared(copied) \cup Shared(cached) \cup B
        /\ AllShared(vec) => AllShared(c) /\ AllShared(s) /\ AllShared(t)
    BY <1>3, NewSeeds DEF rest, c, s, t
  <1> QED
    BY <1>2, <1>3, <1>4 DEF ret, copied

\* The same for the Receiver's.
LEMMA NewReceiverSeeds ==
  ASSUME Inv, NEW p \in Parties, TidyReceiver(p),
         NEW vec \in Vector, NEW v \in Nat, NEW m \in Nat, Len(vec) >= v + m,
         NoRepeats(vec), NEW B, Shared(vec) \subseteq Shared(rcv[p].cached) \cup B,
         RunsOf(B) \cap ReceiverRuns(p) = {},
         rcv' = [rcv EXCEPT ![p] = ReceiverSeeds(rcv[p], vec, v, m)],
         Returned(p, "receiver")' = Returned(p, "receiver"),
         Copied(p, "receiver")' = Copied(p, "receiver")
  PROVE  /\ TidyReceiver(p)'
         /\ ReceiverRuns(p)' \subseteq ReceiverRuns(p) \cup RunsOf(B)
         /\ \A q \in Parties \ {p} : rcv'[q] = rcv[q]
  <1> DEFINE ret == Returned(p, "receiver")
             copied == Copied(p, "receiver")
             cached == rcv[p].cached
             vole == rcv[p].vole_seed
             mpfss == rcv[p].mpfss_seed
             rest == WithoutTail(vec, v)
             c == WithoutTail(rest, m)
             s == TailOf(vec, v)
             t == TailOf(rest, m)
  <1>1. rcv \in [Parties -> ReceiverState]
    BY InvParts DEF LocalTypes
  <1>2. /\ rcv'[p].cached = c /\ rcv'[p].vole_seed = s /\ rcv'[p].mpfss_seed = t
        /\ \A q \in Parties \ {p} : rcv'[q] = rcv[q]
    <2>1. ReceiverSeeds(rcv[p], vec, v, m) =
            [rcv[p] EXCEPT !.vole_seed = s, !.mpfss_seed = t,
                           !.mpfss_delta = rcv[p].delta, !.cached = c]
      BY DEF ReceiverSeeds
    <2> HIDE DEF c, s, t
    <2> QED
      BY <1>1, <2>1 DEF ReceiverState
  <1> HIDE DEF rest, c, s, t
  <1>3. /\ TidyReceiver(p)' <=> Tidy(ret, copied, c, s, t)
        /\ ReceiverRuns(p)' = RunsOf(Stock(ret, copied, c, s, t))
        /\ Tidy(ret, copied, cached, vole, mpfss)
        /\ ReceiverRuns(p) = RunsOf(Stock(ret, copied, cached, vole, mpfss))
    BY <1>2 DEF TidyReceiver, ReceiverStock, ReceiverRuns
  <1> HIDE DEF ret, copied, vole, mpfss
  <1>4. /\ Tidy(ret, copied, c, s, t)
        /\ Stock(ret, copied, c, s, t) \subseteq ret \cup Shared(copied) \cup Shared(cached) \cup B
    BY <1>3, NewSeeds DEF rest, c, s, t
  <1>5. Stock(ret, copied, c, s, t) \subseteq Stock(ret, copied, cached, vole, mpfss) \cup B
    BY <1>4 DEF Stock
  <1>6. RunsOf(Stock(ret, copied, c, s, t))
          \subseteq RunsOf(Stock(ret, copied, cached, vole, mpfss)) \cup RunsOf(B)
    BY <1>5 DEF RunsOf
  <1> QED
    BY <1>2, <1>3, <1>4, <1>6

\* The Gilboa product: u and v get a counterpart, w is sent.
LEMMA GilboaSenderReuse ==
  ASSUME Inv, ReuseInv, NEW p \in Parties, GilboaSender(p)
  PROVE  ReuseInv'
  <1> DEFINE delta == Head(channel[p]).delta
             vec == Fresh(delta, serial + 1, Len(snd[p].cached))
             v == params[p].vole_seed_size
             m == params[p].mpfss_seed_size
             msg == [kind |-> "w", vec |-> vec]
             B == Shared(vec)
  <1>1. /\ pc[p] = "gilboa" /\ IsSender(p) /\ Arrived(p, "choices")
        /\ snd' = [snd EXCEPT ![p] = SenderSeeds(snd[p], vec, v, m)]
        /\ Reply(p, msg) /\ serial' = serial + 1 /\ pc' = [pc EXCEPT ![p] = "loop"]
        /\ UNCHANGED <<app, loc, params, rcv, spent, failures>>
        /\ pc \in Counters /\ snd \in [Parties -> SenderState] /\ serial \in Nat
        /\ Holds(p) /\ ChannelInv /\ PartyInv(p) /\ params[p] \in Params
    BY InvParts, PartyTypes, EndTypes DEF GilboaSender, Goto, LocalTypes, ReuseInv
  <1>2. channel[p] # <<>> /\ delta \in Nat
    BY <1>1, ArrivedTypes, MessageTypes
  <1>3. /\ v \in Nat /\ m \in Nat /\ snd[p].cached \in Vector
        /\ Len(snd[p].cached) \in Nat /\ Len(snd[p].cached) = v + m
    <2>1. v = VoleSize(1) /\ m = MpfssSize(1)
      BY <1>1 DEF PartyInv, Bootstrapping, AtLevel
    <2>2. Len(snd[p].cached) = VoleSize(1) + MpfssSize(1)
      BY <1>1 DEF PartyInv, Seeded
    <2>3. v \in Nat /\ m \in Nat
      BY <1>1, ParamsFields
    <2>4. snd[p].cached \in Vector /\ Len(snd[p].cached) \in Nat
      BY EndTypes DEF Vector
    <2> QED
      BY <2>1, <2>2, <2>3, <2>4
  <1>4. /\ vec \in Vector /\ Len(vec) = v + m /\ NoRepeats(vec) /\ AllShared(vec)
        /\ RunsOf(B) \subseteq {serial + 1}
    <2>1. serial + 1 \in Nat \ {0} /\ serial + 1 \in Nat
      BY <1>1
    <2> HIDE DEF delta
    <2> QED
      BY <1>2, <1>3, <2>1, NewVectorTypes, SharedNew
  <1> HIDE DEF delta, vec, v, m
  <1>5. /\ ResultsApart(p)' /\ CopiedInCall(p)' /\ ReceiverQuiet(p)
        /\ Returned(p, "sender")' = Returned(p, "sender")
        /\ Copied(p, "sender")' = Copied(p, "sender")
    BY <1>1 DEF Holds, ResultsApart, CopiedInCall, ReceiverQuiet, Returned, Copied, app
  <1>6. RunsOf(B) \cap SenderRuns(p) = {} /\ RunsOf(B) \cap RunsOf(spent[p]) = {}
    <2>1. SenderRuns(p) \subseteq 1 .. serial /\ RunsOf(spent[p]) \subseteq 1 .. serial
      BY <1>1 DEF Holds, RunsApart, Apart, Spent
    <2> QED
      BY <1>1, <1>4, <2>1
  <1> DEFINE ret == Returned(p, "sender")
             copied == Copied(p, "sender")
  <1>7. /\ TidySender(p)'
        /\ SenderStock(p)' \subseteq ret \cup Shared(copied) \cup Shared(snd[p].cached) \cup B
        /\ AllShared(snd'[p].cached) /\ AllShared(snd'[p].vole_seed)
        /\ AllShared(snd'[p].mpfss_seed)
        /\ \A q \in Parties \ {p} : snd'[q] = snd[q]
    <2>1. TidySender(p) /\ Len(vec) >= v + m /\ B \subseteq Shared(snd[p].cached) \cup B
      BY <1>1, <1>3, <1>4 DEF Holds
    <2> HIDE DEF B
    <2> QED
      BY <1>1, <1>3, <1>4, <1>5, <1>6, <2>1, NewSenderSeeds DEF B
  <1>8. SenderStock(p)' \subseteq SenderStock(p) \cup B
    BY <1>7 DEF SenderStock, Stock
  <1>9. /\ channel'[p] = Tail(channel[p])
        /\ channel'[Peer(p)] = Append(channel[Peer(p)], msg)
    BY <1>1, PeerType DEF Reply, Inv, TypeOK
  <1>10. /\ msg \in Message /\ msg.kind = "w" /\ NoRepeats(msg.vec)
         /\ MessageRuns(msg) = RunsOf(B)
    BY <1>4 DEF Message, MessageRuns
  <1> HIDE DEF msg, B
  <1>11. pc'[p] = "loop" /\ \A q \in Parties \ {p} : SameEnd(q)
    BY <1>1, <1>7 DEF Counters, SameEnd, app
  <1>12. Takes(p) /\ Tells(p) /\ serial' \in Nat /\ serial <= serial'
    BY <1>1, <1>2, <1>4, <1>9, <1>10 DEF Takes, Tells, Delivers
  <1>13. Spent(p)'
    <2>1. spent[p] \cap SenderStock(p) = {}
      BY <1>1, SpentOutside DEF Holds
    <2>2. spent[p] \cap B = {}
      BY <1>6, RunsOfSets
    <2>3. spent[p] \cap SenderStock(p)' = {} /\ spent'[p] = spent[p]
      BY <1>1, <1>8, <2>1, <2>2
    <2> QED
      BY <1>1, <1>7, <1>11, <1>12, <2>3, SpentStep DEF Holds
  <1>14. Holds(p)'
    <2>1. SenderRuns(p)' \subseteq SenderRuns(p) \cup RunsOf(B)
      BY <1>8 DEF SenderRuns, RunsOf
    <2>2. SenderRuns(p)' \subseteq SenderRuns(p) \cup Begun(p) \cup serial + 1 .. serial'
      BY <1>1, <1>4, <2>1
    <2> QED
      BY <1>1, <1>5, <1>7, <1>11, <1>12, <1>13, <2>2, SenderStep
  <1> QED
    BY <1>1, <1>11, <1>12, <1>14, OwnInv

\* What is on the way to p is from runs of its own, and each element comes once.
LEMMA ArrivedApart ==
  ASSUME Inv, ReuseInv, NEW p \in Parties, channel[p] # <<>>
  PROVE  /\ Head(channel[p]) \in Message
         /\ MessageRuns(Head(channel[p])) \subseteq 1 .. serial
         /\ MessageRuns(Head(channel[p])) \cap ReceiverRuns(p) = {}
         /\ Head(channel[p]).kind = "w" => NoRepeats(Head(channel[p]).vec)
  <1>1. /\ Head(channel[p]) = channel[p][1] /\ 1 \in DOMAIN channel[p]
        /\ Head(channel[p]) \in Message
    BY EndTypes, TailOfChannel, HeadTailProperties
  <1>2. Apart(SenderRuns(p), ReceiverRuns(p), Begun(p), channel[p], serial)
    BY DEF ReuseInv, Holds, RunsApart
  <1> HIDE DEF MessageRuns
  <1> QED
    BY <1>1, <1>2 DEF Apart, InFlight

\* The Receiver gets w.
LEMMA GilboaReceiverReuse ==
  ASSUME Inv, ReuseInv, NEW p \in Parties, GilboaReceiver(p)
  PROVE  ReuseInv'
  <1> DEFINE msg == Head(channel[p])
             vec == msg.vec
             v == params[p].vole_seed_size
             m == params[p].mpfss_seed_size
             B == Shared(vec)
  <1>1. /\ pc[p] = "gilboa" /\ ~IsSender(p) /\ Arrived(p, "w") /\ Receive(p)
        /\ rcv' = [rcv EXCEPT ![p] = ReceiverSeeds(rcv[p], vec, v, m)]
        /\ pc' = [pc EXCEPT ![p] = "loop"]
        /\ UNCHANGED <<app, loc, params, snd, ghosts>>
        /\ pc \in Counters /\ Holds(p) /\ ChannelInv /\ PartyInv(p) /\ params[p] \in Params
    BY InvParts, PartyTypes DEF GilboaReceiver, Goto, LocalTypes, ReuseInv
  <1>2. /\ channel[p] # <<>> /\ msg \in Message /\ msg.kind = "w"
        /\ Len(vec) = VoleSize(1) + MpfssSize(1)
    BY <1>1, ArrivedTypes
  <1>3. v \in Nat /\ m \in Nat /\ Len(vec) = v + m /\ vec \in Vector
    BY <1>1, <1>2, ParamsFields, MessageTypes DEF PartyInv, Bootstrapping, AtLevel
  <1>4. /\ NoRepeats(vec) /\ RunsOf(B) = MessageRuns(msg)
        /\ RunsOf(B) \cap ReceiverRuns(p) = {}
    BY <1>2, ArrivedApart DEF MessageRuns
  <1> HIDE DEF vec, v, m
  <1>5. /\ ResultsApart(p)' /\ CopiedInCall(p)' /\ SenderQuiet(p)
        /\ Returned(p, "receiver")' = Returned(p, "receiver")
        /\ Copied(p, "receiver")' = Copied(p, "receiver")
    BY <1>1 DEF Holds, ResultsApart, CopiedInCall, SenderQuiet, Returned, Copied, app
  <1>6. /\ TidyReceiver(p)' /\ ReceiverRuns(p)' \subseteq ReceiverRuns(p) \cup RunsOf(B)
        /\ \A q \in Parties \ {p} : rcv'[q] = rcv[q]
    <2>1. TidyReceiver(p) /\ Len(vec) >= v + m /\ B \subseteq Shared(rcv[p].cached) \cup B
      BY <1>1, <1>3 DEF Holds
    <2> HIDE DEF B
    <2> QED
      BY <1>1, <1>3, <1>4, <1>5, <2>1, NewReceiverSeeds DEF B
  <1>7. /\ channel'[p] = Tail(channel[p]) /\ channel'[Peer(p)] = channel[Peer(p)]
    BY <1>1, PeerType DEF Receive, Inv, TypeOK
  <1>8. pc'[p] = "loop" /\ \A q \in Parties \ {p} : SameEnd(q)
    BY <1>1, <1>6 DEF Counters, SameEnd, app, ghosts
  <1>9. /\ Takes(p) /\ Tells(p) /\ serial' \in Nat /\ serial <= serial'
        /\ spent'[p] = spent[p]
    BY <1>1, <1>2, <1>7, NoRun DEF Takes, Tells, ghosts
  <1>10. Holds(p)'
    BY <1>1, <1>2, <1>4, <1>5, <1>6, <1>7, <1>8, <1>9, ReceiverStep
  <1> QED
    BY <1>1, <1>8, <1>9, <1>10, OwnInv

-----------------------------------------------------------------------------
(* An exchange in MPFSS.                                                   *)

\* Where the two ends stand with their exchanges, from either of them.
LEMMA ExchangeViews ==
  ASSUME Inv, ReuseInv, NEW p \in Parties, NEW q, q = Peer(p)
  PROVE  /\ q \in Parties /\ q # p /\ Peer(q) = p
         /\ channel[p] \in Seq(Message) /\ channel[q] \in Seq(Message)
         /\ OneExchange(pc[p] = "sums", loc[p].run, channel[q], channel[p])
         /\ OneExchange(pc[q] = "sums", loc[q].run, channel[p], channel[q])
  <1>1. q \in Parties /\ q # p /\ Peer(q) = p
    BY PeerType, PartiesAssumption DEF Peer, Parties
  <1> QED
    BY <1>1, EndTypes DEF ReuseInv, Exchange

\* A vector with nothing unshared has the elements that it shares.
LEMMA SharedAll ==
  ASSUME NEW vec \in Vector, AllShared(vec)
  PROVE  ToSet(vec) = Shared(vec)
  BY DEF AllShared, Shared, ToSet

\* The Sender's masked values spend its seeds, which are in no other vector.
LEMMA ExpandSenderReuse ==
  ASSUME Inv, ReuseInv, NEW p \in Parties, ExpandSender(p)
  PROVE  ReuseInv'
  <1> DEFINE q == Peer(p)
             msg == [kind |-> "masked", run |-> serial + 1,
                     vole_seed |-> snd[p].vole_seed,
                     mpfss_seed |-> snd[p].mpfss_seed,
                     generator |-> params[p].generator.id,
                     buckets |-> UpdateBuckets(p, loc[p].output)]
             vole == snd[p].vole_seed
             mpfss == snd[p].mpfss_seed
  <1>1. /\ pc[p] = "expand" /\ IsSender(p) /\ pc' = [pc EXCEPT ![p] = "sums"]
        /\ Send(p, msg) /\ serial' = serial + 1 /\ serial \in Nat
        /\ loc' = [loc EXCEPT ![p].run = serial + 1]
        /\ spent' = [spent EXCEPT ![p] = @ \cup ToSet(vole) \cup ToSet(mpfss)]
        /\ UNCHANGED <<app, snd, rcv, failures>>
        /\ pc \in Counters /\ loc \in [Parties -> Locals]
        /\ spent \in [Parties -> SUBSET Element]
        /\ Holds(p)
    BY InvParts, EndTypes DEF ExpandSender, Goto, LocalTypes, GlobalTypes, ReuseInv
  <1>2. /\ vole \in Vector /\ mpfss \in Vector /\ AllShared(vole) /\ AllShared(mpfss)
        /\ ToSet(vole) = Shared(vole) /\ ToSet(mpfss) = Shared(mpfss)
    BY <1>1, EndTypes, SharedAll DEF Holds, Spent
  <1>3. msg \in Message /\ msg.kind = "masked" /\ msg.run = serial + 1
        /\ MessageRuns(msg) = {serial + 1}
    <2>1. /\ params[p].generator.id \in Nat /\ serial + 1 \in Nat
          /\ UpdateBuckets(p, loc[p].output) \in [size : Nat, num : Nat]
      <3>1. params[p] \in Params /\ loc[p].output \in Nat
        BY InvParts, PartyTypes DEF Locals
      <3>2. params[p].generator \in [rows : Nat, cols : Nat, id : Nat]
        BY <3>1, ParamsFields
      <3>3. UpdateBuckets(p, loc[p].output) \in [size : Nat, num : Nat]
        BY <3>1, BucketsType
      <3> QED
        BY <1>1, <3>2, <3>3
    <2> QED
      BY <1>2, <2>1 DEF Message, MessageRuns
  <1> HIDE DEF msg
  <1>4. /\ pc'[p] = "sums" /\ loc'[p].run = serial + 1
        /\ loc'[p].role = loc[p].role /\ loc'[p].copied = loc[p].copied
        /\ spent'[p] = spent[p] \cup Shared(vole) \cup Shared(mpfss)
        /\ \A r \in Parties \ {p} : SameEnd(r)
    BY <1>1, <1>2 DEF Counters, Locals, SameEnd, app
  <1>5. channel'[p] = channel[p] /\ channel'[q] = Append(channel[q], msg)
    BY <1>1, PeerType DEF Send, Inv, TypeOK
  <1>6. /\ ResultsApart(p)' /\ CopiedInCall(p)'
        /\ Returned(p, "sender")' = Returned(p, "sender")
        /\ Copied(p, "sender")' = Copied(p, "sender")
        /\ SenderQuiet(p) /\ ReceiverQuiet(p)
    BY <1>1, <1>4
    DEF Holds, ResultsApart, CopiedInCall, Returned, Copied, SenderQuiet,
        ReceiverQuiet, app
  <1>7. /\ TidySender(p)' /\ TidyReceiver(p)'
        /\ SenderRuns(p)' \in SUBSET SenderRuns(p)
        /\ ReceiverRuns(p)' \in SUBSET ReceiverRuns(p)
    BY <1>1, <1>6, SenderKept, ReceiverKept, RunsOfSets
    DEF Holds, SenderRuns, ReceiverRuns
  <1>8. Apart(SenderRuns(p), ReceiverRuns(p), {}, channel[p], serial)
    BY <1>1 DEF Holds, RunsApart, Begun
  <1>9. RunsApart(p)'
    <2>1. Apart(SenderRuns(p), ReceiverRuns(p), {} \cup {serial + 1}, channel[p], serial + 1)
      BY <1>1, <1>8, ApartNew
    <2>2. /\ {serial + 1} \in SUBSET ({} \cup {serial + 1})
          /\ serial + 1 \in Nat /\ serial + 1 <= serial + 1
          /\ channel[p] \in Seq(Message)
      BY <1>1, EndTypes
    <2>3. Apart(SenderRuns(p)', ReceiverRuns(p)', {serial + 1}, channel[p], serial + 1)
      BY <1>7, <2>1, <2>2, ApartLess
    <2>4. Begun(p)' = {serial + 1}
      BY <1>4 DEF Begun
    <2> QED
      BY <1>1, <1>5, <2>3, <2>4 DEF RunsApart
  <1>10. Spent(p)'
    <2>1. /\ Shared(vole) \subseteq SenderStock(p) /\ Shared(mpfss) \subseteq SenderStock(p)
          /\ SenderRuns(p) \subseteq 1 .. serial /\ RunsOf(spent[p]) \subseteq 1 .. serial
      BY <1>1, <1>8 DEF SenderStock, Stock, Apart, Holds, Spent
    <2>2. RunsOf(spent'[p]) \subseteq 1 .. serial
      BY <1>4, <2>1 DEF SenderRuns, RunsOf
    <2>3. \A e \in spent'[p] : e[2] # 0
      BY <1>1, <1>4 DEF Holds, Spent, Shared
    <2>4. Begun(p)' = {serial + 1} /\ serial + 1 \notin 1 .. serial
          /\ 1 .. serial \subseteq 1 .. serial + 1
      BY <1>1, <1>4 DEF Begun
    <2>5. /\ spent'[p] \cap Returned(p, "sender") = {}
          /\ spent'[p] \cap Shared(Copied(p, "sender")) = {}
          /\ spent'[p] \cap Shared(snd[p].cached) = {}
      BY <1>1, <1>4 DEF Holds, Spent, TidySender, Tidy
    <2>6. AllShared(snd[p].cached)
      BY <1>1 DEF Holds, Spent
    <2> QED
      BY <1>1, <1>2, <1>4, <1>6, <2>2, <2>3, <2>4, <2>5, <2>6 DEF Spent
  <1>11. Holds(p)'
    BY <1>6, <1>7, <1>9, <1>10 DEF Holds
  <1>12. Holds(q)'
    <2>1. Delivers(msg, q) /\ serial' \in Nat /\ serial <= serial'
      BY <1>1, <1>3, <1>5 DEF Delivers
    <2> QED
      BY <1>4, <2>1, PeerType, OtherEnd DEF ReuseInv
  <1>13. Exchange(p)' /\ Exchange(q)'
    <2>1. /\ OneExchange(FALSE, loc[p].run, channel[q], channel[p])
          /\ OneExchange(pc[q] = "sums", loc[q].run, channel[p], channel[q])
          /\ channel[p] \in Seq(Message) /\ channel[q] \in Seq(Message)
          /\ q \in Parties /\ q # p /\ Peer(q) = p
      BY <1>1, ExchangeViews
    <2> HIDE DEF q
    <2>2. OneExchange(TRUE, serial + 1, channel'[q], channel'[p])
      BY <1>3, <1>5, <2>1, ExchangeBegins
    <2>3. OneExchange(pc[q] = "sums", loc[q].run, channel'[p], channel'[q])
      <3>1. OneExchange(pc[q] = "sums", loc[q].run, channel[p], Append(channel[q], msg))
        BY <1>3, <2>1, ExchangeOther
      <3> QED
        BY <1>5, <3>1
    <2> QED
      BY <1>4, <2>1, <2>2, <2>3 DEF Exchange, SameEnd, q
  <1> QED
    BY <1>11, <1>12, <1>13, BothEnds

\* After an expansion p moves on, with what it has copied.
LEMMA AfterExpandMoves ==
  ASSUME Inv, NEW p \in Parties, AfterExpand(p)
  PROVE  /\ pc'[p] \in {"copy", "loop"}
         /\ loc'[p].role = loc[p].role /\ loc'[p].copied = loc[p].copied
         /\ \A q \in Parties \ {p} : pc'[q] = pc[q] /\ loc'[q] = loc[q]
  <1>1. loc \in [Parties -> Locals] /\ pc \in Counters
    BY InvParts DEF LocalTypes
  <1> QED
    BY <1>1 DEF AfterExpand, Goto, Counters, Locals

\* The Receiver's w has the elements of the Sender's run.
LEMMA ExpandReceiverDoneReuse ==
  ASSUME Inv, ReuseInv, NEW p \in Parties, ExpandReceiverDone(p)
  PROVE  ReuseInv'
  <1> DEFINE q == Peer(p)
             msg == Head(channel[p])
             made == IF Matches(p, msg)
                     THEN Fresh(rcv[p].mpfss_delta, msg.run, loc[p].output)
                     ELSE Unshared(loc[p].output)
             old == WithoutTail(rcv[p].cached, loc[p].output)
             vec == old \o made
             v == loc[p].new_vole
             m == loc[p].new_mpfss
             sums == [kind |-> "sums", run |-> msg.run]
             B == Shared(made)
  <1>1. /\ pc[p] = "masked" /\ Arrived(p, "masked") /\ AfterExpand(p)
        /\ rcv' = [rcv EXCEPT ![p] = ReceiverSeeds(rcv[p], vec, v, m)]
        /\ Reply(p, sums) /\ UNCHANGED <<app, snd, ghosts>>
        /\ Holds(p) /\ ChannelInv /\ PartyInv(p) /\ loc[p] \in Locals
        /\ rcv[p] \in ReceiverState /\ serial \in Nat
    BY InvParts, PartyTypes, EndTypes DEF ExpandReceiverDone, ReuseInv
  <1>2. /\ channel[p] # <<>> /\ msg \in Message /\ msg.kind = "masked"
        /\ msg.run \in 1 .. serial /\ MessageRuns(msg) = {msg.run}
        /\ msg.run \notin ReceiverRuns(p)
    <2>1. channel[p] # <<>> /\ msg.kind = "masked"
      BY <1>1, ArrivedTypes
    <2>2. MessageRuns(msg) = {msg.run}
      BY <2>1 DEF MessageRuns
    <2> QED
      BY <2>1, <2>2, ArrivedApart
  <1>3. /\ v \in Nat /\ m \in Nat /\ loc[p].output \in Nat
        /\ loc[p].output >= v + m
        /\ rcv[p].mpfss_delta \in Nat /\ rcv[p].cached \in Vector
        /\ loc[p].output <= Len(rcv[p].cached)
    BY <1>1 DEF Locals, ReceiverState, PartyInv, NextLevel, Seeded
  <1>4. /\ made \in Vector /\ Len(made) = loc[p].output /\ NoRepeats(made)
        /\ RunsOf(B) \subseteq {msg.run}
    <2>1. msg.run \in Nat \ {0} /\ msg.run \in Nat
      BY <1>1, <1>2
    <2> HIDE DEF msg
    <2>2. CASE made = Fresh(rcv[p].mpfss_delta, msg.run, loc[p].output)
      BY <1>3, <2>1, <2>2, NewVectorTypes, SharedNew
    <2>3. CASE made = Unshared(loc[p].output)
      <3>1. made \in Vector /\ Len(made) = loc[p].output /\ NoRepeats(made) /\ B = {}
        BY <1>3, <2>1, <2>3, NewVectorTypes, SharedNew
      <3> QED
        BY <3>1 DEF RunsOf
    <2> QED
      BY <2>2, <2>3
  <1>5. /\ old \in Vector /\ NoRepeats(old) /\ Shared(old) \subseteq Shared(rcv[p].cached)
    BY <1>1, <1>3, TailType, SharedSplit DEF Holds, TidyReceiver, Tidy
  <1>6. /\ RunsOf(B) \cap ReceiverRuns(p) = {}
        /\ Shared(rcv[p].cached) \subseteq ReceiverStock(p)
    BY <1>2, <1>4 DEF ReceiverStock, Stock
  <1> HIDE DEF msg, made, old, v, m
  <1>7. Shared(old) \cap B = {}
    BY <1>5, <1>6 DEF ReceiverRuns, RunsOf
  <1>8. /\ vec \in Vector /\ Len(vec) >= v + m /\ NoRepeats(vec)
        /\ Shared(vec) \subseteq Shared(rcv[p].cached) \cup B
    <2>1. Shared(vec) = Shared(old) \cup B /\ NoRepeats(vec)
      BY <1>4, <1>5, <1>7, SharedJoin
    <2>2. vec \in Vector /\ Len(vec) = Len(old) + Len(made) /\ Len(old) \in Nat
      BY <1>4, <1>5, ConcatType DEF Vector
    <2> HIDE DEF vec
    <2> QED
      BY <1>3, <1>4, <1>5, <2>1, <2>2
  <1> HIDE DEF vec, B
  <1>9. /\ pc'[p] \in {"copy", "loop"}
        /\ loc'[p].role = loc[p].role /\ loc'[p].copied = loc[p].copied
        /\ \A r \in Parties \ {p} : pc'[r] = pc[r] /\ loc'[r] = loc[r]
    BY <1>1, AfterExpandMoves
  <1>10. /\ ResultsApart(p)' /\ CopiedInCall(p)' /\ SenderQuiet(p)
         /\ Returned(p, "receiver")' = Returned(p, "receiver")
         /\ Copied(p, "receiver")' = Copied(p, "receiver")
    BY <1>1, <1>9
    DEF Holds, ResultsApart, CopiedInCall, SenderQuiet, Returned, Copied, app
  <1>11. /\ TidyReceiver(p)' /\ ReceiverRuns(p)' \subseteq ReceiverRuns(p) \cup RunsOf(B)
         /\ \A r \in Parties \ {p} : rcv'[r] = rcv[r]
    BY <1>1, <1>3, <1>6, <1>8, <1>10, NewReceiverSeeds DEF Holds
  <1>12. /\ channel'[p] = Tail(channel[p]) /\ channel'[q] = Append(channel[q], sums)
    BY <1>1, PeerType DEF Reply, Inv, TypeOK
  <1>13. sums \in Message /\ sums.kind = "sums" /\ sums.run = msg.run /\ MessageRuns(sums) = {}
    BY <1>1, <1>2 DEF Message, MessageRuns
  <1> HIDE DEF sums
  <1>14. /\ \A r \in Parties \ {p} : SameEnd(r)
         /\ serial' \in Nat /\ serial <= serial' /\ spent'[p] = spent[p]
    BY <1>1, <1>9, <1>11, NoRun DEF SameEnd, app, ghosts
  <1>15. Holds(p)'
    BY <1>1, <1>2, <1>4, <1>9, <1>10, <1>11, <1>12, <1>14, ReceiverStep DEF msg
  <1>16. Holds(q)'
    <2>1. Delivers(sums, q)
      BY <1>12, <1>13 DEF Delivers
    <2> QED
      BY <1>14, <2>1, PeerType, OtherEnd DEF ReuseInv
  <1>17. Exchange(p)' /\ Exchange(q)'
    <2>1. /\ OneExchange(FALSE, loc[p].run, channel[q], channel[p])
          /\ OneExchange(pc[q] = "sums", loc[q].run, channel[p], channel[q])
          /\ channel[p] \in Seq(Message) /\ channel[q] \in Seq(Message)
          /\ q \in Parties /\ q # p /\ Peer(q) = p
      BY <1>1, ExchangeViews
    <2> HIDE DEF q
    <2>2. OneExchange(pc[q] = "sums", loc[q].run, channel'[p], channel'[q])
      BY <1>2, <1>12, <1>13, <2>1, ExchangeAnswered DEF msg
    <2>3. OneExchange(FALSE, loc'[p].run, channel'[q], channel'[p])
      <3>1. Append(channel[q], sums) \in Seq(Message)
        BY <1>13, <2>1, LongerChannel
      <3>2. OneExchange(FALSE, loc[p].run, Append(channel[q], sums), channel[p])
        BY <1>13, <2>1, ExchangeOther
      <3>3. OneExchange(FALSE, loc[p].run, Append(channel[q], sums), Tail(channel[p]))
        BY <1>2, <1>13, <2>1, <3>1, <3>2, ExchangeOther
      <3> QED
        BY <1>12, <3>3 DEF OneExchange
    <2> QED
      BY <1>9, <1>14, <2>1, <2>2, <2>3 DEF Exchange, SameEnd, q
  <1> QED
    BY <1>15, <1>16, <1>17, BothEnds

\* The Sender's u and v have the elements of the run that it had begun: the answer
\* is to that one.
LEMMA ExpandSenderDoneReuse ==
  ASSUME Inv, ReuseInv, NEW p \in Parties, ExpandSenderDone(p)
  PROVE  ReuseInv'
  <1> DEFINE q == Peer(p)
             delta == snd[p].vole_seed[1][1]
             run == loc[p].run
             made == Fresh(delta, run, loc[p].output)
             vec == snd[p].cached \o made
             v == loc[p].new_vole
             m == loc[p].new_mpfss
             B == Shared(made)
  <1>1. /\ pc[p] = "sums" /\ Arrived(p, "sums") /\ AfterExpand(p) /\ Receive(p)
        /\ UNCHANGED <<app, rcv, ghosts>>
        /\ Holds(p) /\ ChannelInv /\ PartyInv(p) /\ loc[p] \in Locals
        /\ snd[p] \in SenderState /\ serial \in Nat
    BY InvParts, PartyTypes, EndTypes DEF ExpandSenderDone, ReuseInv
  <1>2. channel[p] # <<>> /\ Head(channel[p]).kind = "sums"
    BY <1>1, ArrivedTypes
  <1>3. /\ OneExchange(TRUE, loc[p].run, channel[q], channel[p])
        /\ OneExchange(pc[q] = "sums", loc[q].run, channel[p], channel[q])
        /\ channel[p] \in Seq(Message) /\ channel[q] \in Seq(Message)
        /\ q \in Parties /\ q # p /\ Peer(q) = p
    BY <1>1, ExchangeViews
  <1>4. /\ Head(channel[p]).run = run
        /\ OneExchange(FALSE, loc'[p].run, channel[q], Tail(channel[p]))
        /\ OneExchange(pc[q] = "sums", loc[q].run, Tail(channel[p]), channel[q])
    <2> HIDE DEF q
    <2>1. /\ Head(channel[p]).run = run
          /\ OneExchange(FALSE, run, channel[q], Tail(channel[p]))
      BY <1>2, <1>3, ExchangeEnds
    <2>2. [kind |-> "choices", delta |-> 0] \in Message
      BY DEF Message
    <2>3. OneExchange(pc[q] = "sums", loc[q].run, Tail(channel[p]), channel[q])
      BY <1>2, <1>3, <2>2, ExchangeOther
    <2>4. OneExchange(FALSE, loc'[p].run, channel[q], Tail(channel[p]))
      BY <2>1 DEF OneExchange
    <2> QED
      BY <2>1, <2>3, <2>4
  <1>5. snd' = [snd EXCEPT ![p] = SenderSeeds(snd[p], vec, v, m)]
    <2>1. snd \in [Parties -> SenderState]
      BY InvParts DEF LocalTypes
    <2> QED
      BY <1>4, <2>1 DEF ExpandSenderDone
  <1>6. /\ v \in Nat /\ m \in Nat /\ loc[p].output \in Nat
        /\ loc[p].output >= v + m
        /\ snd[p].cached \in Vector /\ NoRepeats(snd[p].cached)
        /\ AllShared(snd[p].cached)
        /\ Begun(p) = {run} /\ run \in 1 .. serial
    BY <1>1
    DEF Locals, SenderState, PartyInv, NextLevel, Holds, TidySender, Tidy, Spent,
        Begun, RunsApart, Apart
  <1>7. delta \in Nat
    <2>1. snd[p].vole_seed \in Seq(Element) /\ Len(snd[p].vole_seed) >= 1
      BY <1>1 DEF SenderState, Vector, PartyInv, Seeded
    <2>2. snd[p].vole_seed[1] \in Element
      BY <2>1
    <2> QED
      BY <2>2 DEF Element
  <1>8. /\ made \in Vector /\ Len(made) = loc[p].output /\ NoRepeats(made)
        /\ AllShared(made) /\ RunsOf(B) \subseteq {run}
    <2>1. run \in Nat \ {0} /\ run \in Nat
      BY <1>1, <1>6
    <2> HIDE DEF delta, run
    <2> QED
      BY <1>6, <1>7, <2>1, NewVectorTypes, SharedNew
  <1>9. /\ RunsOf(B) \cap SenderRuns(p) = {} /\ RunsOf(B) \cap RunsOf(spent[p]) = {}
        /\ Shared(snd[p].cached) \subseteq SenderStock(p)
    <2>1. SenderRuns(p) \cap {run} = {} /\ RunsOf(spent[p]) \cap {run} = {}
      BY <1>1, <1>6 DEF Holds, RunsApart, Apart, Spent
    <2>2. Shared(snd[p].cached) \subseteq SenderStock(p)
      BY DEF SenderStock, Stock
    <2> QED
      BY <1>8, <2>1, <2>2
  <1> HIDE DEF delta, run, made, v, m
  <1>10. Shared(snd[p].cached) \cap B = {} /\ spent[p] \cap B = {}
    BY <1>9 DEF SenderRuns, RunsOf
  <1>11. /\ vec \in Vector /\ Len(vec) >= v + m /\ NoRepeats(vec) /\ AllShared(vec)
         /\ Shared(vec) \subseteq Shared(snd[p].cached) \cup B
    <2>1. Shared(vec) = Shared(snd[p].cached) \cup B /\ NoRepeats(vec) /\ AllShared(vec)
      BY <1>6, <1>8, <1>10, SharedJoin
    <2>2. vec \in Vector /\ Len(vec) = Len(snd[p].cached) + Len(made)
      BY <1>6, <1>8, ConcatType
    <2>3. Len(snd[p].cached) \in Nat
      BY <1>6 DEF Vector
    <2> HIDE DEF vec
    <2> QED
      BY <1>6, <1>8, <2>1, <2>2, <2>3
  <1> HIDE DEF vec, B
  <1>12. /\ pc'[p] \in {"copy", "loop"}
         /\ loc'[p].role = loc[p].role /\ loc'[p].copied = loc[p].copied
         /\ \A r \in Parties \ {p} : pc'[r] = pc[r] /\ loc'[r] = loc[r]
    BY <1>1, AfterExpandMoves
  <1>13. /\ ResultsApart(p)' /\ CopiedInCall(p)' /\ ReceiverQuiet(p)
         /\ Returned(p, "sender")' = Returned(p, "sender")
         /\ Copied(p, "sender")' = Copied(p, "sender")
    BY <1>1, <1>12
    DEF Holds, ResultsApart, CopiedInCall, ReceiverQuiet, Returned, Copied, app
  <1> DEFINE ret == Returned(p, "sender")
             copied == Copied(p, "sender")
  <1>14. /\ TidySender(p)'
         /\ SenderStock(p)' \subseteq ret \cup Shared(copied) \cup Shared(snd[p].cached) \cup B
         /\ AllShared(snd'[p].cached) /\ AllShared(snd'[p].vole_seed)
         /\ AllShared(snd'[p].mpfss_seed)
         /\ \A r \in Parties \ {p} : snd'[r] = snd[r]
    BY <1>1, <1>5, <1>6, <1>9, <1>11, <1>13, NewSenderSeeds DEF Holds
  <1>15. channel'[p] = Tail(channel[p]) /\ channel'[q] = channel[q]
    BY <1>1, PeerType DEF Receive, Inv, TypeOK
  <1>16. /\ \A r \in Parties \ {p} : SameEnd(r)
         /\ Takes(p) /\ serial' \in Nat /\ serial <= serial' /\ serial' = serial
         /\ spent'[p] = spent[p]
    BY <1>1, <1>2, <1>12, <1>14, <1>15, NoRun DEF SameEnd, Takes, app, ghosts
  <1>17. Spent(p)'
    <2>1. /\ spent[p] \cap ret = {} /\ spent[p] \cap Shared(copied) = {}
          /\ spent[p] \cap Shared(snd[p].cached) = {}
      BY <1>1 DEF Holds, Spent
    <2>2. spent[p] \cap SenderStock(p)' = {}
      BY <1>10, <1>14, <2>1
    <2> QED
      BY <1>1, <1>12, <1>14, <1>16, <2>2, SpentStep DEF Holds
  <1>18. Holds(p)'
    <2>1. SenderStock(p)' \subseteq SenderStock(p) \cup B
      BY <1>14 DEF SenderStock, Stock
    <2>2. SenderRuns(p)' \subseteq SenderRuns(p) \cup RunsOf(B)
      BY <2>1 DEF SenderRuns, RunsOf
    <2>3. SenderRuns(p)' \subseteq SenderRuns(p) \cup Begun(p) \cup serial + 1 .. serial'
      BY <1>6, <1>8, <2>2
    <2> QED
      BY <1>1, <1>12, <1>13, <1>14, <1>16, <1>17, <2>3, SenderStep
  <1>19. Holds(q)'
    BY <1>3, <1>15, <1>16, OtherEnd DEF ReuseInv
  <1>20. Exchange(p)' /\ Exchange(q)'
    BY <1>3, <1>4, <1>12, <1>15, <1>16 DEF Exchange, SameEnd
  <1> QED
    BY <1>18, <1>19, <1>20, BothEnds

-----------------------------------------------------------------------------
(* The invariant.                                                          *)

\* Two new objects have nothing.
LEMMA InitReuse == Init => ReuseInv
  <1> SUFFICES ASSUME Init, NEW p \in Parties PROVE Holds(p) /\ Exchange(p)
    BY DEF ReuseInv
  <1>1. /\ results[p] = <<>> /\ loc[p] = NoCall /\ pc[p] = "idle"
        /\ snd[p] = NoSender /\ rcv[p] = NoReceiver
        /\ channel[p] = <<>> /\ channel[Peer(p)] = <<>> /\ spent[p] = {} /\ serial = 0
    BY PeerType DEF Init
  <1>2. NoRepeats(<<>>) /\ Shared(<<>>) = {} /\ AllShared(<<>>)
    BY SharedNew
  <1>3. \A role \in Roles : Returned(p, role) = {} /\ Copied(p, role) = <<>>
    BY <1>1 DEF Returned, Copied, NoCall
  <1>4. /\ snd[p].cached = <<>> /\ snd[p].vole_seed = <<>> /\ snd[p].mpfss_seed = <<>>
        /\ rcv[p].cached = <<>> /\ rcv[p].vole_seed = <<>> /\ rcv[p].mpfss_seed = <<>>
        /\ loc[p].copied = <<>>
    BY <1>1 DEF NoSender, NoReceiver, NoCall
  <1>5. TidySender(p) /\ TidyReceiver(p) /\ SenderStock(p) = {} /\ ReceiverStock(p) = {}
    BY <1>2, <1>3, <1>4
    DEF TidySender, TidyReceiver, SenderStock, ReceiverStock, Tidy, Stock, Roles
  <1>6. RunsApart(p)
    BY <1>1, <1>5
    DEF RunsApart, Apart, SenderRuns, ReceiverRuns, RunsOf, Begun, InFlight
  <1>7. Spent(p)
    <2>1. Begun(p) = {} /\ RunsOf({}) = {}
      BY <1>1 DEF Begun, RunsOf
    <2> QED
      BY <1>1, <1>2, <1>4, <2>1 DEF Spent
  <1>8. ResultsApart(p) /\ CopiedInCall(p) /\ Exchange(p)
    BY <1>1, <1>4 DEF ResultsApart, CopiedInCall, Exchange, OneExchange
  <1> QED
    BY <1>5, <1>6, <1>7, <1>8 DEF Holds

\* ReuseInv is inductive relative to Inv.
LEMMA NextReuse == Inv /\ ReuseInv /\ [Next]_vars => ReuseInv'
  <1> SUFFICES ASSUME Inv, ReuseInv, [Next]_vars PROVE ReuseInv'
    OBVIOUS
  <1>1. ASSUME NEW p \in Parties, NEW c \in Call, Invoke(p, c) PROVE ReuseInv'
    BY <1>1, InvokeReuse
  <1>2. ASSUME NEW p \in Parties, Retry(p) PROVE ReuseInv'
    BY <1>2, RetryReuse
  <1>3. ASSUME NEW p \in Parties, Step(p) PROVE ReuseInv'
    BY <1>3, RefusedReuse, PrecomputeSenderReuse, PrecomputeReceiverReuse,
       GilboaSenderReuse, GilboaReceiverReuse, MovingReuse, SendSeedReuse,
       ReceiveSeedReuse, ExpandSenderReuse, ExpandReceiverReuse,
       ExpandReceiverDoneReuse, ExpandSenderDoneReuse, FetchCachedReuse,
       CopyWholeCacheReuse, CopyRemainingReuse
    DEF Step
  <1>4. CASE UNCHANGED vars
    <2>1. UNCHANGED <<results, pc, loc, snd, rcv, channel, serial, spent>>
      BY <1>4 DEF vars, app, objects, ghosts
    <2>2. ASSUME NEW p \in Parties PROVE Holds(p)' /\ Exchange(p)'
      <3>1. /\ Returned(p, "sender")' = Returned(p, "sender")
            /\ Returned(p, "receiver")' = Returned(p, "receiver")
            /\ Copied(p, "sender")' = Copied(p, "sender")
            /\ Copied(p, "receiver")' = Copied(p, "receiver")
            /\ Begun(p)' = Begun(p)
        BY <2>1 DEF Returned, Copied, Begun
      <3>2. /\ TidySender(p)' = TidySender(p) /\ TidyReceiver(p)' = TidyReceiver(p)
            /\ SenderRuns(p)' = SenderRuns(p) /\ ReceiverRuns(p)' = ReceiverRuns(p)
        BY <2>1, <3>1
        DEF TidySender, TidyReceiver, SenderRuns, ReceiverRuns, SenderStock,
            ReceiverStock
      <3>3. ResultsApart(p)' = ResultsApart(p) /\ CopiedInCall(p)' = CopiedInCall(p)
        BY <2>1 DEF ResultsApart, CopiedInCall
      <3>4. RunsApart(p)' = RunsApart(p)
        BY <2>1, <3>1, <3>2 DEF RunsApart
      <3>5. Spent(p)' = Spent(p)
        BY <2>1, <3>1 DEF Spent, IsSender
      <3>6. Exchange(p)' = Exchange(p)
        BY <2>1 DEF Exchange
      <3>7. Holds(p) /\ Exchange(p)
        BY DEF ReuseInv
      <3> QED
        BY <3>2, <3>3, <3>4, <3>5, <3>6, <3>7 DEF Holds
    <2> QED
      BY <2>2 DEF ReuseInv
  <1> QED
    BY <1>1, <1>2, <1>3, <1>4 DEF Next

\* In every reachable state the elements that an end has are in one place, and
\* what is on its way to it, or has been begun, is new.
THEOREM ReuseInvariance == Spec => []ReuseInv
  BY InitReuse, NextReuse, Invariance, InitInv, NextInv, PTL DEF Spec

-----------------------------------------------------------------------------
(* What it implies.                                                        *)

\* The vectors that an end holds besides what it has returned.
Kept(p) == <<loc[p].copied, snd[p].cached, snd[p].vole_seed, snd[p].mpfss_seed,
             rcv[p].cached, rcv[p].vole_seed, rcv[p].mpfss_seed>>

\* No element is in two of these vectors, or has been returned.
LEMMA KeptApart ==
  ASSUME Inv, ReuseInv, NEW p \in Parties
  PROVE  \A j \in 1 .. 7 :
           /\ NoRepeats(Kept(p)[j])
           /\ \A role \in Roles : Returned(p, role) \cap Shared(Kept(p)[j]) = {}
           /\ \A k \in 1 .. 7 \ {j} : Shared(Kept(p)[j]) \cap Shared(Kept(p)[k]) = {}
  <1> DEFINE C == loc[p].copied
             S1 == snd[p].cached
             S2 == snd[p].vole_seed
             S3 == snd[p].mpfss_seed
             R1 == rcv[p].cached
             R2 == rcv[p].vole_seed
             R3 == rcv[p].mpfss_seed
             sold == Returned(p, "sender")
             bought == Returned(p, "receiver")
             CS == Copied(p, "sender")
             CR == Copied(p, "receiver")
  <1>1. /\ Tidy(sold, CS, S1, S2, S3) /\ Tidy(bought, CR, R1, R2, R3)
        /\ Stock(sold, CS, S1, S2, S3) \cap Stock(bought, CR, R1, R2, R3) = {}
    BY RolesApart DEF ReuseInv, Holds, TidySender, TidyReceiver, SenderStock, ReceiverStock
  <1>2. NoRepeats(<<>>) /\ Shared(<<>>) = {}
    BY SharedNew
  <1>3. \/ C = CS \/ C = CR \/ C = <<>>
    <2>1. loc[p].role \in {"none", "sender", "receiver"}
      BY InvParts, PartyTypes DEF Locals
    <2> QED
      BY <2>1 DEF Copied, CopiedInCall, Holds, ReuseInv
  <1>4. Kept(p) = <<C, S1, S2, S3, R1, R2, R3>>
    BY DEF Kept
  <1> HIDE DEF C, S1, S2, S3, R1, R2, R3, sold, bought, CS, CR
  <1>5. /\ NoRepeats(S1) /\ NoRepeats(S2) /\ NoRepeats(S3)
        /\ NoRepeats(R1) /\ NoRepeats(R2) /\ NoRepeats(R3)
        /\ sold \cap Shared(S1) = {} /\ sold \cap Shared(S2) = {} /\ sold \cap Shared(S3) = {}
        /\ bought \cap Shared(R1) = {} /\ bought \cap Shared(R2) = {}
        /\ bought \cap Shared(R3) = {}
        /\ Shared(S1) \cap Shared(S2) = {} /\ Shared(S1) \cap Shared(S3) = {}
        /\ Shared(S2) \cap Shared(S3) = {}
        /\ Shared(R1) \cap Shared(R2) = {} /\ Shared(R1) \cap Shared(R3) = {}
        /\ Shared(R2) \cap Shared(R3) = {}
    BY <1>1 DEF Tidy
  <1>6. /\ sold \cap Shared(R1) = {} /\ sold \cap Shared(R2) = {} /\ sold \cap Shared(R3) = {}
        /\ bought \cap Shared(S1) = {} /\ bought \cap Shared(S2) = {}
        /\ bought \cap Shared(S3) = {}
        /\ Shared(S1) \cap Shared(R1) = {} /\ Shared(S1) \cap Shared(R2) = {}
        /\ Shared(S1) \cap Shared(R3) = {} /\ Shared(S2) \cap Shared(R1) = {}
        /\ Shared(S2) \cap Shared(R2) = {} /\ Shared(S2) \cap Shared(R3) = {}
        /\ Shared(S3) \cap Shared(R1) = {} /\ Shared(S3) \cap Shared(R2) = {}
        /\ Shared(S3) \cap Shared(R3) = {}
    BY <1>1 DEF Stock
  <1>7. /\ NoRepeats(C) /\ sold \cap Shared(C) = {} /\ bought \cap Shared(C) = {}
        /\ Shared(C) \cap Shared(S1) = {} /\ Shared(C) \cap Shared(S2) = {}
        /\ Shared(C) \cap Shared(S3) = {} /\ Shared(C) \cap Shared(R1) = {}
        /\ Shared(C) \cap Shared(R2) = {} /\ Shared(C) \cap Shared(R3) = {}
    <2>1. CASE C = CS
      BY <1>1, <2>1 DEF Tidy, Stock
    <2>2. CASE C = CR
      BY <1>1, <2>2 DEF Tidy, Stock
    <2>3. CASE C = <<>>
      BY <1>2, <2>3
    <2> QED
      BY <1>3, <2>1, <2>2, <2>3
  <1>8. ASSUME NEW j \in 1 .. 7
        PROVE  /\ NoRepeats(Kept(p)[j])
               /\ \A role \in Roles : Returned(p, role) \cap Shared(Kept(p)[j]) = {}
    <2>1. NoRepeats(Kept(p)[j])
      BY <1>4, <1>5, <1>7
    <2>2. sold \cap Shared(Kept(p)[j]) = {} /\ bought \cap Shared(Kept(p)[j]) = {}
      BY <1>4, <1>5, <1>6, <1>7
    <2> QED
      BY <2>1, <2>2 DEF Roles, sold, bought
  <1>9. ASSUME NEW j \in 1 .. 7, NEW k \in 1 .. 7, j # k
        PROVE  Shared(Kept(p)[j]) \cap Shared(Kept(p)[k]) = {}
    <2> DEFINE E == [i \in 1 .. 7 |-> Shared(Kept(p)[i])]
    <2>1. /\ E[1] = Shared(C) /\ E[2] = Shared(S1) /\ E[3] = Shared(S2)
          /\ E[4] = Shared(S3) /\ E[5] = Shared(R1) /\ E[6] = Shared(R2)
          /\ E[7] = Shared(R3)
      BY <1>4
    <2> HIDE DEF E
    <2>2. \A h, i \in 1 .. 7 : h < i => E[h] \cap E[i] = {}
      BY <1>5, <1>6, <1>7, <2>1
    <2>3. E[j] \cap E[k] = {}
      BY <1>9, <2>2
    <2> QED
      BY <2>3 DEF E
  <1> QED
    BY <1>8, <1>9

\* What an end holds: first what it has returned, then what it keeps.
LEMMA HoldingsByPosition ==
  ASSUME Inv, NEW p \in Parties
  PROVE  /\ Len(results[p]) \in Nat
         /\ DOMAIN Holdings(p) = 1 .. Len(results[p]) + 7
         /\ \A a \in 1 .. Len(results[p]) : Holdings(p)[a] = results[p][a].elements
         /\ \A a \in Len(results[p]) + 1 .. Len(results[p]) + 7 :
              Holdings(p)[a] = Kept(p)[a - Len(results[p])]
  <1> DEFINE n == Len(results[p])
             R == [k \in 1 .. n |-> results[p][k].elements]
  <1>1. n \in Nat /\ DOMAIN results[p] = 1 .. n
    BY EndTypes, LenProperties
  <1>2. R \in Seq(Vector) /\ Len(R) = n
    BY <1>1, EndTypes
  <1>3. Kept(p) \in Seq(Vector) /\ Len(Kept(p)) = 7
    BY EndTypes DEF Kept
  <1>4. Holdings(p) = R \o Kept(p)
    BY <1>1 DEF Holdings, Kept
  <1> HIDE DEF n
  <1>5. \A a \in 1 .. n : R[a] = results[p][a].elements
    OBVIOUS
  <1> HIDE DEF R
  <1>6. /\ Len(R \o Kept(p)) = n + 7
        /\ \A i \in 1 .. n + 7 :
             (R \o Kept(p))[i] = IF i <= n THEN R[i] ELSE Kept(p)[i - n]
    <2>1. /\ Len(R \o Kept(p)) = Len(R) + Len(Kept(p))
          /\ \A i \in 1 .. Len(R) + Len(Kept(p)) :
               (R \o Kept(p))[i] = IF i <= Len(R) THEN R[i] ELSE Kept(p)[i - Len(R)]
      BY <1>2, <1>3, ConcatProperties
    <2> QED
      BY <1>2, <1>3, <2>1
  <1>7. DOMAIN (R \o Kept(p)) = 1 .. n + 7
    BY <1>2, <1>3, <1>6, ConcatProperties, LenProperties
  <1>8. \A a \in 1 .. n : Holdings(p)[a] = results[p][a].elements
    BY <1>1, <1>4, <1>5, <1>6
  <1>9. \A a \in n + 1 .. n + 7 : Holdings(p)[a] = Kept(p)[a - n]
    BY <1>1, <1>4, <1>6
  <1> QED
    BY <1>1, <1>4, <1>7, <1>8, <1>9 DEF n

\* The parts of the invariant leave no element in two places.
LEMMA ReuseNoReuse == Inv /\ ReuseInv => NoReuse
  <1> SUFFICES ASSUME Inv, ReuseInv, NEW p \in Parties, NEW a \in DOMAIN Holdings(p)
               PROVE  /\ NoRepeats(Holdings(p)[a])
                      /\ \A b \in DOMAIN Holdings(p) \ {a} :
                           Shared(Holdings(p)[a]) \cap Shared(Holdings(p)[b]) = {}
    BY DEF NoReuse
  <1> DEFINE n == Len(results[p])
             H == Holdings(p)
  <1>1. /\ n \in Nat /\ DOMAIN H = 1 .. n + 7
        /\ \A i \in 1 .. n : H[i] = results[p][i].elements
        /\ \A i \in n + 1 .. n + 7 : i - n \in 1 .. 7 /\ H[i] = Kept(p)[i - n]
        /\ DOMAIN results[p] = 1 .. n
    <2>1. \A k \in Nat : \A i \in k + 1 .. k + 7 : i - k \in 1 .. 7
      OBVIOUS
    <2>2. DOMAIN results[p] = 1 .. n
      BY EndTypes
    <2> QED
      BY <2>1, <2>2, HoldingsByPosition
  <1>2. \A i \in 1 .. n : Shared(H[i]) \subseteq Returned(p, results[p][i].role)
                            /\ results[p][i].role \in Roles
    BY <1>1, EndTypes DEF Returned
  <1>3. ResultsApart(p)
    BY DEF ReuseInv, Holds
  <1> HIDE DEF n, H
  <1>4. \A i \in 1 .. n + 7 : NoRepeats(H[i])
    <2>1. \A i \in 1 .. n : NoRepeats(H[i])
      BY <1>1, <1>3 DEF ResultsApart
    <2>2. \A i \in n + 1 .. n + 7 : NoRepeats(H[i])
      BY <1>1, KeptApart
    <2>3. \A i \in 1 .. n + 7 : i \in 1 .. n \/ i \in n + 1 .. n + 7
      BY <1>1
    <2> QED
      BY <2>1, <2>2, <2>3
  <1>5. ASSUME NEW i \in 1 .. n, NEW j \in 1 .. n \ {i}
        PROVE  Shared(H[i]) \cap Shared(H[j]) = {}
    BY <1>1, <1>3 DEF ResultsApart
  <1>6. ASSUME NEW i \in 1 .. n, NEW j \in n + 1 .. n + 7
        PROVE  Shared(H[i]) \cap Shared(H[j]) = {}
    <2>1. j - n \in 1 .. 7 /\ H[j] = Kept(p)[j - n]
      BY <1>1
    <2>2. Returned(p, results[p][i].role) \cap Shared(Kept(p)[j - n]) = {}
      BY <1>2, <2>1, KeptApart
    <2> QED
      BY <1>2, <2>1, <2>2
  <1>7. ASSUME NEW i \in n + 1 .. n + 7, NEW j \in n + 1 .. n + 7, i # j
        PROVE  Shared(H[i]) \cap Shared(H[j]) = {}
    <2>1. PICK k, l : k = i - n /\ l = j - n
      OBVIOUS
    <2>2. k \in 1 .. 7 /\ l \in 1 .. 7 \ {k} /\ H[i] = Kept(p)[k] /\ H[j] = Kept(p)[l]
      BY <1>1, <1>7, <2>1
    <2>3. Shared(Kept(p)[k]) \cap Shared(Kept(p)[l]) = {}
      BY <2>2, KeptApart
    <2> QED
      BY <2>2, <2>3
  <1>8. ASSUME NEW i \in 1 .. n + 7, NEW j \in 1 .. n + 7, i # j
        PROVE  Shared(H[i]) \cap Shared(H[j]) = {}
    <2>1. (i \in 1 .. n \/ i \in n + 1 .. n + 7) /\ (j \in 1 .. n \/ j \in n + 1 .. n + 7)
      BY <1>1
    <2>2. CASE i \in 1 .. n /\ j \in 1 .. n
      BY <1>5, <1>8, <2>2
    <2>3. CASE i \in 1 .. n /\ j \in n + 1 .. n + 7
      BY <1>6, <2>3
    <2>4. CASE i \in n + 1 .. n + 7 /\ j \in 1 .. n
      BY <1>6, <2>4
    <2>5. CASE i \in n + 1 .. n + 7 /\ j \in n + 1 .. n + 7
      BY <1>7, <1>8, <2>5
    <2> QED
      BY <2>1, <2>2, <2>3, <2>4, <2>5
  <1> QED
    BY <1>1, <1>4, <1>8 DEF H

\* What has been spent is in no result.
LEMMA ReuseSeeds == ReuseInv => SeedsNotReturned
  <1> SUFFICES ASSUME ReuseInv, NEW p \in Parties, NEW k \in DOMAIN results[p],
                      results[p][k].role = "sender",
                      NEW e \in ToSet(results[p][k].elements), e \in spent[p]
               PROVE  FALSE
    BY DEF SeedsNotReturned
  <1>1. e[2] # 0 /\ e \notin Returned(p, "sender")
    BY DEF ReuseInv, Holds, Spent
  <1> QED
    BY <1>1 DEF Returned, Shared

\* The application takes an element once, and none that is still cached or kept
\* back as a seed (Get*Cached and Run*, distributed_vector_ole.h).
THEOREM NothingReused == Spec => []NoReuse
  BY Invariance, ReuseInvariance, ReuseNoReuse, PTL

\* The seeds of an expansion are never returned.
THEOREM SeedsKept == Spec => []SeedsNotReturned
  BY ReuseInvariance, ReuseSeeds, PTL

-----------------------------------------------------------------------------
(* Seeds mask the values of one expansion.                                 *)

\* Only ExpandSender leads from "expand" to "sums".
LEMMA StepSpends ==
  ASSUME Inv, [Next]_vars, NEW p \in Parties, pc[p] = "expand", pc'[p] = "sums"
  PROVE  ExpandSender(p)
  <1>1. pc \in [Parties -> Working \cup {"idle", "failed"}]
    BY StateFunctions DEF Counters
  <1>2. ASSUME NEW q \in Parties, NEW c \in Call, Invoke(q, c) PROVE FALSE
    BY <1>1, <1>2 DEF Invoke, Goto
  <1>3. ASSUME NEW q \in Parties, Retry(q) PROVE FALSE
    BY <1>1, <1>3 DEF Retry, Goto
  <1>4. ASSUME NEW q \in Parties, Step(q) PROVE ExpandSender(p)
    <2>1. p = q
      BY <1>1, <1>4
      DEF Step, RejectBatchSize, PrecomputeSender, PrecomputeReceiver, GilboaSender,
          GilboaReceiver, Bootstrap, ChooseBatchSize, SendSeed, ReceiveSeed,
          FillGenerator, GeneratorReady, AfterExpand,
          ExpandWrongDimensions, ExpandSenderFails, ExpandSender, ExpandReceiver,
          ExpandReceiverFails, ExpandReceiverDone, ExpandSenderDone, UsePrecomputed,
          FetchCached, FetchOutOfRange, CopyWholeCache, CopyRemaining,
          ReturnError, Return, Goto
    <2> QED
      BY <1>1, <1>4, <2>1
      DEF Step, RejectBatchSize, PrecomputeSender, PrecomputeReceiver, GilboaSender,
          GilboaReceiver, Bootstrap, ChooseBatchSize, SendSeed, ReceiveSeed,
          ExpandWrongDimensions, ExpandSenderFails, ExpandReceiver,
          ExpandReceiverFails, ExpandReceiverDone, ExpandSenderDone, UsePrecomputed,
          FetchCached, FetchOutOfRange, CopyWholeCache, CopyRemaining,
          ReturnError, Return, Goto
  <1>5. pc' # pc
    OBVIOUS
  <1> QED
    BY <1>2, <1>3, <1>4, <1>5 DEF Next, vars

\* It has seeds that were not spent before.
LEMMA StepSeeds ==
  Inv /\ ReuseInv /\ [Next]_vars =>
    [\A p \in Parties : pc[p] = "expand" /\ pc'[p] = "sums" =>
       (ToSet(snd[p].vole_seed) \cup ToSet(snd[p].mpfss_seed)) \cap spent[p] = {}]_vars
  <1> SUFFICES ASSUME Inv, ReuseInv, [Next]_vars, NEW p \in Parties,
                      pc[p] = "expand", pc'[p] = "sums"
               PROVE  (ToSet(snd[p].vole_seed) \cup ToSet(snd[p].mpfss_seed))
                        \cap spent[p] = {}
    OBVIOUS
  <1>1. ExpandSender(p)
    BY StepSpends
  <1>2. Spent(p)
    BY DEF ReuseInv, Holds
  <1>3. /\ ToSet(snd[p].vole_seed) = Shared(snd[p].vole_seed)
        /\ ToSet(snd[p].mpfss_seed) = Shared(snd[p].mpfss_seed)
    BY <1>2, EndTypes, SharedAll DEF Spent
  <1>4. /\ spent[p] \cap Shared(snd[p].vole_seed) = {}
        /\ spent[p] \cap Shared(snd[p].mpfss_seed) = {}
    BY <1>1, <1>2 DEF ExpandSender, Spent
  <1> QED
    BY <1>3, <1>4

\* Whenever the Sender starts to send an expansion, nothing of either seed has
\* been used by an earlier one: neither of the seeds, nor both, nor a part of one
\* is used again, whatever calls have failed and been repeated.
THEOREM SpentOnce == Spec => SeedsSpentOnce
  BY Invariance, ReuseInvariance, StepSeeds, PTL DEF Spec, SeedsSpentOnce

=============================================================================
