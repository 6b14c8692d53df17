----------------------------- MODULE Experiments -----------------------------
(***************************************************************************)
(* Two processes that run src/experiments/experiments.cpp, and the         *)
(* handshakes of the objects that they create: each Create of the library  *)
(* is a sequence of steps, in the order in which the constructors call     *)
(* each other.  A protocol that runs is one joint step; what it does is in *)
(* the other modules.  mpc_utils (connecting, synchronising and the        *)
(* adapter for emp) is not in the repository.                              *)
(***************************************************************************)
EXTENDS Integers, SequencesExt

CONSTANTS
  sizes,        \* the vector sizes, in order
  thread_nums,  \* the numbers of threads, in order
  num_runs      \* of each of the three experiments that main calls

ASSUME ExperimentAssumption ==
  /\ sizes \in Seq(Nat) /\ thread_nums \in Seq(Nat \ {0})
  /\ num_runs \in [1 .. 3 -> Nat]

VARIABLES
  stage,     \* of each process, whether it is in a channel with its peer
  group,     \* which of the experiments of main it is in
  position,  \* which call of RunExperiment
  step,      \* which step of that call
  context,   \* the modulus (its bits) of each of its threads, or 0
  statuses,  \* what the experiments of main have returned
  printed,   \* how many results have been printed
  wire       \* seeds on the way to the higher ID

vars == <<stage, group, position, step, context, statuses, printed, wire>>
Ends == {0, 1}  \* party IDs
Peer(e) == 1 - e

-----------------------------------------------------------------------------
(* Creating objects.                                                       *)

GilboaCreate == <<"sync", "adapter">>
AllButOneCreate == <<"sync", "adapter">>
SPFSSCreate == AllButOneCreate
MPFSSCreate == <<"sync">> \o SPFSSCreate \o <<"seed">>
OLECreate == <<"restore">> \o GilboaCreate \o MPFSSCreate

RunVOLE == OLECreate \o <<"sync", "run">>
RunGilboa == GilboaCreate \o <<"sync", "run">>

-----------------------------------------------------------------------------
(* The calls of RunExperiment, in the order of the loops.                  *)

Repeat(n, calls) == FlattenSeq([i \in 1 .. n |-> calls])

Call(protocol_name, size, bits, modulus, threads, measured) ==
  [protocol_name |-> protocol_name, size |-> size, bit_width |-> bits,
   modulus |-> modulus, num_threads |-> threads, measured |-> measured]

\* For each size and protocol two primes, for which NTL is initialised anew, and
\* two integer types.
VoleVsGilboa(measured, runs) ==
  LET variants(name, size) ==
        << Call(name, size, 60, 60, 1, measured), Call(name, size, 32, 32, 1, measured),
           Call(name, size, 64, 0, 1, measured), Call(name, size, 32, 0, 1, measured) >>
  IN  Repeat(runs, FlattenSeq([i \in DOMAIN sizes |->
        variants("VOLE", sizes[i]) \o variants("Gilboa", sizes[i])]))

VoleParallelism(runs) ==
  Repeat(runs, FlattenSeq([i \in DOMAIN thread_nums |->
    << Call("VOLE", 20, 60, 60, thread_nums[i], FALSE),
       Call("VOLE", 20, 64, 0, thread_nums[i], FALSE) >>]))

\* main evaluates all three before it looks at the first status.
Groups == << VoleVsGilboa(TRUE, num_runs[1]), VoleVsGilboa(FALSE, num_runs[2]),
             VoleParallelism(num_runs[3]) >>

Current(e) == Groups[group[e]][position[e]]
Steps(e) == IF Current(e).protocol_name = "VOLE" THEN RunVOLE ELSE RunGilboa
At(e, what) == stage[e] \in {"connected", "orphaned"} /\ Steps(e)[step[e]] = what

Threads == 1 .. Max({1} \cup ToSet(thread_nums))

Init ==
  /\ stage = [e \in Ends |-> "start"]
  /\ group = [e \in Ends |-> 1] /\ position = [e \in Ends |-> 1]
  /\ step = [e \in Ends |-> 1]
  /\ context = [e \in Ends |-> [t \in Threads |-> 0]]
  /\ statuses = [e \in Ends |-> <<>>]
  /\ printed = [e \in Ends |-> 0]
  /\ wire = 0

-----------------------------------------------------------------------------
\* NTL::zz_p::init before the call: in VoleVsGilboaExperiment each time, in
\* VoleParallelismExperiment once, before the loops.
InitModulus(e) == group[e] < 3 \/ position[e] = 1

StartCall(e) ==
  /\ stage[e] = "start" /\ group[e] <= Len(Groups) /\ position[e] <= Len(Groups[group[e]])
  /\ stage' = [stage EXCEPT ![e] = "connecting"]
  /\ context' = IF Current(e).modulus # 0 /\ InitModulus(e)
                  THEN [context EXCEPT ![e][1] = Current(e).modulus] ELSE context
  /\ UNCHANGED <<group, position, step, statuses, printed, wire>>

\* connect_to, at both ends.
Connect ==
  /\ \A e \in Ends : stage[e] = "connecting"
  /\ stage' = [e \in Ends |-> "connected"]
  /\ step' = [e \in Ends |-> 1]
  /\ wire' = 0
  /\ UNCHANGED <<group, position, context, statuses, printed>>

Advance(S) == step' = [e \in Ends |-> IF e \in S THEN step[e] + 1 ELSE step[e]]

Both(what) == \A e \in Ends : stage[e] = "connected" /\ At(e, what)

Sync ==
  /\ Both("sync") /\ Advance(Ends)
  /\ UNCHANGED <<stage, group, position, context, statuses, printed, wire>>

\* "Initialize OMP threads with current NTL modulus": the team has as many threads
\* as omp_set_num_threads was last called with.
MutMainThreadOnly(e) == {1}  \* mutant: context.restore() outside a parallel region
Team(e) == 1 .. Current(e).num_threads

Restore(e) ==
  /\ At(e, "restore") /\ Advance({e})
  /\ context' = IF Current(e).modulus # 0
                  THEN [context EXCEPT ![e] = [t \in Threads |->
                          IF t \in Team(e) THEN context[e][1] ELSE context[e][t]]]
                  ELSE context
  /\ UNCHANGED <<stage, group, position, statuses, printed, wire>>

\* RETURN_IF_ERROR: the channel is destroyed, the experiment of main returns the
\* error, and main calls the next one.  S are the ends that fail.
Fail(S) ==
  /\ S # {}
  /\ stage' = [e \in Ends |-> CASE e \in S -> "start"
                                [] e \notin S /\ stage[e] = "connected" -> "orphaned"
                                [] OTHER -> stage[e]]
  /\ group' = [e \in Ends |-> IF e \in S THEN group[e] + 1 ELSE group[e]]
  /\ position' = [e \in Ends |-> IF e \in S THEN 1 ELSE position[e]]
  /\ statuses' = [e \in Ends |-> IF e \in S THEN Append(statuses[e], "error")
                                 ELSE statuses[e]]
  /\ UNCHANGED <<step, context, printed, wire>>

\* CommChannelEMPAdapter::Create: a new connection of its own unless the channel is
\* measured.  Either end may fail.
Adapter ==
  /\ Both("adapter") /\ ~Current(0).measured
  /\ \/ /\ Advance(Ends)
        /\ UNCHANGED <<stage, group, position, context, statuses, printed, wire>>
     \/ \E S \in SUBSET Ends : Fail(S)

LocalAdapter(e) ==
  /\ At(e, "adapter") /\ Current(e).measured
  /\ \/ /\ Advance({e})
        /\ UNCHANGED <<stage, group, position, context, statuses, printed, wire>>
     \/ Fail({e})

\* The seed of CuckooHasher: "lower ID sends seed to higher ID".
MutSelf(e) == FALSE  \* mutant: get_id() is compared with itself
MutBothSend(e) == TRUE  \* mutant: the condition is left out
SendsSeed(e) == e < Peer(e)

SendSeed(e) ==
  /\ At(e, "seed") /\ SendsSeed(e)
  /\ Advance({e}) /\ wire' = wire + 1
  /\ UNCHANGED <<stage, group, position, context, statuses, printed>>

ReceiveSeed(e) ==
  /\ At(e, "seed") /\ ~SendsSeed(e) /\ wire > 0
  /\ Advance({e}) /\ wire' = wire - 1
  /\ UNCHANGED <<stage, group, position, context, statuses, printed>>

\* The protocol.  When it fails at one end, the other one is left in it.
Run ==
  /\ Both("run")
  /\ \/ /\ stage' = [e \in Ends |-> "start"]
        /\ position' = [e \in Ends |-> position[e] + 1]
        /\ printed' = [e \in Ends |-> printed[e] + 1]
        /\ UNCHANGED <<group, step, context, statuses, wire>>
     \/ \E S \in SUBSET Ends : Fail(S)

\* An end whose peer has left the channel may wait for ever, or get an exception
\* from the socket that nothing catches.
LosePeer(e) ==
  /\ stage[e] = "orphaned"
  /\ stage' = [stage EXCEPT ![e] = "crashed"]
  /\ UNCHANGED <<group, position, step, context, statuses, printed, wire>>

GroupDone(e) ==
  /\ stage[e] = "start" /\ group[e] <= Len(Groups) /\ position[e] > Len(Groups[group[e]])
  /\ group' = [group EXCEPT ![e] = @ + 1]
  /\ position' = [position EXCEPT ![e] = 1]
  /\ statuses' = [statuses EXCEPT ![e] = Append(@, "ok")]
  /\ UNCHANGED <<stage, step, context, printed, wire>>

MutLastStatus(e) == Last(statuses[e]) = "error"  \* mutant: only the last one counts
AnyError(e) == Contains(statuses[e], "error")

Exit(e) ==
  /\ stage[e] = "start" /\ group[e] > Len(Groups)
  /\ stage' = [stage EXCEPT ![e] = IF AnyError(e) THEN "exited 1" ELSE "exited 0"]
  /\ UNCHANGED <<group, position, step, context, statuses, printed, wire>>

Step(e) ==
  \/ StartCall(e) \/ Restore(e) \/ LocalAdapter(e) \/ SendSeed(e) \/ ReceiveSeed(e)
  \/ GroupDone(e) \/ Exit(e)

Next ==
  \/ Connect \/ Sync \/ Adapter \/ Run
  \/ \E e \in Ends : Step(e) \/ LosePeer(e)

\* A process goes on while it can, and two that are ready for the same joint step
\* take it.  Nothing makes a socket report that the peer is gone.
Spec ==
  /\ Init /\ [][Next]_vars
  /\ WF_vars(Connect) /\ WF_vars(Sync) /\ WF_vars(Adapter) /\ WF_vars(Run)
  /\ \A e \in Ends : WF_vars(Step(e))

-----------------------------------------------------------------------------
Total == Len(Groups[1]) + Len(Groups[2]) + Len(Groups[3])

TypeOK ==
  /\ stage \in [Ends -> {"start", "connecting", "connected", "orphaned", "crashed",
                         "exited 0", "exited 1"}]
  /\ \A e \in Ends :
       /\ group[e] = Len(statuses[e]) + 1
       /\ stage[e] \in {"connected", "orphaned"} =>
            position[e] \in DOMAIN Groups[group[e]] /\ step[e] \in DOMAIN Steps(e)
       /\ context[e] \in [Threads -> {0, 32, 60}]
  /\ wire \in 0 .. 1

\* Whenever a protocol runs over a prime field, all threads that it uses have the
\* modulus that the printed bit width says, whatever has run or failed before.
ThreadsInContext ==
  \A e \in Ends : At(e, "run") /\ Current(e).modulus # 0 =>
    \A t \in 1 .. (IF Current(e).protocol_name = "VOLE" THEN Current(e).num_threads ELSE 1) :
      context[e][t] = Current(e).bit_width

\* The exit code tells whether all results have been printed, although main goes
\* on after an error.
ExitTells ==
  \A e \in Ends : /\ stage[e] = "exited 0" => printed[e] = Total
                  /\ stage[e] = "exited 1" => printed[e] < Total

\* Both processes end, unless one has been left alone in a channel.
Progress ==
  <>(\/ \A e \in Ends : stage[e] \in {"exited 0", "exited 1"}
     \/ \E e \in Ends : stage[e] = "orphaned")

=============================================================================
