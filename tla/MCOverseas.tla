----------------------------- MODULE MCOverseas -----------------------------
(***************************************************************************)
(* Two parts of a running overseas entry: the sessions of its client       *)
(* (SessionRenewal) and the polling of its commands (CommandJournal).      *)
(* Each abstracts the other, so in a behaviour one runs and the other      *)
(* stands still.                                                           *)
(*                                                                         *)
(* The client of an ANZ or Russian account, under fair locks: a poll and a *)
(* command through two rotations.  The journal: one command over three     *)
(* setups.                                                                 *)
(***************************************************************************)
EXTENDS SessionRenewal

CONSTANTS poll, write, \* SessionRenewal
          x1, t1, k1, NoRecord, NoAuth, NoPlan \* CommandJournal

VARIABLES part, \* the one that runs
          committed, durable, call, home, cancelled, outcome, late,
          memory, follower, target, serving, setup, awaited

OnePoll == {poll}
NoOps == {}
OneWrite == {write}
AnyKind == {"auth", "api"}

J == INSTANCE CommandJournal
     WITH Contexts <- {x1}, Tokens <- {t1}, JournalIds <- {k1}, Vehicles <- {},
          Plans <- {}, Account <- x1, Token <- t1, MaxCommands <- 1, MaxRuntimes <- 3,
          mode <- serving, runtime <- setup

journal == <<committed, durable, call, home, cancelled, outcome, late,
             memory, follower, target, serving, setup, awaited>>

MCInit == part \in {"client", "journal"} /\ Init /\ J!Init

MCNext ==
    /\ UNCHANGED part
    /\ \/ part = "client" /\ Next /\ UNCHANGED journal
       \/ part = "journal" /\ J!Next /\ UNCHANGED vars
       \/ part = "journal" /\ UNCHANGED <<vars, journal>> \* setups may be used up

(* The fairness of the two specifications.  As only one of them runs, one   *)
(* condition may speak of a wait of either: TLC's work doubles with each.  *)
OfEither(A, B) == (A /\ UNCHANGED journal) \/ (B /\ UNCHANGED vars)

Fair ==
    /\ \A o \in Ops : WF_vars(Step(o)) /\ SF_vars(SendRefresh(o))
    /\ \A o \in Polls : WF_vars(part = "client" /\ Begin(o))
    /\ WF_journal(J!Close) /\ WF_journal(J!TimePasses(k1))
    /\ \A g \in 1..3 : WF_journal(J!Poll(g, k1))
    /\ SF_<<vars, journal>>(OfEither(TakeGate(poll), J!GiveUp(1, k1)))
    /\ SF_<<vars, journal>>(OfEither(TakeGate(write), J!GiveUp(2, k1)))
    /\ SF_<<vars, journal>>(OfEither(Send(poll), J!GiveUp(3, k1)))
    /\ SF_vars(Send(write))

MCSpec == MCInit /\ [][MCNext]_<<part, vars, journal>> /\ Fair

(* Every polling task ends, and so does every unload.                      *)
FollowersEnd == J!FollowersEnd
=============================================================================
