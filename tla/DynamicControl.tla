---------------------------- MODULE DynamicControl ----------------------------
(***************************************************************************)
(* Dynamic control, the part of kunpeng-qos-controller that tightens the     *)
(* limits of a node's offline pods: after EnsurePolicy, one loop publishes   *)
(* the node's online pods to a local agent and another pulls the             *)
(* interference the agent sees and lowers the limits of the node's dynamic   *)
(* QoSPolicy.  Users may edit or delete that policy at any time.             *)
(*                                                                         *)
(* External: the agent (what it reports and what it was last told), the API  *)
(* server (optimistic concurrency and the CRD's rule on levels) and the      *)
(* client's cache.                                                           *)
(***************************************************************************)
EXTENDS Integers

CONSTANTS
  Pod,                            \* the pods of the cluster
  IsOnline, OnNode,               \* pods labelled online; pods of this node
  MBStep, L3WaysStep, L3MaxStep,  \* the updater's tuning steps
  Reports,                        \* the sets of reason codes the agent reports
  UserSpecs,                      \* the specifications users write
  Nil,
  MaxEdits,                       \* bound: edits and deletions by users
  MaxChanges                      \* bound: pods starting or stopping, new
                                  \* reports, restarts of the agent

Limit == 0..100
Reason == {"cpu", "mb", "l3"}

\* The fields dynamic control reads or writes, and those with a default that its
\* writes send along; "own" is the selector that pins the policy to this node,
\* "other" one that lacks the host name, "none" no selector.  ways is 0 where a
\* user leaves it out.
Spec == [selector : {"own", "other", "none"}, hdl : 0..1, pri : 0..7, mb : Limit,
         ways : Nat, l3max : Limit, level : -1..1]

ASSUME DynamicAssumption ==
  /\ IsOnline \subseteq Pod /\ OnNode \subseteq Pod
  /\ {MBStep, L3WaysStep, L3MaxStep} \subseteq Nat \ {0}
  /\ UserSpecs \subseteq Spec
  /\ Reports \subseteq SUBSET Nat
  /\ MaxEdits \in Nat /\ MaxChanges \in Nat
  /\ Nil \notin [version : Nat, spec : Spec]

VARIABLES
  object,     \* the dynamic policy at the API server: version and spec, or Nil
  versions,   \* the last resource version handed out
  cache,      \* the client's cached copy
  started,    \* EnsurePolicyOnce succeeded and the loops run
  pulled,     \* apply loop: the reasons it works on, or Nil between ticks
  copy,       \* apply loop: the policy as it was read, or Nil
  running,    \* the running pods
  told,       \* the pods the agent was last told of
  report,     \* the codes the agent reports now
  edits, changes

applyVars == <<pulled, copy>>
agentVars == <<running, told, report>>
dynamicVars == <<object, versions, cache, started, pulled, copy, running, told,
                 report, edits, changes>>

(***************************************************************************)
(* Reasons and limits                                                       *)
(***************************************************************************)
\* interferenceReasonCodeMappings; 0 means none, other codes are ignored.
ReasonOf == [c \in 1..6 |-> CASE c = 3 -> "l3" [] c = 4 -> "mb" [] OTHER -> "cpu"]

\* mapInterferenceReasonCodes and normalizeInterferenceReasons: a set, in a
\* fixed order that applyReasonsToSpec does not depend on.
Reasons(codes) == {ReasonOf[c] : c \in codes \cap DOMAIN ReasonOf}

Lower(v, step) == IF v - step < 1 THEN 1 ELSE v - step

\* A slip for the mutants: cache interference leaves the share of L3 alone.
WithReasonsNoShare(s, reasons) ==
  [s EXCEPT
     !.mb    = IF "mb" \in reasons THEN Lower(@, MBStep) ELSE @,
     !.ways  = IF "l3" \in reasons THEN Lower(@, L3WaysStep) ELSE @,
     !.level = IF "cpu" \in reasons THEN -1 ELSE @]

\* applyReasonsToSpec
WithReasons(s, reasons) ==
  [s EXCEPT
     !.mb    = IF "mb" \in reasons THEN Lower(@, MBStep) ELSE @,
     !.ways  = IF "l3" \in reasons THEN Lower(@, L3WaysStep) ELSE @,
     !.l3max = IF "l3" \in reasons THEN Lower(@, L3MaxStep) ELSE @,
     !.level = IF "cpu" \in reasons THEN -1 ELSE @]

DefaultSpec ==
  [selector |-> "own", hdl |-> 1, pri |-> 3, mb |-> 100, ways |-> 4, l3max |-> 100,
   level |-> 0]

\* The specification an existing policy gets; ways below 1 are raised first.
ApplyReasons(s, reasons) ==
  WithReasons([s EXCEPT !.selector = "own", !.ways = IF @ < 1 THEN 1 ELSE @],
              reasons)

\* The selector is set in the map both copies share, so the comparison that
\* skips an unneeded update never sees it, unless there was no map.
Unchanged(s, reasons) ==
  /\ s.selector # "none"
  /\ ApplyReasons(s, reasons) = [s EXCEPT !.selector = "own"]

\* The CRD's rule: the level only leaves 0.
Admitted(old, new) == old.level \in {0, new.level}

Store(s) ==
  /\ object' = [version |-> versions + 1, spec |-> s]
  /\ versions' = versions + 1

\* What the API server makes of a specification the typed client sends: a field
\* that is 0 is left out ("omitempty"), and the CRD's default takes its place.
OrDefault(v, default) == IF v = 0 THEN default ELSE v

Serialized(s) ==
  [s EXCEPT !.hdl = OrDefault(@, 1), !.pri = OrDefault(@, 3), !.mb = OrDefault(@, 100),
            !.l3max = OrDefault(@, 100)]

\* Users write what they mean, zeros included.
Send(s) == Store(Serialized(s))

(***************************************************************************)
(* The environment                                                          *)
(***************************************************************************)
DynamicInit ==
  /\ object \in {Nil} \cup {[version |-> 1, spec |-> s] : s \in UserSpecs}
  /\ versions = 1
  /\ cache = object
  /\ started = FALSE
  /\ pulled = Nil /\ copy = Nil
  /\ running = {} /\ told = {}
  /\ report = {}
  /\ edits = 0 /\ changes = 0

UserEdits ==
  /\ edits < MaxEdits /\ edits' = edits + 1
  /\ \/ \E s \in UserSpecs :
          /\ object # Nil => Admitted(object.spec, s)
          /\ Store(s)
     \/ object # Nil /\ object' = Nil /\ UNCHANGED versions
  /\ UNCHANGED <<cache, started, applyVars, agentVars, changes>>

CacheCatchesUp ==
  /\ cache # object
  /\ cache' = object
  /\ UNCHANGED <<object, versions, started, applyVars, agentVars, edits, changes>>

Changes ==
  /\ changes < MaxChanges /\ changes' = changes + 1
  /\ UNCHANGED <<object, versions, cache, started, applyVars, edits>>

PodChanges ==
  /\ \E p \in Pod : running' = (running \ {p}) \cup ({p} \ running)
  /\ Changes /\ UNCHANGED <<told, report>>

NewReport ==
  /\ report' \in Reports \ {report}
  /\ Changes /\ UNCHANGED <<running, told>>

AgentRestarts ==
  /\ told' = {}
  /\ Changes /\ UNCHANGED <<running, report>>

(***************************************************************************)
(* SyncScheduler.Start and its loops                                        *)
(***************************************************************************)
\* EnsurePolicyOnce: a policy found is left alone, else the defaults are
\* created; "already exists" is an error and the manager starts again.
EnsurePolicy ==
  /\ ~started
  /\ \/ /\ cache # Nil \/ object = Nil
        /\ started' = TRUE
     \/ /\ cache = Nil /\ object # Nil
        /\ UNCHANGED started
  /\ IF cache = Nil /\ object = Nil
       THEN Send(DefaultSpec) ELSE UNCHANGED <<object, versions>>
  /\ UNCHANGED <<cache, applyVars, agentVars, edits, changes>>

\* LocalOnlinePodSource: labelled online, on this node, running.
OnlinePods == IsOnline \cap OnNode \cap running

\* A slip for the mutants: publish only to an agent that knows nothing.
PublishIfUnknown ==
  /\ started /\ told = {}
  /\ told' = OnlinePods
  /\ UNCHANGED <<object, versions, cache, started, applyVars, running, report,
                 edits, changes>>

\* PublishOnlinePodsOnce; a call that fails is a tick without effect.
PublishOnlinePods ==
  /\ started
  /\ told' = OnlinePods
  /\ UNCHANGED <<object, versions, cache, started, applyVars, running, report,
                 edits, changes>>

\* GetInterference; without a reason to act on, the tick ends here.
GetInterference ==
  /\ started
  /\ pulled = Nil
  /\ Reasons(report) # {}
  /\ pulled' = Reasons(report)
  /\ copy' = cache
  /\ UNCHANGED <<object, versions, cache, started, agentVars, edits, changes>>

TickEnds ==
  /\ pulled' = Nil
  /\ copy' = Nil
  /\ UNCHANGED <<cache, started, agentVars, edits, changes>>

\* ApplyReasons, the policy not found: create it from the defaults.
CreateWithReasons ==
  /\ pulled # Nil /\ copy = Nil
  /\ IF object = Nil THEN Send(WithReasons(DefaultSpec, pulled))
     ELSE UNCHANGED <<object, versions>>
  /\ TickEnds

NoUpdateNeeded ==
  /\ pulled # Nil /\ copy # Nil
  /\ Unchanged(copy.spec, pulled)
  /\ UNCHANGED <<object, versions>>
  /\ TickEnds

\* A slip for the mutants: the update does not say which version it is of.
UpdateAcceptedAlways(reasons, old) ==
  object # Nil /\ Admitted(object.spec, ApplyReasons(old.spec, reasons))

\* The API server takes an update of the version that was read, and only when
\* the CRD's rule admits it.
UpdateAccepted(reasons, old) ==
  /\ object # Nil
  /\ object.version = old.version
  /\ Admitted(object.spec, ApplyReasons(old.spec, reasons))

UpdatePolicy ==
  /\ pulled # Nil /\ copy # Nil
  /\ ~Unchanged(copy.spec, pulled)
  /\ UpdateAccepted(pulled, copy)
  /\ Send(ApplyReasons(copy.spec, pulled))
  /\ TickEnds

UpdateRefused ==
  /\ pulled # Nil /\ copy # Nil
  /\ ~Unchanged(copy.spec, pulled)
  /\ ~UpdateAccepted(pulled, copy)
  /\ UNCHANGED <<object, versions>>
  /\ TickEnds

\* runWithTimeout: the task's context ends, the request was not sent.
TaskTimesOut ==
  /\ pulled # Nil
  /\ UNCHANGED <<object, versions>>
  /\ TickEnds

ApplyStep == CreateWithReasons \/ UpdatePolicy
TaskEnds == ApplyStep \/ NoUpdateNeeded \/ UpdateRefused \/ TaskTimesOut

DynamicNext ==
  \/ UserEdits \/ CacheCatchesUp
  \/ PodChanges \/ NewReport \/ AgentRestarts
  \/ EnsurePolicy \/ PublishOnlinePods \/ GetInterference \/ TaskEnds

\* The loops tick for ever, every task ends (its context has a timeout), the
\* cache follows the API server, and a task that keeps being tried is not cut
\* off by its timeout every time.
DynamicFairness ==
  /\ WF_dynamicVars(CacheCatchesUp)
  /\ WF_dynamicVars(EnsurePolicy)
  /\ WF_dynamicVars(PublishOnlinePods)
  /\ WF_dynamicVars(GetInterference)
  /\ WF_dynamicVars(TaskEnds)
  /\ SF_dynamicVars(ApplyStep)

DynamicSpec == DynamicInit /\ [][DynamicNext]_dynamicVars /\ DynamicFairness

(***************************************************************************)
(* Properties                                                               *)
(***************************************************************************)
Object == [version : Nat, spec : Spec]

DynamicTypeOK ==
  /\ object \in Object \cup {Nil} /\ cache \in Object \cup {Nil}
  /\ versions \in Nat
  /\ started \in BOOLEAN
  /\ pulled \in (SUBSET Reason) \cup {Nil}
  /\ copy \in Object \cup {Nil}
  /\ running \subseteq Pod /\ told \subseteq OnNode
  /\ report \subseteq Nat
  /\ edits \in 0..MaxEdits /\ changes \in 0..MaxChanges

\* Whatever copy the loop worked from, its write keeps what a user wrote in the
\* meantime: it repairs the selector, lowers limits from the values in force at
\* that moment and touches nothing for which no reason was pulled, but for one
\* thing: hdl, pri, mb.max and l3.max that a user set to 0 come back as 1, 3 and
\* 100, whatever the reason of the write.
NoEditLost ==
  [][ (edits' = edits /\ object # Nil /\ object' # object)
      => /\ object' # Nil
         /\ object'.spec = Serialized(ApplyReasons(object.spec, pulled)) ]_dynamicVars

\* A policy with level 1 cannot be taken to -1: the CRD refuses the update, and
\* with it the limits of the other reasons.
Blocked == object # Nil /\ object.spec.level = 1 /\ "cpu" \in Reasons(report)

\* While the agent keeps reporting bandwidth or cache interference the limits
\* reach their floor, through conflicts, timeouts, deletions and outdated
\* copies, unless the update is one the CRD refuses as a whole.
ThrottlesToFloor ==
  <>[]( /\ ("mb" \in Reasons(report) /\ ~Blocked)
            => object # Nil /\ object.spec.mb = 1
        /\ ("l3" \in Reasons(report) /\ ~Blocked)
            => object # Nil /\ object.spec.ways = 1 /\ object.spec.l3max = 1 )

\* The agent ends up knowing exactly the node's running online pods, also when
\* it restarts and forgets them.
AgentLearnsPods == <>[](told = OnlinePods)
==============================================================================
