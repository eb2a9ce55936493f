--------------------------- MODULE EntryLifecycle ---------------------------
(***************************************************************************)
(* One config entry and its token: set-up, polling, the event stream, and     *)
(* what each does when SPR rejects the token (__init__.py, coordinator.py,   *)
(* api.py), until a reauthentication or changed options reload the entry     *)
(* (config_flow.py). What an update does with its answer is in Coordinator,  *)
(* and what the stream carries in EventStream.                              *)
(*                                                                          *)
(* From Home Assistant: a coordinator runs one update at a time and schedules *)
(* the next when one ends, except after ConfigEntryAuthFailed, which starts a *)
(* reauthentication unless one is pending; raised by the first refresh it    *)
(* leaves the entry failed, while UpdateFailed has the set-up tried again.   *)
(***************************************************************************)
CONSTANTS Token, None

ASSUME NoneAssumption == None \notin Token

VARIABLES
  accepted, \* the token that the router accepts at present, or None
  stored,   \* the token in the entry's data
  held,     \* the token of the coordinator's client
  entry,    \* state of the config entry
  timer,    \* whether a poll is scheduled
  update,   \* _async_update_data
  success,  \* last_update_success
  listener, \* _event_loop: not started, connecting, reading, asleep, returned
  reauth,   \* whether a reauthentication is pending
  reload,   \* whether the entry is about to be reloaded
  relented  \* history: the router has accepted again a token it had rejected

router == <<accepted, relented>>
vars == <<router, stored, held, entry, timer, update, success, listener, reauth, reload>>

TypeOK ==
  /\ accepted \in Token \union {None} /\ stored \in Token /\ held \in Token
  /\ entry \in {"new", "setup", "retry", "failed", "loaded"}
  /\ {timer, success, reauth, reload, relented} \subseteq BOOLEAN
  /\ update \in {"idle", "awaiting"}
  /\ listener \in {"none", "connecting", "reading", "asleep", "returned"}

Init ==
  /\ accepted \in Token /\ stored = accepted /\ held = accepted
  /\ entry = "new" /\ timer = FALSE /\ update = "idle" /\ success = FALSE
  /\ listener = "none" /\ reauth = FALSE /\ reload = FALSE
  /\ relented = FALSE

-----------------------------------------------------------------------------
(* SPR and the user *)

\* A token is revoked, replaced or restored, or SPR rejects all of them for a while.
Rotate(t) ==
  /\ accepted' = t
  /\ relented' = (relented \/ (t = held /\ t # accepted))
  /\ UNCHANGED <<stored, held, entry, timer, update, success, listener, reauth,
                 reload>>

\* Faulty variants of ReauthDone: the entry is not reloaded, and its client goes on
\* with the token it has; what is typed is stored as it is.
ReauthDoneUnloaded ==
  /\ reauth /\ accepted # None
  /\ stored' = accepted /\ reauth' = FALSE
  /\ UNCHANGED <<router, held, entry, timer, update, success, listener, reload>>
ReauthDoneUntried ==
  /\ reauth
  /\ stored' = accepted /\ reauth' = FALSE /\ reload' = TRUE
  /\ UNCHANGED <<router, held, entry, timer, update, success, listener>>
\* The user supplies a token that is accepted: stored, and the entry is reloaded.
ReauthDone ==
  /\ reauth /\ accepted # None
  /\ stored' = accepted /\ reauth' = FALSE /\ reload' = TRUE
  /\ UNCHANGED <<router, held, entry, timer, update, success, listener>>

\* The options flow, or a URL typed in the user step.
Reconfigure ==
  /\ reload' = TRUE
  /\ UNCHANGED <<router, stored, held, entry, timer, update, success, listener,
                 reauth>>

\* async_unload_entry, if the entry is loaded; the set-up follows.
Reload ==
  /\ reload
  /\ entry # "setup"
  /\ entry' = "new" /\ timer' = FALSE /\ update' = "idle" /\ success' = FALSE
  /\ listener' = "none"
  /\ reload' = FALSE
  /\ UNCHANGED <<router, stored, held, reauth>>

\* Home Assistant starts anew; flows are gone, entries are not.
Restart ==
  /\ entry' = "new" /\ timer' = FALSE /\ update' = "idle" /\ success' = FALSE
  /\ listener' = "none"
  /\ reload' = FALSE /\ reauth' = FALSE
  /\ UNCHANGED <<router, stored, held>>

-----------------------------------------------------------------------------
(* async_setup_entry *)

\* A client with the stored token, and the first refresh.
BeginSetUp ==
  /\ entry \in {"new", "retry"}
  /\ entry' = "setup" /\ held' = stored
  /\ UNCHANGED <<router, stored, timer, update, success, listener, reauth, reload>>

\* It is answered; the platforms' entities make the coordinator poll.
SetUpDone ==
  /\ entry = "setup" /\ held = accepted
  /\ entry' = "loaded" /\ timer' = TRUE /\ success' = TRUE
  /\ listener' = "connecting"
  /\ UNCHANGED <<router, stored, held, update, reauth, reload>>

SetUpRejected ==
  /\ entry = "setup" /\ held # accepted
  /\ entry' = "failed" /\ reauth' = TRUE
  /\ UNCHANGED <<router, stored, held, timer, update, success, listener, reload>>

SetUpFails ==
  /\ entry = "setup"
  /\ entry' = "retry"
  /\ UNCHANGED <<router, stored, held, timer, update, success, listener, reauth,
                 reload>>

-----------------------------------------------------------------------------
(* _async_update_data *)

\* The timer, or an event, which takes the place of the timer.
BeginUpdate ==
  /\ entry = "loaded" /\ update = "idle"
  /\ timer \/ listener = "reading"
  /\ update' = "awaiting" /\ timer' = FALSE
  /\ UNCHANGED <<router, stored, held, entry, success, listener, reauth, reload>>

UpdateDone ==
  /\ update = "awaiting" /\ held = accepted
  /\ update' = "idle" /\ timer' = TRUE /\ success' = TRUE
  /\ UNCHANGED <<router, stored, held, entry, listener, reauth, reload>>

\* Faulty variant of UpdateRejected: the polling ends, as push does, without a word.
UpdateRejectedSilently ==
  /\ update = "awaiting" /\ held # accepted
  /\ update' = "idle" /\ success' = FALSE
  /\ UNCHANGED <<router, stored, held, entry, timer, listener, reauth, reload>>
\* 401 or 403: ConfigEntryAuthFailed.
UpdateRejected ==
  /\ update = "awaiting" /\ held # accepted
  /\ update' = "idle" /\ success' = FALSE /\ reauth' = TRUE
  /\ UNCHANGED <<router, stored, held, entry, timer, listener, reload>>

\* Any other error, or none within 15 seconds.
UpdateFails ==
  /\ update = "awaiting"
  /\ update' = "idle" /\ timer' = TRUE /\ success' = FALSE
  /\ UNCHANGED <<router, stored, held, entry, listener, reauth, reload>>

-----------------------------------------------------------------------------
(* _event_loop *)

Listen(from, to) ==
  /\ listener = from
  /\ listener' = to
  /\ UNCHANGED <<router, stored, held, entry, timer, update, success, reauth, reload>>

Connect == held = accepted /\ Listen("connecting", "reading")
\* SprAuthError: the loop returns.
Refused == held # accepted /\ Listen("connecting", "returned")
\* Faulty variant of ConnectFails: any error ends the loop.
ConnectFailsForGood == Listen("connecting", "returned")
ConnectFails == Listen("connecting", "asleep")
StreamEnds == Listen("reading", "asleep")
Retry == Listen("asleep", "connecting")

-----------------------------------------------------------------------------

SetUp == BeginSetUp \/ SetUpDone \/ SetUpRejected \/ SetUpFails
Update == BeginUpdate \/ UpdateDone \/ UpdateRejected \/ UpdateFails
Push == Connect \/ Refused \/ ConnectFails \/ StreamEnds \/ Retry
Outside == \/ \E t \in Token \union {None} : Rotate(t)
           \/ ReauthDone \/ Reconfigure \/ Restart

Next == SetUp \/ Update \/ Push \/ Reload \/ Outside

Spec == Init /\ [][Next]_vars

\* Home Assistant sets up, polls and reloads when it is time to, and every request
\* ends; nothing is assumed of the router, the network or the user.
Fairness ==
  /\ WF_vars(BeginSetUp) /\ WF_vars(SetUpDone) /\ WF_vars(SetUpRejected)
  /\ WF_vars(BeginUpdate) /\ WF_vars(UpdateDone) /\ WF_vars(UpdateRejected)
  /\ WF_vars(Connect) /\ WF_vars(Refused) /\ WF_vars(Retry)
  /\ WF_vars(Reload)

FairSpec == Spec /\ Fairness

-----------------------------------------------------------------------------
(* Properties *)

\* An entry that has stopped asking the router, because its polling is not scheduled
\* any more or its set-up has failed, has asked the user for a token: a coordinator
\* that has gone quiet is never left alone with nobody told (ConfigEntryAuthFailed).
NeverSilent ==
  \/ reload \/ reauth
  \/ entry \in {"new", "setup", "retry"}
  \/ entry = "loaded" /\ (timer \/ update = "awaiting")

\* The token is left alone, requests get through, and nobody reconfigures or restarts.
\* (A restart just when a reload is due is allowed, since it may look like one.)
Calm == /\ UNCHANGED accepted
        /\ ~SetUpFails /\ ~UpdateFails /\ ~ConnectFails /\ ~StreamEnds
        /\ ~Reconfigure /\ ~(Restart /\ ~reload)

Settles ==
  /\ <>[][Calm]_vars
  /\ <>[](accepted # None)
  /\ reauth ~> ~reauth

\* Once the router is reachable and settles for a token, and the user answers the
\* reauthentications, the entry is loaded and polls with that token for good: no
\* order of rotations, reloads and answers leaves it stuck.
PollingRecovers == Settles => <>[](entry = "loaded" /\ held = accepted)

\* Under the same conditions push works again too (coordinator.py: the push channel
\* "turns plugin events into immediate refreshes"), provided no token is accepted again
\* after it was rejected: one rejection ends _event_loop, and it takes a poll that meets
\* it as well to have the entry, and with it the loop, started anew.
PushRecoversToo == Settles /\ []~relented => <>[](listener = "reading")
=============================================================================
