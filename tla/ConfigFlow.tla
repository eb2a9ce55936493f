----------------------------- MODULE ConfigFlow -----------------------------
(***************************************************************************)
(* SprConfigFlow (config_flow.py) and the requests it makes (api.py): the    *)
(* steps by which a router is added by hand, offered after an mDNS broadcast, *)
(* or given a new token. Several flows are in progress at once; each waits   *)
(* for the user and for the router, and the others go on meanwhile.         *)
(*                                                                          *)
(* Which router answers at a URL, and which tokens it accepts, may change    *)
(* between any two requests, so both are chosen anew at each answer. URLs are *)
(* as _normalize_url leaves them. The plugin always has an id               *)
(* (RouterIdentity), so the branch for an empty one is left out.            *)
(*                                                                          *)
(* From Home Assistant: async_set_unique_id aborts a flow when another one,  *)
(* reauthentications aside, has the id; one that was closed while a step ran  *)
(* creates nothing; an entry that is created replaces one with its id and    *)
(* aborts the other flows with it; a removed entry takes its reauthentication *)
(* along; flows do not survive a restart.                                   *)
(***************************************************************************)
CONSTANTS
  Router,  \* routers, by the id their plugin announces
  Url, Token,
  Flow,    \* config flows, reused when they have ended
  None

ASSUME NoneAssumption == None \notin Router \union Url \union Token

VARIABLES
  entries,  \* data of the config entries, by unique id
  flow      \* flow[f]: how far f is; it has ended, or has not begun, when it is Off

vars == <<entries, flow>>

Entry == [url : Url, token : Token]

\* uid is the flow's unique id; url and token what it tries, id who answered it.
FlowState ==
  [step : {"off", "fetching", "form", "probing", "stating"},
   source : {"user", "closed", "zeroconf", "reauth"},
   uid : Router \union {None}, url : Url \union {None},
   token : Token \union {None}, id : Router \union {None}]

Off == [step |-> "off", source |-> "user", uid |-> None, url |-> None,
        token |-> None, id |-> None]

TypeOK ==
  /\ entries \in UNION {[R -> Entry] : R \in SUBSET Router}
  /\ flow \in [Flow -> FlowState]

Init == entries = [r \in {} |-> Off] /\ flow = [f \in Flow |-> Off]

Configured(r) == r \in DOMAIN entries

\* Faulty variant of Busy: flows are not kept from having the same id.
NeverBusy(f, r) == FALSE
\* async_set_unique_id(r) finds another flow of f's kind in progress with the id.
Busy(f, r) ==
  \E g \in Flow \ {f} : flow[g].uid = r /\ flow[g].source # "reauth"

-----------------------------------------------------------------------------
(* A flow begins. *)

StartUser(f) ==
  /\ flow[f] = Off
  /\ flow' = [flow EXCEPT ![f] = [Off EXCEPT !.step = "form"]]
  /\ UNCHANGED entries

\* A broadcast: read the identify document, without a token (fetch_discovery).
StartZeroconf(f, u) ==
  /\ flow[f] = Off
  /\ flow' = [flow EXCEPT ![f] = [Off EXCEPT !.step = "fetching",
                                             !.source = "zeroconf", !.url = u]]
  /\ UNCHANGED entries

\* The coordinator met a rejected token; one such flow per entry.
StartReauth(f, r) ==
  /\ flow[f] = Off
  /\ Configured(r)
  /\ \A g \in Flow : ~(flow[g].source = "reauth" /\ flow[g].uid = r)
  /\ flow' = [flow EXCEPT ![f] = [Off EXCEPT !.step = "form",
                                             !.source = "reauth", !.uid = r]]
  /\ UNCHANGED entries

Offered(f, r) == [flow EXCEPT ![f] = [Off EXCEPT !.step = "form",
                                                 !.source = "zeroconf", !.uid = r]]

\* Faulty variant of DiscoveryAnswers: a configured router's entry is brought up to
\* date with the broadcast.
DiscoveryAnswersUpdating(f, r) ==
  /\ flow[f].step = "fetching"
  /\ IF Configured(r) /\ ~Busy(f, r)
       THEN entries' = [entries EXCEPT ![r].url = flow[f].url]
       ELSE UNCHANGED entries
  /\ flow' = IF Busy(f, r) \/ Configured(r) THEN [flow EXCEPT ![f] = Off]
                                            ELSE Offered(f, r)
\* The identify document says that r is there. The URL becomes the default of the
\* form; a configured router is left alone.
DiscoveryAnswers(f, r) ==
  /\ flow[f].step = "fetching"
  /\ flow' = IF Busy(f, r) \/ Configured(r) THEN [flow EXCEPT ![f] = Off]
                                            ELSE Offered(f, r)
  /\ UNCHANGED entries

\* No answer, not an SPR router, or no id: cannot_connect.
DiscoveryFails(f) ==
  /\ flow[f].step = "fetching"
  /\ flow' = [flow EXCEPT ![f] = Off]
  /\ UNCHANGED entries

-----------------------------------------------------------------------------
(* The form, and _async_validate *)

\* A reauthentication asks for the token only, and tries it at the entry's URL.
Submit(f, u, t) ==
  /\ flow[f].step = "form"
  /\ flow[f].source = "reauth" => u = entries[flow[f].uid].url
  /\ flow' = [flow EXCEPT ![f].step = "probing", ![f].url = u, ![f].token = t]
  /\ UNCHANGED entries

\* The user closes the dialog; a step that is running goes on.
Close(f) ==
  /\ flow[f].source = "user" /\ flow[f].step # "off"
  /\ flow' = [flow EXCEPT ![f] =
                IF flow[f].step = "form" THEN Off ELSE [@ EXCEPT !.source = "closed"]]
  /\ UNCHANGED entries

\* GET /probe is answered by r, which accepts the token.
ProbeAnswers(f, r) ==
  /\ flow[f].step = "probing"
  /\ flow' = [flow EXCEPT ![f].step = "stating", ![f].id = r]
  /\ UNCHANGED entries

\* Either request is rejected or fails: the form again, with the error. An answer
\* that breaks off while its body is read is not an SprApiError, and ends the step
\* with an exception instead; the form stays too.
ValidationFails(f) ==
  /\ flow[f].step \in {"probing", "stating"}
  /\ flow' = [flow EXCEPT ![f] =
                IF flow[f].source = "closed" THEN Off
                ELSE [@ EXCEPT !.step = "form", !.url = None, !.token = None,
                               !.id = None]]
  /\ UNCHANGED entries

-----------------------------------------------------------------------------
(* GET /state is answered too: the step comes to its end. *)

Submitted(f) == [url |-> flow[f].url, token |-> flow[f].token]

\* async_create_entry for the id r.
Create(f, r) ==
  /\ entries' = [s \in DOMAIN entries \union {r} |->
                    IF s = r THEN Submitted(f) ELSE entries[s]]
  /\ flow' = [g \in Flow |-> IF g = f \/ flow[g].uid = r THEN Off ELSE flow[g]]

\* Faulty variants of UserDone: adding a configured router again replaces it; the
\* entry is made before the router has answered.
UserDoneAnyway(f) ==
  /\ flow[f].step = "stating" /\ flow[f].source = "user"
  /\ Create(f, flow[f].id)
UserDoneUnasked(f) ==
  /\ flow[f].step = "probing" /\ flow[f].source = "user"
  /\ Create(f, flow[f].id)
\* A router that is configured already has moved: it keeps its token, whatever was
\* typed. This much also happens when the dialog was closed.
UserDone(f) ==
  LET r == flow[f].id IN
  /\ flow[f].step = "stating" /\ flow[f].source \in {"user", "closed"}
  /\ IF ~Busy(f, r) /\ ~Configured(r) /\ flow[f].source = "user"
       THEN Create(f, r)
       ELSE /\ IF Configured(r) /\ ~Busy(f, r)
                 THEN entries' = [entries EXCEPT ![r].url = flow[f].url]
                 ELSE UNCHANGED entries
            /\ flow' = [flow EXCEPT ![f] = Off]

\* The entry is for the router that was discovered, whoever answered the form's URL.
ConfirmDone(f) ==
  /\ flow[f].step = "stating" /\ flow[f].source = "zeroconf"
  /\ Create(f, flow[f].uid)

\* Here too nobody asks which router accepted the token.
ReauthDone(f) ==
  /\ flow[f].step = "stating" /\ flow[f].source = "reauth"
  /\ entries' = [entries EXCEPT ![flow[f].uid].token = flow[f].token]
  /\ flow' = [flow EXCEPT ![f] = Off]

-----------------------------------------------------------------------------
(* Home Assistant *)

RemoveEntry(r) ==
  /\ Configured(r)
  /\ entries' = [s \in DOMAIN entries \ {r} |-> entries[s]]
  /\ flow' = [f \in Flow |->
                IF flow[f].source = "reauth" /\ flow[f].uid = r THEN Off ELSE flow[f]]

Restart ==
  /\ flow' = [f \in Flow |-> Off]
  /\ UNCHANGED entries

Begin(f) ==
  \/ StartUser(f)
  \/ \E u \in Url : StartZeroconf(f, u)
  \/ \E r \in Router : StartReauth(f, r) \/ DiscoveryAnswers(f, r)
  \/ DiscoveryFails(f)

Validate(f) ==
  \/ \E u \in Url, t \in Token : Submit(f, u, t)
  \/ \E r \in Router : ProbeAnswers(f, r)
  \/ ValidationFails(f)
  \/ Close(f)

Finish(f) == UserDone(f) \/ ConfirmDone(f) \/ ReauthDone(f)

Next ==
  \/ \E f \in Flow : Begin(f) \/ Validate(f) \/ Finish(f)
  \/ \E r \in Router : RemoveEntry(r)
  \/ Restart

Spec == Init /\ [][Next]_vars

-----------------------------------------------------------------------------
(* Properties *)

\* No two flows in progress are for the same router (dedup on the router id,
\* config_flow.py): not two offers after two broadcasts, and no offer beside a
\* reauthentication.
FlowsUnique ==
  \A f, g \in Flow : f # g /\ flow[f].uid # None => flow[f].uid # flow[g].uid

\* However flows, removals and restarts interleave, no entry is ever overwritten by
\* another one, a repoint leaves the token, and a new token leaves the URL
\* (async_step_user, async_step_discovery_confirm, async_step_reauth_confirm).
Registry == INSTANCE EntryRegistry WITH registry <- entries
ImplementsRegistry == Registry!Spec

\* The URL of an entry changes only to one that a user typed in the user step and at
\* which this very router answered: never because of a broadcast, whatever the flows
\* in progress (README: "never rewrites a configured entry's URL from a broadcast").
DiscoveryNeverRepoints ==
  [][\A r \in DOMAIN entries \cap DOMAIN entries' :
       entries'[r].url # entries[r].url =>
         \E f \in Flow : /\ flow[f].source \in {"user", "closed"}
                         /\ flow[f].id = r
                         /\ flow[f].url = entries'[r].url]_vars

\* A router that is added by hand, and that accepts the token, ends up configured
\* (README: "Manual setup (URL + token) remains available and needs no discovery").
ManualSetupAvailable ==
  [][\A f \in Flow : UserDone(f) /\ flow[f].source = "user"
                       => flow[f].id \in DOMAIN entries']_vars
=============================================================================
