----------------------------- MODULE EventStream -----------------------------
(***************************************************************************)
(* The push channel from the plugin to Home Assistant: refreshState          *)
(* announces transitions to the hub, a handler per connection writes them to *)
(* a server-sent event stream, and the event loop of the coordinator reads    *)
(* the stream, asks for an update at each event, and connects again when the *)
(* stream ends (api.go, refresh.go, api.py, coordinator.py).                 *)
(*                                                                          *)
(* There is one Home Assistant. Connections are many: the handler of one     *)
(* that broke may live on, and stay subscribed, beside its successor. The    *)
(* transitions are numbered, and a message is the number of its transition:  *)
(* the listener looks at nothing else of it. The delays of the back-off and  *)
(* of the keepalive are left out; any read may time out.                     *)
(***************************************************************************)
EXTENDS Naturals, Sequences

CONSTANTS
  Conn,       \* connections that may exist at one time
  Capacity,   \* of a subscriber's channel, 16 in the code
  MaxVersion  \* bound on the transitions of one run of the plugin

ASSUME ConnAssumption == "none" \notin Conn /\ Conn # {}
ASSUME BoundsAssumption == Capacity \in Nat \ {0} /\ MaxVersion \in Nat

VARIABLES
  version,   \* transitions in gState.snapshot
  sent,      \* transitions broadcast
  subs,      \* gHub.subs: connections whose channel is subscribed
  buffer,    \* the channel of each connection
  pc,        \* where the handler of each connection is; "none": no handler
  held,      \* local of the handler: the message it took, 0 for none
  open,      \* connections whose two ends can still reach each other
  wire,      \* what was written to a connection and not yet read: a message or 0
  listener,  \* where _event_loop is
  current,   \* the connection it reads, or "none"
  looked,    \* history: transitions that were in the snapshot at the last event
  since      \* history: transitions broadcast when a channel was subscribed

pluginVars == <<version, sent>>
hubVars == <<subs, buffer, since>>
handlerVars == <<pc, held>>
netVars == <<open, wire>>
listenerVars == <<listener, current, looked>>
vars == <<pluginVars, hubVars, handlerVars, netVars, listenerVars>>

Message == 1..MaxVersion
Count == 0..MaxVersion

BuffersBounded == \A k \in Conn : Len(buffer[k]) <= Capacity

TypeOK ==
  /\ version \in Count /\ sent \in Count
  /\ subs \in SUBSET Conn
  /\ buffer \in [Conn -> Seq(Message)]
  /\ BuffersBounded
  /\ pc \in [Conn -> {"none", "entered", "select", "write", "flushed"}]
  /\ held \in [Conn -> Count]
  /\ open \in SUBSET Conn
  /\ wire \in [Conn -> Count]
  /\ listener \in {"off", "connect", "read", "sleep", "stopped"}
  /\ current \in Conn \union {"none"}
  /\ looked \in Count
  /\ since \in [Conn -> Count]

Nothing == [k \in Conn |-> 0]

Init ==
  /\ version = 0 /\ sent = 0
  /\ subs = {} /\ buffer = [k \in Conn |-> <<>>] /\ since = Nothing
  /\ pc = [k \in Conn |-> "none"] /\ held = Nothing
  /\ open = {} /\ wire = Nothing
  /\ listener = "off" /\ current = "none" /\ looked = 0

-----------------------------------------------------------------------------
(* refreshState and the hub *)

\* A refresh publishes a snapshot with new transitions, once it has broadcast all
\* those of the one before: refreshes run one at a time.
Publish ==
  /\ sent = version
  /\ version < MaxVersion
  /\ version' \in (version + 1)..MaxVersion
  /\ UNCHANGED <<sent, hubVars, handlerVars, netVars, listenerVars>>

\* Faulty variants of HasRoom: a channel without a buffer takes a message only
\* while the handler waits for it; a channel of one place too many.
HasRoomIfWaiting(k) == pc[k] = "select" /\ buffer[k] = <<>>
HasRoomForOneMore(k) == Len(buffer[k]) <= Capacity
\* Whether a send on the channel goes through at once.
HasRoom(k) == Len(buffer[k]) < Capacity

\* gHub.broadcast of one transition: a full channel misses it.
Broadcast ==
  /\ sent < version
  /\ sent' = sent + 1
  /\ buffer' = [k \in Conn |-> IF k \in subs /\ HasRoom(k)
                                 THEN Append(buffer[k], sent + 1) ELSE buffer[k]]
  /\ UNCHANGED <<version, subs, since, handlerVars, netVars, listenerVars>>

-----------------------------------------------------------------------------
(* handleEvents, one per connection *)

Subscribe(k) ==
  /\ pc[k] = "entered"
  /\ pc' = [pc EXCEPT ![k] = "select"]
  /\ subs' = subs \union {k}
  /\ buffer' = [buffer EXCEPT ![k] = <<>>]
  /\ since' = [since EXCEPT ![k] = sent]
  /\ UNCHANGED <<pluginVars, held, netVars, listenerVars>>

TakeMessage(k) ==
  /\ pc[k] = "select"
  /\ buffer[k] # <<>>
  /\ held' = [held EXCEPT ![k] = Head(buffer[k])]
  /\ buffer' = [buffer EXCEPT ![k] = Tail(@)]
  /\ pc' = [pc EXCEPT ![k] = "write"]
  /\ UNCHANGED <<pluginVars, subs, since, netVars, listenerVars>>

\* Faulty variant of WriteMessage: a write to a connection that broke blocks too.
WriteMessageOrHang(k) ==
  /\ pc[k] = "write"
  /\ wire[k] = 0
  /\ wire' = [wire EXCEPT ![k] = IF k \in open THEN held[k] ELSE @]
  /\ held' = [held EXCEPT ![k] = 0]
  /\ pc' = [pc EXCEPT ![k] = "flushed"]
  /\ UNCHANGED <<pluginVars, hubVars, open, listenerVars>>

\* The write blocks while the client does not read what was written before, and
\* its error is ignored.
WriteMessage(k) ==
  /\ pc[k] = "write"
  /\ k \in open => wire[k] = 0
  /\ wire' = [wire EXCEPT ![k] = IF k \in open THEN held[k] ELSE @]
  /\ held' = [held EXCEPT ![k] = 0]
  /\ pc' = [pc EXCEPT ![k] = "flushed"]
  /\ UNCHANGED <<pluginVars, hubVars, open, listenerVars>>

\* The client may have read the message before the handler is back at its select.
SelectAgain(k) ==
  /\ pc[k] = "flushed"
  /\ pc' = [pc EXCEPT ![k] = "select"]
  /\ UNCHANGED <<pluginVars, hubVars, held, netVars, listenerVars>>

\* Faulty variant of EndHandler: the channel stays subscribed.
EndHandlerOnly(k) ==
  /\ pc[k] = "select"
  /\ k \notin open
  /\ pc' = [pc EXCEPT ![k] = "none"]
  /\ UNCHANGED <<pluginVars, hubVars, held, netVars, listenerVars>>

\* The request's context is done; the deferred call unsubscribes.
EndHandler(k) ==
  /\ pc[k] = "select"
  /\ k \notin open
  /\ pc' = [pc EXCEPT ![k] = "none"]
  /\ subs' = subs \ {k}
  /\ buffer' = [buffer EXCEPT ![k] = <<>>]
  /\ since' = [since EXCEPT ![k] = 0]
  /\ UNCHANGED <<pluginVars, held, netVars, listenerVars>>

-----------------------------------------------------------------------------
(* The connections, and the plugin's process *)

Break(k) ==
  /\ k \in open
  /\ open' = open \ {k}
  /\ UNCHANGED <<pluginVars, hubVars, handlerVars, wire, listenerVars>>

PluginRestart ==
  /\ version' = 0 /\ sent' = 0 /\ looked' = 0
  /\ subs' = {} /\ buffer' = [k \in Conn |-> <<>>] /\ since' = Nothing
  /\ pc' = [k \in Conn |-> "none"] /\ held' = Nothing
  /\ open' = {}
  /\ wire' = Nothing
  /\ UNCHANGED <<listener, current>>

-----------------------------------------------------------------------------
(* listen_events and _event_loop *)

StartListener ==
  /\ listener = "off"
  /\ listener' = "connect"
  /\ UNCHANGED <<pluginVars, hubVars, handlerVars, netVars, current, looked>>

\* The request reaches the plugin, which starts a handler for it.
Connect ==
  /\ listener = "connect"
  /\ \E k \in Conn :
       /\ pc[k] = "none"
       /\ pc' = [pc EXCEPT ![k] = "entered"]
       /\ open' = open \union {k}
       /\ wire' = [wire EXCEPT ![k] = 0]
       /\ current' = k
  /\ listener' = "read"
  /\ UNCHANGED <<pluginVars, hubVars, held, looked>>

ConnectFails ==
  /\ listener = "connect"
  /\ listener' = "sleep"
  /\ UNCHANGED <<pluginVars, hubVars, handlerVars, netVars, current, looked>>

\* 401 or 403: the loop returns.
Rejected ==
  /\ listener = "connect"
  /\ listener' = "stopped"
  /\ UNCHANGED <<pluginVars, hubVars, handlerVars, netVars, current, looked>>

\* _handle_event asks for an update, which reads the snapshot after this instant.
ReadEvent ==
  /\ listener = "read"
  /\ wire[current] # 0
  /\ wire' = [wire EXCEPT ![current] = 0]
  /\ looked' = version
  /\ UNCHANGED <<pluginVars, hubVars, handlerVars, open, listener, current>>

\* The end of the stream, an error, or the 60 s read timeout of a connection that
\* says nothing any more, not even the keepalive.
StreamEnds ==
  /\ listener = "read"
  /\ current \notin open
  /\ listener' = "sleep"
  /\ current' = "none"
  /\ UNCHANGED <<pluginVars, hubVars, handlerVars, netVars, looked>>

\* The back-off is over.
Retry ==
  /\ listener = "sleep"
  /\ listener' = "connect"
  /\ UNCHANGED <<pluginVars, hubVars, handlerVars, netVars, current, looked>>

\* stop_event_listener cancels the task wherever it is, and with it the request.
StopListener ==
  /\ listener # "off"
  /\ listener' = "off"
  /\ current' = "none"
  /\ open' = open \ {current}
  /\ UNCHANGED <<pluginVars, hubVars, handlerVars, wire, looked>>

-----------------------------------------------------------------------------

Handler(k) ==
  Subscribe(k) \/ TakeMessage(k) \/ WriteMessage(k) \/ SelectAgain(k)
  \/ EndHandler(k)
Listener ==
  \/ StartListener \/ Connect \/ ConnectFails \/ Rejected
  \/ ReadEvent \/ StreamEnds \/ Retry \/ StopListener

Next ==
  \/ Publish \/ Broadcast \/ PluginRestart
  \/ \E k \in Conn : Handler(k) \/ Break(k)
  \/ Listener

Spec == Init /\ [][Next]_vars

\* The plugin's goroutines run. The select of a handler chooses at random among
\* what is ready, so the end of its request is taken sooner or later.
PluginFairness ==
  /\ WF_vars(Broadcast)
  /\ \A k \in Conn :
       /\ WF_vars(Subscribe(k)) /\ WF_vars(WriteMessage(k))
       /\ WF_vars(SelectAgain(k)) /\ WF_vars(TakeMessage(k))
       /\ SF_vars(EndHandler(k))

\* And so does Home Assistant's event loop. Nothing is assumed of the network.
ListenerFairness ==
  /\ WF_vars(StartListener) /\ WF_vars(Connect) /\ WF_vars(ReadEvent)
  /\ WF_vars(StreamEnds) /\ WF_vars(Retry)

FairSpec == Spec /\ PluginFairness /\ ListenerFairness

-----------------------------------------------------------------------------
(* Properties *)

OnItsWay(k) == buffer[k] # <<>> \/ held[k] # 0 \/ wire[k] # 0

\* Dropping an event for a slow consumer (broadcast) does no harm: while the
\* stream is up, if something was announced since its channel was subscribed and
\* Home Assistant's last look at the state may be older than that, there is an
\* event on its way that will make it look again. It takes the buffer, the order
\* of store and broadcast in refreshState, and a fresh look at each event.
LooksAgain ==
  \A k \in subs \cap open :
    k = current /\ since[k] < sent /\ looked < sent => OnItsWay(k)

\* Nobody stays subscribed for ever after the connection is gone.
SubscribersEnd == \A k \in Conn : k \notin open ~> k \notin subs \/ k \in open

\* A connection or process that fails, and a client that goes away.
Disturbance ==
  \/ PluginRestart \/ ConnectFails \/ StopListener
  \/ \E k \in Conn : Break(k)

Listening == listener = "read" /\ current \in subs \cap open

\* Once connections stop failing, Home Assistant comes to listen again, and to have
\* looked at all that is announced from then on, unless its token was rejected.
PushRecovers ==
  <>[][~Disturbance]_vars
    => <>[](\/ listener = "stopped"
            \/ Listening /\ (looked >= sent \/ since[current] = sent))
=============================================================================
