------------------------- MODULE EventStream_proofs -------------------------
(***************************************************************************)
(* Proofs about EventStream: type correctness, that dropping an event for a  *)
(* slow consumer does no harm (LooksAgain), that events arrive in order, that *)
(* handlers end (SubscribersEnd) and that push comes back (PushRecovers), for *)
(* any connections, any capacity but zero, and any number of transitions.    *)
(***************************************************************************)
EXTENDS EventStream, SequenceTheorems, TLAPS

USE ConnAssumption, BoundsAssumption

\* Taking the first message of a channel.
LEMMA TakeFirst ==
  ASSUME NEW s \in Seq(Message), s # <<>>
  PROVE  /\ Head(s) \in Message
         /\ Tail(s) \in Seq(Message)
         /\ Len(Tail(s)) = Len(s) - 1
         /\ Len(s) \in Nat \ {0}
<1>1. Head(s) \in Message BY HeadTailProperties
<1>2. Tail(s) \in Seq(Message) /\ Len(Tail(s)) = Len(s) - 1 BY HeadTailProperties
<1>3. Len(s) \in Nat /\ Len(s) # 0 BY LenProperties, EmptySeq
<1> QED BY <1>1, <1>2, <1>3

\* No channel holds more than its capacity: at first, and while none gets a message.
LEMMA NoneHeld ==
  ASSUME NEW k \in Conn PROVE Len(<<>>) <= Capacity /\ <<>> \in Seq(Message)
OBVIOUS

LEMMA BoundAtFirst == buffer = [k \in Conn |-> <<>>] => BuffersBounded
BY NoneHeld DEF BuffersBounded

LEMMA BoundKept ==
  ASSUME BuffersBounded, NEW k \in Conn,
         \/ buffer' = buffer
         \/ DOMAIN buffer = Conn /\ buffer' = [buffer EXCEPT ![k] = <<>>]
  PROVE  BuffersBounded'
<1> SUFFICES ASSUME NEW j \in Conn PROVE Len(buffer'[j]) <= Capacity
  BY DEF BuffersBounded
<1>1. Len(buffer[j]) <= Capacity BY DEF BuffersBounded
<1>2. buffer'[j] = buffer[j] \/ buffer'[j] = <<>> OBVIOUS
<1> QED BY <1>1, <1>2, NoneHeld

LEMMA TypeInit == Init => TypeOK
<1> SUFFICES ASSUME Init PROVE TypeOK OBVIOUS
<1>1. BuffersBounded BY BoundAtFirst DEF Init
<1> QED BY <1>1 DEF Init, TypeOK, Nothing, Count

\* The plugin's side keeps the types.
LEMMA TypePublish == TypeOK /\ (Publish \/ PluginRestart) => TypeOK'
<1> USE DEF hubVars, handlerVars, netVars, listenerVars
<1>1. ASSUME TypeOK, Publish PROVE TypeOK'
  <2>1. version' \in Count BY <1>1 DEF Publish, TypeOK, Count
  <2>2. BuffersBounded' BY <1>1 DEF TypeOK, Publish, BuffersBounded
  <2> QED BY <1>1, <2>1, <2>2 DEF Publish, TypeOK
<1>2. ASSUME TypeOK, PluginRestart PROVE TypeOK'
  <2>1. BuffersBounded' BY <1>2, NoneHeld DEF PluginRestart, BuffersBounded
  <2> QED BY <1>2, <2>1 DEF PluginRestart, TypeOK, Nothing, Count
<1> QED BY <1>1, <1>2

LEMMA TypeBroadcast == TypeOK /\ Broadcast => TypeOK'
<1> SUFFICES ASSUME TypeOK, Broadcast PROVE TypeOK'
  OBVIOUS
<1>1. sent + 1 \in Message /\ sent' \in Count
  BY DEF TypeOK, Broadcast, Message, Count
<1>2. \A k \in Conn : /\ Append(buffer[k], sent + 1) \in Seq(Message)
                      /\ Len(Append(buffer[k], sent + 1)) = Len(buffer[k]) + 1
                      /\ Len(buffer[k]) \in Nat
  <2> TAKE k \in Conn
  <2>1. buffer[k] \in Seq(Message) BY DEF TypeOK
  <2> QED BY <1>1, <2>1, AppendProperties, LenProperties
<1>3. buffer' \in [Conn -> Seq(Message)]
  BY <1>2 DEF TypeOK, Broadcast
<1>4. BuffersBounded'
  <2> SUFFICES ASSUME NEW k \in Conn PROVE Len(buffer'[k]) <= Capacity
    BY DEF BuffersBounded
  <2>1. CASE k \in subs /\ HasRoom(k)
    <3>1. buffer'[k] = Append(buffer[k], sent + 1) BY <2>1 DEF Broadcast
    <3> QED BY <1>2, <2>1, <3>1 DEF HasRoom
  <2>2. CASE ~(k \in subs /\ HasRoom(k))
    <3>1. buffer'[k] = buffer[k] BY <2>2 DEF Broadcast
    <3> QED BY <3>1 DEF TypeOK, BuffersBounded
  <2> QED BY <2>1, <2>2
<1> QED
  BY <1>1, <1>3, <1>4 DEF TypeOK, Broadcast, handlerVars, netVars, listenerVars

LEMMA TypeHandler ==
  ASSUME TypeOK, NEW k \in Conn, Handler(k) \/ Break(k)
  PROVE  TypeOK'
<1> USE DEF pluginVars, hubVars, handlerVars, netVars, listenerVars
<1>1. 0 \in Count /\ <<>> \in Seq(Message) BY NoneHeld DEF Count
<1>2. CASE Subscribe(k)
  <2>1. BuffersBounded' BY <1>2, BoundKept DEF TypeOK, Subscribe
  <2> QED BY <1>1, <1>2, <2>1 DEF TypeOK, Subscribe
<1>3. CASE TakeMessage(k)
  <2>1. buffer[k] \in Seq(Message) /\ buffer[k] # <<>> BY <1>3 DEF TypeOK, TakeMessage
  <2>2. /\ Head(buffer[k]) \in Count /\ Tail(buffer[k]) \in Seq(Message)
        /\ Len(Tail(buffer[k])) <= Len(buffer[k])
    <3>1. Len(buffer[k]) \in Nat BY <2>1, LenProperties
    <3>2. Message \subseteq Count BY DEF Message, Count
    <3> QED BY <2>1, <3>1, <3>2, TakeFirst
  <2>3. BuffersBounded'
    <3> SUFFICES ASSUME NEW j \in Conn PROVE Len(buffer'[j]) <= Capacity
      BY DEF BuffersBounded
    <3>1. Len(buffer[j]) <= Capacity /\ Len(buffer[j]) \in Nat
      <4>1. buffer[j] \in Seq(Message) BY DEF TypeOK
      <4> QED BY <4>1, LenProperties DEF TypeOK, BuffersBounded
    <3>2. CASE j = k
      <4>1. buffer'[k] = Tail(buffer[k]) BY <1>3 DEF TypeOK, TakeMessage
      <4>2. Len(Tail(buffer[k])) \in Nat BY <2>2, LenProperties
      <4> QED BY <2>2, <3>1, <3>2, <4>1, <4>2
    <3>3. CASE j # k
      <4>1. buffer'[j] = buffer[j] BY <1>3, <3>3 DEF TypeOK, TakeMessage
      <4> QED BY <3>1, <4>1
    <3> QED BY <3>2, <3>3
  <2> QED BY <1>3, <2>2, <2>3 DEF TypeOK, TakeMessage
<1>4. CASE WriteMessage(k)
  <2>1. BuffersBounded' BY <1>4, BoundKept DEF TypeOK, WriteMessage
  <2> QED BY <1>1, <1>4, <2>1 DEF TypeOK, WriteMessage
<1>5. CASE SelectAgain(k)
  <2>1. BuffersBounded' BY <1>5, BoundKept DEF TypeOK, SelectAgain
  <2> QED BY <1>5, <2>1 DEF TypeOK, SelectAgain
<1>6. CASE EndHandler(k)
  <2>1. BuffersBounded' BY <1>6, BoundKept DEF TypeOK, EndHandler
  <2> QED BY <1>1, <1>6, <2>1 DEF TypeOK, EndHandler
<1>7. CASE Break(k)
  <2>1. BuffersBounded' BY <1>7, BoundKept DEF TypeOK, Break
  <2> QED BY <1>7, <2>1 DEF TypeOK, Break
<1> QED BY <1>2, <1>3, <1>4, <1>5, <1>6, <1>7 DEF Handler

LEMMA TypeListener == TypeOK /\ Listener => TypeOK'
<1> SUFFICES ASSUME TypeOK, Listener PROVE TypeOK'
  OBVIOUS
<1> USE DEF pluginVars, hubVars, handlerVars, netVars, listenerVars
<1>1. CASE Connect
  <2>1. BuffersBounded' BY <1>1 DEF Connect, TypeOK, BuffersBounded
  <2>2. 0 \in Count BY DEF Count
  <2> QED BY <1>1, <2>1, <2>2 DEF Connect, TypeOK
<1>2. CASE ReadEvent
  <2>1. BuffersBounded' BY <1>2 DEF ReadEvent, TypeOK, BuffersBounded
  <2>2. 0 \in Count BY DEF Count
  <2> QED BY <1>2, <2>1, <2>2 DEF ReadEvent, TypeOK
<1>3. CASE StartListener \/ ConnectFails \/ Rejected \/ StreamEnds \/ Retry \/ StopListener
  <2> USE DEF StartListener, ConnectFails, Rejected, StreamEnds, Retry, StopListener
  <2>1. BuffersBounded' BY <1>3 DEF TypeOK, BuffersBounded
  <2> QED BY <1>3, <2>1 DEF TypeOK
<1> QED BY <1>1, <1>2, <1>3 DEF Listener

LEMMA TypeStep == TypeOK /\ [Next]_vars => TypeOK'
<1> SUFFICES ASSUME TypeOK, [Next]_vars PROVE TypeOK'
  OBVIOUS
<1>1. CASE Publish \/ PluginRestart BY <1>1, TypePublish
<1>2. CASE Broadcast BY <1>2, TypeBroadcast
<1>3. CASE \E k \in Conn : Handler(k) \/ Break(k) BY <1>3, TypeHandler
<1>4. CASE Listener BY <1>4, TypeListener
<1>5. CASE UNCHANGED vars
  BY <1>5 DEF vars, TypeOK, BuffersBounded, pluginVars, hubVars, handlerVars, netVars,
    listenerVars
<1> QED BY <1>1, <1>2, <1>3, <1>4, <1>5 DEF Next

\* Every variable of EventStream keeps its type; in particular no channel ever
\* holds more than its capacity.
THEOREM TypeCorrect == Spec => []TypeOK
<1>1. Init => TypeOK BY TypeInit
<1>2. TypeOK /\ [Next]_vars => TypeOK' BY TypeStep
<1> QED BY <1>1, <1>2, PTL DEF Spec

-----------------------------------------------------------------------------
(* LooksAgain is not inductive by itself: an event is a fresh look only          *)
(* because what was broadcast is in the snapshot, and a new connection owes     *)
(* nothing yet only because no channel is left over from the one before.        *)

BroadcastAfterStore == sent <= version
SubscribedHaveHandlers ==
  \A k \in subs : pc[k] \in {"select", "write", "flushed"}

LooksInv == BroadcastAfterStore /\ SubscribedHaveHandlers /\ LooksAgain

LEMMA LooksInit == Init => LooksInv
BY DEF Init, LooksInv, BroadcastAfterStore, SubscribedHaveHandlers, LooksAgain

LEMMA LooksPublish ==
  TypeOK /\ LooksInv /\ (Publish \/ PluginRestart) => LooksInv'
<1>1. ASSUME TypeOK, LooksInv, Publish PROVE LooksInv'
  <2>1. BroadcastAfterStore'
    BY <1>1 DEF Publish, BroadcastAfterStore, TypeOK, Count
  <2> QED BY <1>1, <2>1 DEF Publish, LooksInv, SubscribedHaveHandlers, LooksAgain,
                            OnItsWay, hubVars, handlerVars, netVars, listenerVars
<1>2. ASSUME TypeOK, LooksInv, PluginRestart PROVE LooksInv'
  BY <1>2 DEF PluginRestart, LooksInv, BroadcastAfterStore,
              SubscribedHaveHandlers, LooksAgain
<1> QED BY <1>1, <1>2

\* A broadcast leaves every subscribed channel with something in it: the new
\* message, or those that fill it.
LEMMA LooksBroadcast == TypeOK /\ LooksInv /\ Broadcast => LooksInv'
<1> SUFFICES ASSUME TypeOK, LooksInv, Broadcast PROVE LooksInv'
  OBVIOUS
<1>1. BroadcastAfterStore' BY DEF Broadcast, BroadcastAfterStore, TypeOK, Count
<1>2. SubscribedHaveHandlers'
  BY DEF Broadcast, LooksInv, SubscribedHaveHandlers, handlerVars
<1>3. \A k \in subs : buffer'[k] # <<>>
  <2> TAKE k \in subs
  <2>1. k \in Conn /\ buffer[k] \in Seq(Message) BY DEF TypeOK
  <2>2. sent + 1 \in Message BY DEF TypeOK, Broadcast, Message, Count
  <2>3. CASE HasRoom(k)
    <3>1. buffer'[k] = Append(buffer[k], sent + 1) BY <2>1, <2>3 DEF Broadcast
    <3> QED BY <2>1, <2>2, <3>1, AppendProperties
  <2>4. CASE ~HasRoom(k)
    <3>1. buffer'[k] = buffer[k] BY <2>1, <2>4 DEF Broadcast
    <3>2. Len(buffer[k]) \in Nat BY <2>1, LenProperties
    <3>3. Len(buffer[k]) # 0 BY <2>4, <3>2 DEF HasRoom
    <3> QED BY <3>1, <3>3
  <2> QED BY <2>3, <2>4
<1>4. LooksAgain' BY <1>3 DEF LooksAgain, OnItsWay, Broadcast
<1> QED BY <1>1, <1>2, <1>4 DEF LooksInv

LEMMA LooksHandler ==
  ASSUME TypeOK, LooksInv, NEW k \in Conn, Handler(k) \/ Break(k)
  PROVE  LooksInv'
<1> USE DEF pluginVars, hubVars, handlerVars, netVars, listenerVars
<1>1. UNCHANGED <<pluginVars, listenerVars>>
  BY DEF Handler, Break, Subscribe, TakeMessage, WriteMessage, SelectAgain, EndHandler
<1>2. BroadcastAfterStore' BY <1>1 DEF LooksInv, BroadcastAfterStore
<1>3. SubscribedHaveHandlers'
  <2> SUFFICES ASSUME NEW j \in subs' PROVE pc'[j] \in {"select", "write", "flushed"}
    BY DEF SubscribedHaveHandlers
  <2>1. \A i \in subs : pc[i] \in {"select", "write", "flushed"}
    BY DEF LooksInv, SubscribedHaveHandlers
  <2>2. subs \subseteq Conn /\ DOMAIN pc = Conn BY DEF TypeOK
  <2>3. CASE Subscribe(k) BY <2>1, <2>2, <2>3 DEF Subscribe
  <2>4. CASE TakeMessage(k) BY <2>1, <2>2, <2>4 DEF TakeMessage
  <2>5. CASE WriteMessage(k) BY <2>1, <2>2, <2>5 DEF WriteMessage
  <2>6. CASE SelectAgain(k) BY <2>1, <2>2, <2>6 DEF SelectAgain
  <2>7. CASE EndHandler(k) BY <2>1, <2>2, <2>7 DEF EndHandler
  <2>8. CASE Break(k) BY <2>1, <2>8 DEF Break
  <2> QED BY <2>3, <2>4, <2>5, <2>6, <2>7, <2>8 DEF Handler
<1>4. LooksAgain'
  <2> SUFFICES ASSUME NEW j \in subs' \cap open', j = current',
                      since'[j] < sent', looked' < sent'
               PROVE  OnItsWay(j)'
    BY DEF LooksAgain
  <2>0. j \in Conn
    BY DEF TypeOK, Handler, Break, Subscribe, TakeMessage, WriteMessage,
           SelectAgain, EndHandler
  <2>1. CASE Subscribe(k)
    <3>1. j # k
      <4> SUFFICES ASSUME j = k PROVE FALSE OBVIOUS
      <4>1. since'[k] = sent BY <2>1 DEF TypeOK, Subscribe
      <4> QED BY <1>1, <4>1 DEF TypeOK, Count
    <3> QED BY <2>0, <2>1, <3>1 DEF Subscribe, TypeOK, LooksInv, LooksAgain, OnItsWay
  <2>2. CASE TakeMessage(k)
    <3>1. OnItsWay(j)
      BY <2>2 DEF TakeMessage, LooksInv, LooksAgain
    <3>2. CASE j = k
      <4>1. held'[k] = Head(buffer[k]) /\ buffer[k] \in Seq(Message)
        BY <2>2 DEF TakeMessage, TypeOK
      <4>2. Head(buffer[k]) \in Message BY <2>2, <4>1, TakeFirst DEF TakeMessage
      <4> QED BY <3>2, <4>1, <4>2 DEF OnItsWay, Message
    <3>3. CASE j # k
      BY <2>0, <2>2, <3>1, <3>3 DEF TakeMessage, TypeOK, OnItsWay
    <3> QED BY <3>2, <3>3
  <2>3. CASE WriteMessage(k)
    <3>1. OnItsWay(j) /\ j \in open
      BY <2>3 DEF WriteMessage, LooksInv, LooksAgain
    <3>2. CASE j = k
      BY <2>0, <2>3, <3>1, <3>2 DEF WriteMessage, TypeOK, OnItsWay
    <3>3. CASE j # k
      BY <2>0, <2>3, <3>1, <3>3 DEF WriteMessage, TypeOK, OnItsWay
    <3> QED BY <3>2, <3>3
  <2>4. CASE SelectAgain(k)
    BY <2>4 DEF SelectAgain, LooksInv, LooksAgain, OnItsWay
  <2>5. CASE EndHandler(k)
    <3>1. j # k /\ j \in subs \cap open BY <2>5 DEF EndHandler
    <3> QED BY <2>0, <2>5, <3>1 DEF EndHandler, TypeOK, LooksInv, LooksAgain, OnItsWay
  <2>6. CASE Break(k)
    BY <2>6 DEF Break, LooksInv, LooksAgain, OnItsWay
  <2> QED BY <2>1, <2>2, <2>3, <2>4, <2>5, <2>6 DEF Handler
<1> QED BY <1>2, <1>3, <1>4 DEF LooksInv

LEMMA LooksListener == TypeOK /\ LooksInv /\ Listener => LooksInv'
<1> SUFFICES ASSUME TypeOK, LooksInv, Listener PROVE LooksInv'
  OBVIOUS
<1> USE DEF LooksInv, BroadcastAfterStore, SubscribedHaveHandlers, LooksAgain,
            OnItsWay, pluginVars, hubVars, handlerVars, netVars, listenerVars
<1>1. CASE StartListener BY <1>1 DEF StartListener
<1>2. CASE Connect
  <2>1. PICK k \in Conn : /\ pc[k] = "none"
                          /\ pc' = [pc EXCEPT ![k] = "entered"]
                          /\ open' = open \union {k}
                          /\ current' = k
    BY <1>2 DEF Connect
  <2>2. k \notin subs BY <2>1
  <2>3. SubscribedHaveHandlers' BY <1>2, <2>1, <2>2 DEF Connect, TypeOK
  <2>4. LooksAgain' BY <1>2, <2>1, <2>2 DEF Connect
  <2> QED BY <1>2, <2>3, <2>4 DEF Connect
<1>3. CASE ConnectFails BY <1>3 DEF ConnectFails
<1>4. CASE Rejected BY <1>4 DEF Rejected
<1>5. CASE ReadEvent
  <2>1. ~(looked' < sent') BY <1>5 DEF ReadEvent, TypeOK, Count
  <2> QED BY <1>5, <2>1 DEF ReadEvent
<1>6. CASE StreamEnds BY <1>6 DEF StreamEnds, TypeOK
<1>7. CASE Retry BY <1>7 DEF Retry
<1>8. CASE StopListener BY <1>8 DEF StopListener, TypeOK
<1> QED BY <1>1, <1>2, <1>3, <1>4, <1>5, <1>6, <1>7, <1>8 DEF Listener

LEMMA LooksStep == TypeOK /\ LooksInv /\ [Next]_vars => LooksInv'
<1> SUFFICES ASSUME TypeOK, LooksInv, [Next]_vars PROVE LooksInv'
  OBVIOUS
<1>1. CASE Publish \/ PluginRestart BY <1>1, LooksPublish
<1>2. CASE Broadcast BY <1>2, LooksBroadcast
<1>3. CASE \E k \in Conn : Handler(k) \/ Break(k) BY <1>3, LooksHandler
<1>4. CASE Listener BY <1>4, LooksListener
<1>5. CASE UNCHANGED vars
  BY <1>5 DEF vars, LooksInv, BroadcastAfterStore, SubscribedHaveHandlers, LooksAgain,
              OnItsWay, pluginVars, hubVars, handlerVars, netVars, listenerVars
<1> QED BY <1>1, <1>2, <1>3, <1>4, <1>5 DEF Next

\* An event dropped for a slow consumer is made up for by those that filled its
\* channel (broadcast, api.go), for any capacity but zero.
THEOREM DropsAreHarmless == Spec => []LooksAgain
<1>1. Init => LooksInv BY LooksInit
<1>2. TypeOK /\ LooksInv /\ [Next]_vars => LooksInv' BY LooksStep
<1>3. LooksInv => LooksAgain BY DEF LooksInv
<1> QED BY <1>1, <1>2, <1>3, TypeCorrect, PTL DEF Spec

-----------------------------------------------------------------------------
(* The ends of connections. The stream that is up is the one the listener reads, and *)
(* only a handler that is about to write holds a message.                           *)

OpenIsCurrent == \A k \in open : k = current /\ listener = "read"
OpenHasHandler ==
  \A k \in open : pc[k] # "none" /\ (pc[k] = "entered" \/ k \in subs)
CurrentIsRead == listener = "read" <=> current # "none"
HeldToWrite == \A k \in Conn : held[k] # 0 <=> pc[k] = "write"
SinceIsPast == \A k \in Conn : since[k] <= sent

ConnInv == /\ OpenIsCurrent /\ OpenHasHandler /\ CurrentIsRead
           /\ HeldToWrite /\ SinceIsPast

LEMMA ConnInit == Init => ConnInv
BY DEF Init, ConnInv, OpenIsCurrent, OpenHasHandler, CurrentIsRead, HeldToWrite,
       SinceIsPast, Nothing

LEMMA ConnPlugin == TypeOK /\ ConnInv /\ (Publish \/ Broadcast \/ PluginRestart) => ConnInv'
<1> SUFFICES ASSUME TypeOK, ConnInv, Publish \/ Broadcast \/ PluginRestart PROVE ConnInv'
  OBVIOUS
<1> USE DEF ConnInv, OpenIsCurrent, OpenHasHandler, CurrentIsRead, HeldToWrite, pluginVars,
            hubVars, handlerVars, netVars, listenerVars
<1>1. CASE Publish BY <1>1 DEF Publish, SinceIsPast
<1>2. CASE Broadcast
  <2>1. SinceIsPast' BY <1>2 DEF Broadcast, SinceIsPast, TypeOK, Count
  <2> QED BY <1>2, <2>1 DEF Broadcast
<1>3. CASE PluginRestart BY <1>3 DEF PluginRestart, SinceIsPast, Nothing
<1> QED BY <1>1, <1>2, <1>3

LEMMA ConnHandler ==
  ASSUME TypeOK, LooksInv, ConnInv, NEW k \in Conn, Handler(k) \/ Break(k)
  PROVE  ConnInv'
<1> USE DEF pluginVars, hubVars, handlerVars, netVars, listenerVars
<1>1. OpenIsCurrent' /\ CurrentIsRead'
  BY DEF ConnInv, OpenIsCurrent, CurrentIsRead, Handler, Break, Subscribe, TakeMessage,
         WriteMessage, SelectAgain, EndHandler
<1>2. OpenHasHandler'
  BY DEF TypeOK, ConnInv, OpenHasHandler, Handler, Break, Subscribe, TakeMessage,
         WriteMessage, SelectAgain, EndHandler
<1>3. SinceIsPast'
  <2>1. \A j \in Conn : since'[j] \in {since[j], sent, 0}
    BY DEF TypeOK, Handler, Break, Subscribe, TakeMessage, WriteMessage, SelectAgain,
           EndHandler
  <2>2. sent' = sent
    BY DEF Handler, Break, Subscribe, TakeMessage, WriteMessage, SelectAgain, EndHandler
  <2>3. sent \in Nat BY DEF TypeOK, Count
  <2> QED BY <2>1, <2>2, <2>3 DEF ConnInv, SinceIsPast
<1>4. HeldToWrite'
  <2>1. CASE TakeMessage(k)
    <3>1. buffer[k] \in Seq(Message) /\ buffer[k] # <<>>
      BY <2>1 DEF TypeOK, TakeMessage
    <3>2. Head(buffer[k]) # 0 BY <3>1, TakeFirst DEF Message
    <3> QED BY <2>1, <3>2 DEF TypeOK, ConnInv, HeldToWrite, TakeMessage
  <2>2. CASE Subscribe(k) \/ SelectAgain(k) \/ EndHandler(k)
    BY <2>2 DEF TypeOK, ConnInv, HeldToWrite, Subscribe, SelectAgain, EndHandler
  <2>3. CASE WriteMessage(k)
    BY <2>3 DEF TypeOK, ConnInv, HeldToWrite, WriteMessage
  <2>4. CASE Break(k) BY <2>4 DEF ConnInv, HeldToWrite, Break
  <2> QED BY <2>1, <2>2, <2>3, <2>4 DEF Handler
<1> QED BY <1>1, <1>2, <1>3, <1>4 DEF ConnInv

LEMMA ConnListener == TypeOK /\ ConnInv /\ Listener => ConnInv'
<1> SUFFICES ASSUME TypeOK, ConnInv, Listener PROVE ConnInv'
  OBVIOUS
<1> USE DEF ConnInv, OpenIsCurrent, OpenHasHandler, CurrentIsRead, HeldToWrite,
            SinceIsPast, pluginVars, hubVars, handlerVars, netVars, listenerVars
<1>1. CASE StartListener BY <1>1 DEF StartListener
<1>2. CASE Connect BY <1>2 DEF Connect, TypeOK
<1>3. CASE ConnectFails BY <1>3 DEF ConnectFails
<1>4. CASE Rejected BY <1>4 DEF Rejected
<1>5. CASE ReadEvent BY <1>5 DEF ReadEvent
<1>6. CASE StreamEnds BY <1>6 DEF StreamEnds
<1>7. CASE Retry BY <1>7 DEF Retry
<1>8. CASE StopListener BY <1>8 DEF StopListener
<1> QED BY <1>1, <1>2, <1>3, <1>4, <1>5, <1>6, <1>7, <1>8 DEF Listener

StreamInv == TypeOK /\ LooksInv /\ ConnInv

LEMMA StreamInvariant == Spec => []StreamInv
<1>1. Init => StreamInv BY TypeInit, LooksInit, ConnInit DEF StreamInv
<1>2. StreamInv /\ [Next]_vars => StreamInv'
  <2> SUFFICES ASSUME StreamInv, [Next]_vars PROVE StreamInv'
    OBVIOUS
  <2>1. TypeOK' /\ LooksInv' BY TypeStep, LooksStep DEF StreamInv
  <2>2. ConnInv'
    <3> USE DEF StreamInv
    <3>1. CASE Publish \/ Broadcast \/ PluginRestart BY <3>1, ConnPlugin
    <3>2. CASE \E k \in Conn : Handler(k) \/ Break(k) BY <3>2, ConnHandler
    <3>3. CASE Listener BY <3>3, ConnListener
    <3>4. CASE UNCHANGED vars
      BY <3>4 DEF vars, pluginVars, hubVars, handlerVars, netVars, listenerVars, ConnInv,
           OpenIsCurrent, OpenHasHandler, CurrentIsRead, HeldToWrite, SinceIsPast
    <3> QED BY <3>1, <3>2, <3>3, <3>4 DEF Next
  <2> QED BY <2>1, <2>2 DEF StreamInv
<1> QED BY <1>1, <1>2, PTL DEF Spec

-----------------------------------------------------------------------------
(* Events arrive in the order in which they were broadcast, whatever is dropped, and  *)
(* none from before the stream was subscribed. The message on the wire is older than  *)
(* the one the handler holds, and that one than those in the channel.                 *)

InOrder(b, h, w, from, to) ==
  /\ \A i, j \in DOMAIN b : i < j => b[i] < b[j]
  /\ \A i \in DOMAIN b : from < b[i] /\ b[i] <= to /\ h < b[i] /\ w < b[i]
  /\ h # 0 => from < h /\ h <= to /\ w < h
  /\ w # 0 => from < w /\ w <= to

\* The messages of a channel after a send and after a receive.
LEMMA SentMessages ==
  ASSUME NEW b \in Seq(Message), NEW m
  PROVE  /\ DOMAIN Append(b, m) = 1..(Len(b) + 1)
         /\ DOMAIN b = 1..Len(b) /\ Len(b) \in Nat
         /\ \A i \in DOMAIN b : Append(b, m)[i] = b[i] /\ b[i] \in Message
         /\ Append(b, m)[Len(b) + 1] = m
OBVIOUS

LEMMA LeftMessages ==
  ASSUME NEW b \in Seq(Message), b # <<>>
  PROVE  /\ 1 \in DOMAIN b /\ Head(b) = b[1]
         /\ \A i \in DOMAIN b : b[i] \in Message
         /\ \A i \in DOMAIN Tail(b) :
              i \in Nat \ {0} /\ i + 1 \in DOMAIN b /\ Tail(b)[i] = b[i + 1]
<1>1. DOMAIN b = 1..Len(b) /\ Len(b) \in Nat /\ \A i \in DOMAIN b : b[i] \in Message
  OBVIOUS
<1>2. Len(b) # 0 /\ Head(b) = b[1] BY EmptySeq
<1>3. DOMAIN Tail(b) = 1..(Len(b) - 1) BY <1>2, HeadTailProperties, LenProperties
<1>4. \A i \in 1..(Len(b) - 1) : Tail(b)[i] = b[i + 1] BY HeadTailProperties
<1> QED BY <1>1, <1>2, <1>3, <1>4

\* A broadcast that finds room, and one that does not.
LEMMA SendInOrder ==
  ASSUME NEW b \in Seq(Message), NEW h \in Count, NEW w \in Count,
         NEW from \in Count, NEW to \in Count, from <= to, InOrder(b, h, w, from, to)
  PROVE  InOrder(Append(b, to + 1), h, w, from, to + 1) /\ InOrder(b, h, w, from, to + 1)
<1> DEFINE c == Append(b, to + 1)  n == Len(b) + 1
<1>1. /\ DOMAIN c = 1..n /\ DOMAIN b = 1..(n - 1) /\ n \in Nat \ {0}
      /\ \A i \in DOMAIN b : c[i] = b[i] /\ b[i] \in Nat
      /\ c[n] = to + 1
  BY SentMessages DEF Message
<1> HIDE DEF c, n
<1>2. h <= to /\ w <= to BY DEF InOrder, Count
<1>3. \A i \in DOMAIN c : i \in DOMAIN b \/ i = n BY <1>1
<1>4. \A i, j \in DOMAIN c : i < j => i \in DOMAIN b BY <1>1
<1>5. \A i \in DOMAIN b : b[i] < to + 1 BY <1>1 DEF InOrder, Count
<1>6. \A i, j \in DOMAIN c : i < j => c[i] < c[j]
  BY <1>1, <1>3, <1>4, <1>5 DEF InOrder
<1>7. \A i \in DOMAIN c : from < c[i] /\ c[i] <= to + 1 /\ h < c[i] /\ w < c[i]
  BY <1>1, <1>2, <1>3 DEF InOrder, Count
<1>8. InOrder(c, h, w, from, to + 1)
  BY <1>6, <1>7 DEF InOrder, Count
<1>9. InOrder(b, h, w, from, to + 1) BY <1>1 DEF InOrder, Count
<1> QED BY <1>8, <1>9 DEF c

\* The handler takes the oldest message of its channel.
LEMMA TakeInOrder ==
  ASSUME NEW b \in Seq(Message), NEW w \in Count, NEW from \in Count, NEW to \in Count,
         InOrder(b, 0, w, from, to), b # <<>>
  PROVE  InOrder(Tail(b), Head(b), w, from, to)
<1> DEFINE c == Tail(b)
<1>1. /\ 1 \in DOMAIN b /\ Head(b) = b[1]
      /\ \A i \in DOMAIN c : i \in Nat \ {0} /\ i + 1 \in DOMAIN b /\ c[i] = b[i + 1]
  BY LeftMessages
<1> HIDE DEF c
<1>2. DOMAIN b \subseteq Nat OBVIOUS
<1>3. \A i, j \in DOMAIN c : i < j => c[i] < c[j] BY <1>1 DEF InOrder
<1>4. \A i \in DOMAIN c : from < c[i] /\ c[i] <= to /\ b[1] < c[i] /\ w < c[i]
  BY <1>1 DEF InOrder
<1>5. from < b[1] /\ b[1] <= to /\ w < b[1] BY <1>1 DEF InOrder
<1> QED BY <1>1, <1>3, <1>4, <1>5 DEF InOrder, c

\* A held message is written, or lost with its connection; one on the wire is read.
LEMMA PassInOrder ==
  ASSUME NEW b \in Seq(Message), NEW h \in Count, NEW w \in Count,
         NEW from \in Count, NEW to \in Count, InOrder(b, h, w, from, to)
  PROVE  /\ InOrder(b, 0, w, from, to) /\ InOrder(b, h, 0, from, to)
         /\ h # 0 => InOrder(b, 0, h, from, to)
         /\ InOrder(<<>>, 0, w, 0, to)
<1>1. DOMAIN b = 1..Len(b) /\ \A i \in DOMAIN b : b[i] \in Nat
  BY SentMessages DEF Message
<1>2. DOMAIN <<>> = {} OBVIOUS
<1>3. \A i \in DOMAIN b : 0 < b[i] BY <1>1 DEF InOrder, Count
<1> QED BY <1>1, <1>2, <1>3 DEF InOrder, Count

EventsInOrder == \A k \in Conn : InOrder(buffer[k], held[k], wire[k], since[k], sent)
WireIsNew == \A k \in Conn : pc[k] = "entered" => wire[k] = 0
OrderInv == EventsInOrder /\ WireIsNew

LEMMA OrderInit == Init => OrderInv
BY DEF Init, OrderInv, EventsInOrder, InOrder, WireIsNew, Nothing

LEMMA OrderPlugin ==
  StreamInv /\ OrderInv /\ (Publish \/ Broadcast \/ PluginRestart) => OrderInv'
<1> SUFFICES ASSUME StreamInv, OrderInv, Publish \/ Broadcast \/ PluginRestart
             PROVE  OrderInv'
  OBVIOUS
<1> USE DEF OrderInv, hubVars, handlerVars, netVars
<1>1. CASE Publish BY <1>1 DEF Publish, EventsInOrder, InOrder, WireIsNew
<1>2. CASE Broadcast
  <2>1. WireIsNew' BY <1>2 DEF Broadcast, WireIsNew
  <2>2. EventsInOrder'
    <3> SUFFICES ASSUME NEW k \in Conn
                 PROVE  InOrder(buffer[k], held[k], wire[k], since[k], sent)'
      BY DEF EventsInOrder
    <3>1. /\ buffer[k] \in Seq(Message) /\ held[k] \in Count /\ wire[k] \in Count
          /\ since[k] \in Count /\ sent \in Count /\ since[k] <= sent
      BY DEF StreamInv, TypeOK, ConnInv, SinceIsPast
    <3>2. InOrder(buffer[k], held[k], wire[k], since[k], sent) BY DEF EventsInOrder
    <3>3. /\ InOrder(Append(buffer[k], sent + 1), held[k], wire[k], since[k], sent + 1)
          /\ InOrder(buffer[k], held[k], wire[k], since[k], sent + 1)
      BY <3>1, <3>2, SendInOrder
    <3>4. /\ buffer'[k] \in {Append(buffer[k], sent + 1), buffer[k]} /\ sent' = sent + 1
          /\ held' = held /\ wire' = wire /\ since' = since
      BY <1>2 DEF Broadcast
    <3> QED BY <3>3, <3>4
  <2> QED BY <2>1, <2>2
<1>3. CASE PluginRestart
  BY <1>3 DEF PluginRestart, EventsInOrder, InOrder, WireIsNew, Nothing
<1> QED BY <1>1, <1>2, <1>3

LEMMA OrderHandler ==
  ASSUME StreamInv, OrderInv, NEW k \in Conn, Handler(k) \/ Break(k)
  PROVE  OrderInv'
<1> USE DEF pluginVars, hubVars, handlerVars, netVars
<1>1. /\ buffer \in [Conn -> Seq(Message)] /\ held \in [Conn -> Count]
      /\ wire \in [Conn -> Count] /\ since \in [Conn -> Count] /\ sent \in Count
      /\ pc = [j \in Conn |-> pc[j]]
      /\ \A j \in Conn : held[j] # 0 <=> pc[j] = "write"
  BY DEF StreamInv, TypeOK, ConnInv, HeldToWrite
<1>2. \A j \in Conn : /\ InOrder(buffer[j], held[j], wire[j], since[j], sent)
                      /\ pc[j] = "entered" => wire[j] = 0
  BY DEF OrderInv, EventsInOrder, WireIsNew
<1>3. WireIsNew'
  <2>1. \A j \in Conn : pc'[j] = "entered" => pc[j] = "entered" /\ wire'[j] = wire[j]
    BY <1>1 DEF Handler, Break, Subscribe, TakeMessage, WriteMessage, SelectAgain,
                EndHandler
  <2> QED BY <1>2, <2>1 DEF WireIsNew
<1>4. sent' = sent /\ \A j \in Conn \ {k} :
        buffer'[j] = buffer[j] /\ held'[j] = held[j] /\ wire'[j] = wire[j]
          /\ since'[j] = since[j]
  BY <1>1 DEF Handler, Break, Subscribe, TakeMessage, WriteMessage, SelectAgain,
              EndHandler
<1> DEFINE b == buffer[k]  h == held[k]  w == wire[k]  from == since[k]
<1>5. /\ b \in Seq(Message) /\ h \in Count /\ w \in Count /\ from \in Count
      /\ InOrder(b, h, w, from, sent)
  BY <1>1, <1>2
<1>6. InOrder(buffer'[k], held'[k], wire'[k], since'[k], sent)
  <2>1. CASE Subscribe(k)
    <3>1. h = 0 /\ w = 0 BY <1>1, <1>2, <2>1 DEF Subscribe
    <3>2. buffer'[k] = <<>> /\ held' = held /\ wire' = wire BY <1>1, <2>1 DEF Subscribe
    <3> QED BY <3>1, <3>2 DEF InOrder
  <2>2. CASE TakeMessage(k)
    <3>1. h = 0 /\ b # <<>> BY <1>1, <2>2 DEF TakeMessage
    <3>2. InOrder(Tail(b), Head(b), w, from, sent) BY <1>1, <1>5, <3>1, TakeInOrder
    <3>3. buffer'[k] = Tail(b) /\ held'[k] = Head(b) /\ wire' = wire /\ since' = since
      BY <1>1, <2>2 DEF TakeMessage
    <3> QED BY <3>2, <3>3
  <2>3. CASE WriteMessage(k)
    <3>1. h # 0 BY <1>1, <2>3 DEF WriteMessage
    <3>2. InOrder(b, 0, w, from, sent) /\ InOrder(b, 0, h, from, sent)
      BY <1>1, <1>5, <3>1, PassInOrder
    <3>3. /\ buffer' = buffer /\ held'[k] = 0 /\ wire'[k] \in {w, h} /\ since' = since
      BY <1>1, <2>3 DEF WriteMessage
    <3> QED BY <3>2, <3>3
  <2>4. CASE EndHandler(k)
    <3>1. h = 0 BY <1>1, <2>4 DEF EndHandler
    <3>2. InOrder(<<>>, 0, w, 0, sent) BY <1>1, <1>5, PassInOrder
    <3>3. buffer'[k] = <<>> /\ held' = held /\ wire' = wire /\ since'[k] = 0
      BY <1>1, <2>4 DEF EndHandler
    <3> QED BY <3>1, <3>2, <3>3
  <2>5. CASE SelectAgain(k) \/ Break(k)
    BY <1>5, <2>5 DEF SelectAgain, Break
  <2> QED BY <2>1, <2>2, <2>3, <2>4, <2>5 DEF Handler
<1>7. EventsInOrder' BY <1>2, <1>4, <1>6 DEF EventsInOrder
<1> QED BY <1>3, <1>7 DEF OrderInv

LEMMA OrderListener == StreamInv /\ OrderInv /\ Listener => OrderInv'
<1> SUFFICES ASSUME StreamInv, OrderInv, Listener PROVE OrderInv'
  OBVIOUS
<1> USE DEF pluginVars, hubVars, handlerVars, netVars
<1>1. /\ buffer' = buffer /\ held' = held /\ since' = since /\ sent' = sent
      /\ \A k \in Conn : wire'[k] \in {wire[k], 0}
      /\ \A k \in Conn : pc'[k] = "entered" => pc[k] = "entered" \/ wire'[k] = 0
  BY DEF Listener, StreamInv, TypeOK, StartListener, Connect, ConnectFails, Rejected,
         ReadEvent, StreamEnds, Retry, StopListener
<1>2. WireIsNew' BY <1>1 DEF OrderInv, WireIsNew
<1>3. ASSUME NEW k \in Conn
      PROVE  InOrder(buffer[k], held[k], wire[k], since[k], sent)'
  <2>1. /\ buffer[k] \in Seq(Message) /\ held[k] \in Count /\ wire[k] \in Count
        /\ since[k] \in Count /\ sent \in Count
    BY DEF StreamInv, TypeOK
  <2>2. InOrder(buffer[k], held[k], wire[k], since[k], sent)
    BY DEF OrderInv, EventsInOrder
  <2>3. InOrder(buffer[k], held[k], 0, since[k], sent) BY <2>1, <2>2, PassInOrder
  <2> QED BY <1>1, <2>2, <2>3
<1> QED BY <1>2, <1>3 DEF OrderInv, EventsInOrder

LEMMA OrderStep == StreamInv /\ OrderInv /\ [Next]_vars => OrderInv'
<1> SUFFICES ASSUME StreamInv, OrderInv, [Next]_vars PROVE OrderInv'
  OBVIOUS
<1>1. CASE Publish \/ Broadcast \/ PluginRestart BY <1>1, OrderPlugin
<1>2. CASE \E k \in Conn : Handler(k) \/ Break(k) BY <1>2, OrderHandler
<1>3. CASE Listener BY <1>3, OrderListener
<1>4. CASE UNCHANGED vars
  BY <1>4 DEF vars, pluginVars, hubVars, handlerVars, netVars, OrderInv, EventsInOrder,
              WireIsNew
<1> QED BY <1>1, <1>2, <1>3, <1>4 DEF Next

\* What a stream carries is in the order of the broadcasts, has no event twice, and is all
\* from after the channel was subscribed (broadcast, handleEvents), though connections
\* overlap, break and are used again.
THEOREM EventsArriveInOrder == Spec => []EventsInOrder
<1>1. Init => OrderInv BY OrderInit
<1>2. StreamInv /\ OrderInv /\ [Next]_vars => OrderInv' BY OrderStep
<1>3. OrderInv => EventsInOrder BY DEF OrderInv
<1> QED BY <1>1, <1>2, <1>3, StreamInvariant, PTL DEF Spec

-----------------------------------------------------------------------------
(* A handler whose connection is gone ends. *)

At(k, p) == pc[k] = p
Open(k) == k \in open
Subscribed(k) == k \in subs
Connecting == listener = "connect"

StreamStep == StreamInv /\ StreamInv' /\ [Next]_vars

\* Weak and strong fairness of an action A where E holds, E being a condition for it to
\* be enabled.
FairWhere(E, A) == []<>~E \/ []<><<A>>_vars
StrongFairWhere(E, A) == <>[]~E \/ []<><<A>>_vars

\* What PluginFairness says of a handler, with the guard of each action in the place of
\* ENABLED.
HandlerFairness(k) ==
  /\ FairWhere(At(k, "entered"), Subscribe(k))
  /\ FairWhere(At(k, "write") /\ ~(Open(k) /\ wire[k] # 0), WriteMessage(k))
  /\ FairWhere(At(k, "flushed"), SelectAgain(k))
  /\ FairWhere(At(k, "select") /\ buffer[k] # <<>>, TakeMessage(k))
  /\ StrongFairWhere(At(k, "select") /\ ~Open(k), EndHandler(k))

\* Where a handler goes.
LEMMA HandlerStep ==
  ASSUME NEW k \in Conn
  PROVE  /\ StreamStep =>
              /\ At(k, "none") => At(k, "none")' \/ (Connecting /\ ~Connecting')
              /\ At(k, "entered") =>
                   At(k, "entered")' \/ At(k, "select")' \/ At(k, "none")'
              /\ At(k, "select") =>
                   At(k, "select")' \/ At(k, "write")' \/ At(k, "none")'
              /\ At(k, "write") =>
                   At(k, "write")' \/ At(k, "flushed")' \/ At(k, "none")'
              /\ At(k, "flushed") =>
                   At(k, "flushed")' \/ At(k, "select")' \/ At(k, "none")'
              /\ ~Open(k) => ~Open(k)' \/ At(k, "none")
         /\ StreamInv /\ <<Subscribe(k)>>_vars => At(k, "select")'
         /\ StreamInv /\ <<WriteMessage(k)>>_vars => At(k, "flushed")'
         /\ StreamInv /\ <<SelectAgain(k)>>_vars => At(k, "select")'
         /\ StreamInv /\ <<TakeMessage(k)>>_vars => At(k, "write")'
         /\ StreamInv /\ <<EndHandler(k)>>_vars => At(k, "none")'
<1> USE DEF At, Open, Connecting
<1>1. ASSUME StreamInv
      PROVE  pc \in [Conn -> {"none", "entered", "select", "write", "flushed"}]
  BY <1>1 DEF StreamInv, TypeOK
<1>2. StreamInv /\ Subscribe(k) => At(k, "select")' BY <1>1 DEF Subscribe
<1>3. StreamInv /\ WriteMessage(k) => At(k, "flushed")' BY <1>1 DEF WriteMessage
<1>4. StreamInv /\ SelectAgain(k) => At(k, "select")' BY <1>1 DEF SelectAgain
<1>5. StreamInv /\ TakeMessage(k) => At(k, "write")' BY <1>1 DEF TakeMessage
<1>6. StreamInv /\ EndHandler(k) => At(k, "none")' BY <1>1 DEF EndHandler
<1>7. ASSUME StreamStep
      PROVE  /\ At(k, "none") => At(k, "none")' \/ (Connecting /\ ~Connecting')
             /\ At(k, "entered") =>
                  At(k, "entered")' \/ At(k, "select")' \/ At(k, "none")'
             /\ At(k, "select") =>
                  At(k, "select")' \/ At(k, "write")' \/ At(k, "none")'
             /\ At(k, "write") =>
                  At(k, "write")' \/ At(k, "flushed")' \/ At(k, "none")'
             /\ At(k, "flushed") =>
                  At(k, "flushed")' \/ At(k, "select")' \/ At(k, "none")'
             /\ ~Open(k) => ~Open(k)' \/ At(k, "none")
  <2> USE <1>1, <1>7 DEF StreamStep, pluginVars, hubVars, handlerVars, netVars, listenerVars
  <2>1. CASE Publish \/ Broadcast BY <2>1 DEF Publish, Broadcast
  <2>2. CASE PluginRestart BY <2>2 DEF PluginRestart
  <2>3. ASSUME NEW j \in Conn, Handler(j) \/ Break(j)
        PROVE  /\ pc'[k] # pc[k] => j = k
               /\ UNCHANGED listener /\ open' \subseteq open
    BY <2>3 DEF Handler, Break, Subscribe, TakeMessage, WriteMessage, SelectAgain,
                EndHandler
  <2>4. ASSUME NEW j \in Conn, Handler(j) \/ Break(j), j = k
        PROVE  /\ At(k, "none") => At(k, "none")'
               /\ At(k, "entered") => At(k, "entered")' \/ At(k, "select")'
               /\ At(k, "select") =>
                    At(k, "select")' \/ At(k, "write")' \/ At(k, "none")'
               /\ At(k, "write") => At(k, "write")' \/ At(k, "flushed")'
               /\ At(k, "flushed") => At(k, "flushed")' \/ At(k, "select")'
    BY <2>4 DEF Handler, Break, Subscribe, TakeMessage, WriteMessage, SelectAgain,
                EndHandler
  <2>5. CASE Connect BY <2>5 DEF Connect
  <2>6. CASE Listener /\ ~Connect
    BY <2>6 DEF Listener, StartListener, ConnectFails, Rejected, ReadEvent, StreamEnds,
                Retry, StopListener
  <2>7. CASE UNCHANGED vars BY <2>7 DEF vars
  <2> QED BY <2>1, <2>2, <2>3, <2>4, <2>5, <2>6, <2>7 DEF Next
<1> QED BY <1>2, <1>3, <1>4, <1>5, <1>6, <1>7

\* Where it can be.
LEMMA HandlerPhases ==
  ASSUME NEW k \in Conn
  PROVE  StreamInv =>
           /\ \/ At(k, "none") \/ At(k, "entered") \/ At(k, "select") \/ At(k, "write")
              \/ At(k, "flushed")
           /\ Subscribed(k) => ~At(k, "none") /\ ~At(k, "entered")
           /\ ~At(k, "entered") \/ ~At(k, "select")
           /\ Open(k) => ~At(k, "none")
           /\ Open(k) => At(k, "entered") \/ Subscribed(k)
BY DEF StreamInv, TypeOK, LooksInv, SubscribedHaveHandlers, ConnInv, OpenHasHandler, At,
       Subscribed, Open

LEMMA StreamIsStep == StreamInv /\ StreamInv' /\ [Next]_vars => StreamStep
BY DEF StreamStep

LEMMA HandlerEnds ==
  ASSUME NEW k \in Conn
  PROVE  HandlerFairness(k) /\ []StreamInv /\ [][Next]_vars
           => (~Open(k) ~> Open(k) \/ At(k, "none"))
BY HandlerStep, HandlerPhases, StreamIsStep, PTL
   DEF HandlerFairness, FairWhere, StrongFairWhere

\* Nobody stays subscribed for ever after the connection is gone (the deferred
\* unsubscribe of handleEvents), for any number of connections, provided that handlers run
\* and that the select of each takes the end of its request sooner or later.
THEOREM SubscribersDoEnd ==
  Spec /\ (\A k \in Conn : HandlerFairness(k)) => SubscribersEnd
<1>1. ASSUME NEW k \in Conn
      PROVE  Spec /\ HandlerFairness(k) => (k \notin open ~> k \notin subs \/ k \in open)
  <2>1. StreamInv /\ At(k, "none") => k \notin subs
    BY HandlerPhases DEF Subscribed
  <2>2. Open(k) <=> k \in open BY DEF Open
  <2> QED BY <2>1, <2>2, HandlerEnds, StreamInvariant, PTL DEF Spec
<1> QED BY <1>1 DEF SubscribersEnd

-----------------------------------------------------------------------------
(* Push comes back. Once nothing fails, the listener comes to read a connection that *)
(* is open, or to be stopped, for good. Then whatever is on its way makes it look;   *)
(* and a look at the last transition stays good.                                    *)

Off == listener = "off"
Sleeping == listener = "sleep"
Stopped == listener = "stopped"
Reading == listener = "read"
Up == Reading /\ current \in open
Vacant == \E k \in Conn : At(k, "none")
Waiting == Reading /\ wire[current] # 0

\* What ListenerFairness says.
ExplicitListenerFairness ==
  /\ FairWhere(Off, StartListener)
  /\ FairWhere(Connecting /\ Vacant, Connect)
  /\ FairWhere(Waiting, ReadEvent)
  /\ FairWhere(Reading /\ ~Up, StreamEnds)
  /\ FairWhere(Sleeping, Retry)

CalmStep == StreamStep /\ [~Disturbance]_vars

LEMMA ListenerStep ==
  /\ CalmStep =>
       /\ Off => Off' \/ Connecting'
       /\ Connecting => Connecting' \/ Up' \/ Stopped'
       /\ Up => Up' /\ current' = current
       /\ Reading => Reading' \/ Sleeping'
       /\ Sleeping => Sleeping' \/ Connecting'
       /\ Stopped => Stopped'
  /\ StreamInv =>
       /\ Off \/ Connecting \/ Reading \/ Sleeping \/ Stopped
       /\ ~(Connecting /\ Reading) /\ ~(Connecting /\ Sleeping) /\ ~(Sleeping /\ Reading)
       /\ ~(Off /\ Connecting)
       /\ Up => Reading
  /\ <<StartListener>>_vars \/ <<Retry>>_vars => Connecting'
  /\ <<Connect>>_vars => Up'
  /\ <<StreamEnds>>_vars => Sleeping'
<1> USE DEF Off, Connecting, Reading, Up, Sleeping, Stopped
<1>1. StreamInv =>
       /\ Off \/ Connecting \/ Reading \/ Sleeping \/ Stopped
       /\ ~(Connecting /\ Reading) /\ ~(Connecting /\ Sleeping) /\ ~(Sleeping /\ Reading)
       /\ ~(Off /\ Connecting)
       /\ Up => Reading
  BY DEF StreamInv, TypeOK
<1>2. StartListener \/ Retry => Connecting' BY DEF StartListener, Retry
<1>3. Connect => Up' BY DEF Connect
<1>4. StreamEnds => Sleeping' BY DEF StreamEnds
<1>5. ASSUME CalmStep
      PROVE  /\ Off => Off' \/ Connecting'
             /\ Connecting => Connecting' \/ Up' \/ Stopped'
             /\ Up => Up' /\ current' = current
             /\ Reading => Reading' \/ Sleeping'
             /\ Sleeping => Sleeping' \/ Connecting'
             /\ Stopped => Stopped'
  <2> USE DEF pluginVars, hubVars, handlerVars, netVars, listenerVars
  <2>1. CASE UNCHANGED vars BY <2>1 DEF vars
  <2>2. CASE Next /\ ~Disturbance
    <3>1. CASE Publish \/ Broadcast BY <3>1 DEF Publish, Broadcast
    <3>2. CASE \E k \in Conn : Handler(k)
      BY <3>2 DEF Handler, Subscribe, TakeMessage, WriteMessage, SelectAgain, EndHandler
    <3>3. CASE StartListener \/ Rejected \/ ReadEvent \/ StreamEnds \/ Retry
      BY <3>3 DEF StartListener, Rejected, ReadEvent, StreamEnds, Retry
    <3>4. CASE Connect BY <1>3, <3>4 DEF Connect
    <3> QED BY <2>2, <3>1, <3>2, <3>3, <3>4 DEF Next, Listener, Disturbance
  <2> QED BY <1>5, <2>1, <2>2 DEF CalmStep, StreamStep
<1> QED BY <1>1, <1>2, <1>3, <1>4, <1>5

LEMMA StepIsCalm ==
  StreamInv /\ StreamInv' /\ [Next]_vars /\ [~Disturbance]_vars => CalmStep
BY DEF StreamStep, CalmStep

\* There comes to be a place for a connection while the listener looks for one.
LEMMA PlaceFound ==
  ASSUME NEW k \in Conn
  PROVE  /\ HandlerFairness(k) /\ []StreamInv /\ [][Next]_vars /\ []Connecting
         => <>[]Vacant
<1>1. StreamInv /\ Connecting => ~Open(k)
  BY DEF StreamInv, ConnInv, OpenIsCurrent, Open, Connecting
<1>2. At(k, "none") => Vacant BY DEF Vacant
<1>3. StreamStep => (At(k, "none") => At(k, "none")' \/ (Connecting /\ ~Connecting'))
  BY HandlerStep
<1> QED BY <1>1, <1>2, <1>3, HandlerEnds, StreamIsStep, PTL

\* The listener comes to read an open connection, or is rejected.
LEMMA StreamComesUp ==
  /\ (\A k \in Conn : HandlerFairness(k)) /\ ExplicitListenerFairness
  /\ []StreamInv /\ [][Next]_vars /\ [][~Disturbance]_vars
  => <>[]Up \/ <>[]Stopped
<1>1. PICK k \in Conn : TRUE OBVIOUS
<1>2. (\A j \in Conn : HandlerFairness(j)) => HandlerFairness(k) OBVIOUS
<1>3. HandlerFairness(k) => []HandlerFairness(k)
  BY PTL DEF HandlerFairness, FairWhere, StrongFairWhere
<1>4. HandlerFairness(k) /\ []StreamInv /\ [][Next]_vars /\ []Connecting => <>[]Vacant
  BY PlaceFound
<1>5. /\ HandlerFairness(k) /\ ExplicitListenerFairness
      /\ []StreamInv /\ [][Next]_vars /\ [][~Disturbance]_vars
      => <>[]Up \/ <>[]Stopped
  BY <1>3, <1>4, ListenerStep, StepIsCalm, PTL DEF ExplicitListenerFairness, FairWhere
<1> QED BY <1>2, <1>5

On(k) == Up /\ current = k
Written(k) == wire[k] # 0
Queued(k) == buffer[k] # <<>>
Fresh == looked = version
Done(k) == looked >= sent \/ since[k] = sent

\* What happens to the stream that is up.
LEMMA OnStep ==
  ASSUME NEW k \in Conn
  PROVE  /\ CalmStep /\ On(k) =>
              /\ On(k)' /\ (Subscribed(k) => Subscribed(k)')
              /\ Written(k) => Written(k)' \/ <<ReadEvent>>_vars
              /\ At(k, "write") => At(k, "write")' \/ Written(k)'
              /\ Queued(k) /\ Subscribed(k) => Queued(k)' \/ At(k, "write")'
         /\ StreamInv /\ On(k) /\ <<WriteMessage(k)>>_vars => Written(k)'
<1> USE DEF On, Up, Reading, Subscribed, Written, Queued, At
<1>1. ASSUME StreamInv, On(k), WriteMessage(k) PROVE Written(k)'
  <2>1. held[k] # 0 BY <1>1 DEF WriteMessage, StreamInv, ConnInv, HeldToWrite
  <2> QED BY <1>1, <2>1 DEF WriteMessage, StreamInv, TypeOK
<1>2. ASSUME CalmStep, On(k)
      PROVE  /\ On(k)' /\ (Subscribed(k) => Subscribed(k)')
             /\ Written(k) => Written(k)' \/ <<ReadEvent>>_vars
             /\ At(k, "write") => At(k, "write")' \/ Written(k)'
             /\ Queued(k) /\ Subscribed(k) => Queued(k)' \/ At(k, "write")'
  <2> USE DEF pluginVars, hubVars, handlerVars, netVars, listenerVars
  <2>1. TypeOK /\ pc[k] # "none" /\ StreamInv
    BY <1>2, HandlerPhases DEF CalmStep, StreamStep, StreamInv, Open
  <2>2. On(k)' BY <1>2, ListenerStep DEF CalmStep
  <2>3. CASE UNCHANGED vars BY <2>2, <2>3 DEF vars
  <2>4. CASE Next /\ ~Disturbance
    <3>1. CASE Publish BY <2>2, <3>1 DEF Publish
    <3>2. CASE Broadcast
      <4>1. Append(buffer[k], sent + 1) # <<>>
        <5>1. buffer[k] \in Seq(Message) /\ sent + 1 \in Message
          BY <2>1, <3>2 DEF TypeOK, Broadcast, Message, Count
        <5> QED BY <5>1, AppendProperties
      <4> QED BY <2>1, <2>2, <3>2, <4>1 DEF Broadcast, TypeOK
    <3>3. ASSUME NEW j \in Conn, Handler(j) 
          PROVE  /\ Subscribed(k) => Subscribed(k)'
                 /\ Written(k) => Written(k)'
                 /\ At(k, "write") => At(k, "write")' \/ Written(k)'
                 /\ Queued(k) /\ Subscribed(k) => Queued(k)' \/ At(k, "write")'
      <4>1. CASE j = k
        <5>1. CASE WriteMessage(k)
          <6>1. Written(k)' BY <1>1, <1>2, <2>1, <5>1
          <6> QED BY <5>1, <6>1 DEF WriteMessage
        <5>2. CASE Subscribe(k) \/ TakeMessage(k) \/ SelectAgain(k)
          BY <2>1, <5>2 DEF TypeOK, Subscribe, TakeMessage, SelectAgain, StreamInv,
            LooksInv, SubscribedHaveHandlers
        <5>3. CASE EndHandler(k) BY <1>2, <5>3 DEF EndHandler
        <5> QED BY <3>3, <4>1, <5>1, <5>2, <5>3 DEF Handler
      <4>2. CASE j # k
        BY <2>1, <2>2, <3>3, <4>2 DEF TypeOK, Handler, Subscribe, TakeMessage,
          WriteMessage, SelectAgain, EndHandler
      <4> QED BY <4>1, <4>2
    <3>4. CASE ReadEvent
      <4>1. <<ReadEvent>>_vars
        BY <1>2, <2>1, <3>4 DEF ReadEvent, vars, TypeOK
      <4> QED BY <2>2, <3>4, <4>1 DEF ReadEvent
    <3>5. CASE StartListener \/ Connect \/ Rejected \/ StreamEnds \/ Retry
      BY <1>2, <3>5 DEF StartListener, Connect, Rejected, StreamEnds, Retry
    <3> QED BY <2>2, <2>4, <3>1, <3>2, <3>3, <3>4, <3>5 DEF Next, Listener, Disturbance
  <2> QED BY <1>2, <2>3, <2>4 DEF CalmStep, StreamStep
<1> QED BY <1>1, <1>2

\* An event on its way is read.
LEMMA EventIsRead ==
  ASSUME NEW k \in Conn
  PROVE  /\ HandlerFairness(k) /\ ExplicitListenerFairness
         /\ []StreamInv /\ [][Next]_vars /\ [][~Disturbance]_vars /\ []On(k)
         => <>[]Subscribed(k)
            /\ [](Subscribed(k) /\ (Written(k) \/ Queued(k) \/ At(k, "write"))
                    => <><<ReadEvent>>_vars)
<1>1. CalmStep => StreamStep BY DEF CalmStep
<1>2. StreamInv /\ On(k) => Open(k) /\ (Waiting <=> Written(k))
  BY DEF On, Up, Open, Waiting, Written
<1>3. /\ HandlerFairness(k) /\ ExplicitListenerFairness
      => /\ FairWhere(At(k, "entered"), Subscribe(k))
         /\ FairWhere(At(k, "write") /\ ~(Open(k) /\ Written(k)), WriteMessage(k))
         /\ FairWhere(At(k, "flushed"), SelectAgain(k))
         /\ FairWhere(At(k, "select") /\ Queued(k), TakeMessage(k))
         /\ FairWhere(Waiting, ReadEvent)
  BY DEF HandlerFairness, ExplicitListenerFairness, Written, Queued
<1>4. /\ StreamStep =>
           /\ At(k, "entered") => At(k, "entered")' \/ At(k, "select")' \/ At(k, "none")'
           /\ At(k, "select") => At(k, "select")' \/ At(k, "write")' \/ At(k, "none")'
           /\ At(k, "flushed") => At(k, "flushed")' \/ At(k, "select")' \/ At(k, "none")'
      /\ StreamInv /\ <<Subscribe(k)>>_vars => At(k, "select")'
      /\ StreamInv /\ <<SelectAgain(k)>>_vars => At(k, "select")'
      /\ StreamInv /\ <<TakeMessage(k)>>_vars => At(k, "write")'
  BY HandlerStep
<1>5. StreamInv =>
        /\ \/ At(k, "none") \/ At(k, "entered") \/ At(k, "select") \/ At(k, "write")
           \/ At(k, "flushed")
        /\ Subscribed(k) => ~At(k, "none") /\ ~At(k, "entered")
        /\ ~At(k, "entered") \/ ~At(k, "select")
        /\ Open(k) => ~At(k, "none")
        /\ Open(k) => At(k, "entered") \/ Subscribed(k)
  BY HandlerPhases
<1>6. /\ CalmStep /\ On(k) =>
           /\ Subscribed(k) => Subscribed(k)'
           /\ Written(k) => Written(k)' \/ <<ReadEvent>>_vars
           /\ At(k, "write") => At(k, "write")' \/ Written(k)'
           /\ Queued(k) /\ Subscribed(k) => Queued(k)' \/ At(k, "write")'
      /\ StreamInv /\ On(k) /\ <<WriteMessage(k)>>_vars => Written(k)'
  BY OnStep
<1>7. /\ HandlerFairness(k) /\ ExplicitListenerFairness
      /\ []StreamInv /\ [][Next]_vars /\ [][~Disturbance]_vars /\ []On(k)
      => <>[]Subscribed(k)
  BY <1>1, <1>2, <1>3, <1>4, <1>5, <1>6, StepIsCalm, PTL DEF FairWhere
<1>8. /\ HandlerFairness(k) /\ ExplicitListenerFairness
      /\ []StreamInv /\ [][Next]_vars /\ [][~Disturbance]_vars /\ []On(k)
      => [](Subscribed(k) /\ (Written(k) \/ Queued(k) \/ At(k, "write"))
              => <><<ReadEvent>>_vars)
  BY <1>1, <1>2, <1>3, <1>4, <1>5, <1>6, StepIsCalm, PTL DEF FairWhere
<1> QED BY <1>7, <1>8

\* A look at a snapshot that is the last one stays good, and while none is owed one, or
\* something is on its way (LooksAgain), nothing is missed.
LEMMA LookStep ==
  ASSUME NEW k \in Conn
  PROVE  /\ CalmStep /\ [~Publish]_vars /\ Fresh => Fresh'
         /\ StreamStep /\ <<ReadEvent>>_vars => Fresh'
         /\ StreamInv /\ Fresh => Done(k)
         /\ StreamInv /\ On(k) /\ Subscribed(k) =>
              Done(k) \/ Written(k) \/ Queued(k) \/ At(k, "write")
<1> USE DEF Fresh, Done
<1>1. ASSUME CalmStep, [~Publish]_vars, Fresh PROVE Fresh'
  <2> USE DEF pluginVars, hubVars, handlerVars, netVars, listenerVars
  <2>1. CASE UNCHANGED vars BY <1>1, <2>1 DEF vars
  <2>2. CASE Next /\ ~Disturbance /\ ~Publish
    BY <1>1, <2>2
    DEF Next, Disturbance, Broadcast, Handler, Subscribe, TakeMessage, WriteMessage,
        SelectAgain, EndHandler, Listener, StartListener, Connect, Rejected, ReadEvent,
        StreamEnds, Retry
  <2> QED BY <1>1, <2>1, <2>2 DEF CalmStep, StreamStep
<1>2. ReadEvent => Fresh' BY DEF ReadEvent, pluginVars
<1>3. ASSUME StreamInv, Fresh PROVE Done(k)
  BY <1>3 DEF StreamInv, TypeOK, Count, LooksInv, BroadcastAfterStore
<1>4. ASSUME StreamInv, On(k), Subscribed(k), ~Done(k)
      PROVE  Written(k) \/ Queued(k) \/ At(k, "write")
  <2>1. looked < sent /\ since[k] < sent
    BY <1>4 DEF StreamInv, TypeOK, Count, ConnInv, SinceIsPast
  <2>2. OnItsWay(k)
    BY <1>4, <2>1 DEF StreamInv, LooksInv, LooksAgain, On, Up, Subscribed
  <2> QED BY <1>4, <2>2 DEF StreamInv, ConnInv, HeldToWrite, OnItsWay, Written, Queued, At
<1> QED BY <1>1, <1>2, <1>3, <1>4

Recovered == Stopped \/ (Listening /\ (looked >= sent \/ since[current] = sent))

\* Once a stream stays up and nothing new is published, Home Assistant is up to date.
LEMMA CatchesUp ==
  ASSUME NEW k \in Conn
  PROVE  /\ HandlerFairness(k) /\ ExplicitListenerFairness
         /\ []StreamInv /\ [][Next]_vars /\ [][~Disturbance]_vars /\ [][~Publish]_vars
         /\ []Up /\ On(k)
         => <>[]Recovered
<1>1. CalmStep => StreamStep BY DEF CalmStep
<1>2. CalmStep /\ On(k) => On(k)' BY OnStep
<1>3. /\ HandlerFairness(k) /\ ExplicitListenerFairness
      /\ []StreamInv /\ [][Next]_vars /\ [][~Disturbance]_vars /\ []On(k)
      => <>[]Subscribed(k)
         /\ [](Subscribed(k) /\ (Written(k) \/ Queued(k) \/ At(k, "write"))
                 => <><<ReadEvent>>_vars)
  BY EventIsRead
<1>4. /\ CalmStep /\ [~Publish]_vars /\ Fresh => Fresh'
      /\ StreamStep /\ <<ReadEvent>>_vars => Fresh'
      /\ StreamInv /\ Fresh => Done(k)
      /\ StreamInv /\ On(k) /\ Subscribed(k) =>
           Done(k) \/ Written(k) \/ Queued(k) \/ At(k, "write")
  BY LookStep
<1>5. On(k) /\ Subscribed(k) /\ Done(k) => Recovered
  BY DEF On, Up, Reading, Subscribed, Done, Recovered, Listening
<1> QED BY <1>1, <1>2, <1>3, <1>4, <1>5, StepIsCalm, PTL

\* Once connections stop failing, Home Assistant comes to listen again and to have looked
\* at all that is announced, unless its token was rejected (listen_events, _event_loop), for
\* any capacity and any number of connections. That no more is published in the end follows
\* from MaxVersion in a run of TLC, and is a hypothesis here.
THEOREM PushDoesRecover ==
  /\ Spec /\ (\A k \in Conn : HandlerFairness(k)) /\ ExplicitListenerFairness
  /\ <>[][~Publish]_vars
  => PushRecovers
<1>1. (\A k \in Conn : HandlerFairness(k)) => [](\A k \in Conn : HandlerFairness(k))
  <2>1. ASSUME NEW k \in Conn PROVE HandlerFairness(k) => []HandlerFairness(k)
    BY PTL DEF HandlerFairness, FairWhere, StrongFairWhere
  <2>2. (\A k \in Conn : []HandlerFairness(k)) => [](\A k \in Conn : HandlerFairness(k))
    OBVIOUS
  <2> QED BY <2>1, <2>2
<1>2. /\ (\A k \in Conn : HandlerFairness(k)) /\ ExplicitListenerFairness
      /\ []StreamInv /\ [][Next]_vars /\ [][~Disturbance]_vars /\ [][~Publish]_vars
      /\ []Up
      => <>[]Recovered
  <2>1. ASSUME NEW k \in Conn
        PROVE  /\ HandlerFairness(k) /\ ExplicitListenerFairness
               /\ []StreamInv /\ [][Next]_vars /\ [][~Disturbance]_vars
               /\ [][~Publish]_vars /\ []Up /\ On(k)
               => <>[]Recovered
    BY CatchesUp
  <2>2. StreamInv /\ Up => \E k \in Conn : On(k)
    BY DEF StreamInv, TypeOK, Up, On
  <2>3. []StreamInv /\ []Up => \E k \in Conn : On(k) BY <2>2, PTL
  <2> QED BY <2>1, <2>3
<1>3. ExplicitListenerFairness => []ExplicitListenerFairness
  BY PTL DEF ExplicitListenerFairness, FairWhere
<1>4. Stopped => Recovered BY DEF Recovered
<1>5. Recovered <=> \/ listener = "stopped"
                    \/ Listening /\ (looked >= sent \/ since[current] = sent)
  BY DEF Recovered, Stopped
<1> QED BY <1>1, <1>2, <1>3, <1>4, <1>5, StreamComesUp, StreamInvariant, PTL
        DEF Spec, PushRecovers
=============================================================================
