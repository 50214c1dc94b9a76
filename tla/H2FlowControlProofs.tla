------------------------- MODULE H2FlowControlProofs -------------------------
(***************************************************************************)
(* Theorems about H2FlowControl, for every set of streams and every size   *)
(* of the windows: the sender keeps to what it was granted, no update is   *)
(* refused, a blocked stream has somebody to wake it, and the two ends     *)
(* agree on every window once nothing is under way.                        *)
(***************************************************************************)
EXTENDS H2FlowControl, TLAPS

\* What the sender knows of the increments of window 0, and the receiver of the bytes.
Applied == remote[0] + sent - DefaultWindow
Received == granted - local[0]

ConnUpdate(i) == control[i].kind = "window" /\ control[i].id = 0

\* The increments under way lie one behind the other, between applied and granted.
Grants ==
  /\ Applied <= granted
  /\ \A i \in DOMAIN control : ConnUpdate(i) =>
       Applied <= control[i].total - control[i].n /\ control[i].total <= granted
  /\ \A i, j \in DOMAIN control : i < j /\ ConnUpdate(i) /\ ConnUpdate(j) =>
       control[i].total <= control[j].total - control[j].n

\* So do the frames under way, between received and sent.
Flight ==
  /\ Received <= sent
  /\ \A i \in DOMAIN data : Received <= data[i].total - data[i].len /\ data[i].total <= sent
  /\ \A i, j \in DOMAIN data : i < j => data[i].total <= data[j].total - data[j].len

\* A frame is empty or of a length that is sent, and then on a stream.
FrameLengths == \A i \in DOMAIN data :
  data[i].len = 0 \/ (data[i].len \in Lens /\ data[i].id # 0)

\* The receiver refills its windows before they are empty, and never above the step.
Locals == /\ ConnMin <= local[0] /\ local[0] <= ConnStep
          /\ \A s \in Streams : StreamMin <= local[s] /\ local[s] <= StreamStep

\* An increment of a stream fills what at most one frame too many has taken.
StreamUpdates == \A i \in DOMAIN control :
  control[i].kind = "window" /\ control[i].id # 0 =>
    \E l \in Lens : control[i].n <= StreamStep - StreamMin + l

\* The SETTINGS come first, and until then the connection's window is the least.
Preface ==
  /\ initRemoteWindowSize = IF prefaceReceived THEN StreamStep ELSE DefaultWindow
  /\ \A i \in DOMAIN control : control[i].kind = "settings" =>
       i = 1 /\ ~prefaceReceived /\ control[i].n = StreamStep
  /\ ~prefaceReceived =>
       /\ control # <<>> /\ control[1].kind = "settings"
       /\ remote[0] <= DefaultWindow /\ \A s \in opened : remote[0] <= remote[s]
       /\ bstreams = {} /\ writeBlocked \subseteq blockedStreams

Waiting == /\ BlockedHasWaker /\ writeBlocked \subseteq opened
           /\ isOpen => prefaceReceived
           /\ unsent > 0 => armed

Inv == /\ TypeOK /\ Grants /\ Flight /\ FrameLengths /\ Locals /\ StreamUpdates
       /\ Preface /\ Waiting

Frame == [id : Windows, len : Nat, end : BOOLEAN, total : Nat]
Control == [kind : {"settings", "window"}, id : Windows, n : Nat, total : Nat]

-----------------------------------------------------------------------------
(* Constants, and sequences. *)

LEMMA ConstantTypes ==
  /\ DefaultWindow \in Nat /\ MaxWindow \in Nat /\ ConnStep \in Nat /\ StreamStep \in Nat
  /\ ConnMin \in Nat /\ StreamMin \in Nat /\ ConnMin > 0 /\ StreamMin > 0
  /\ ConnMin <= ConnStep /\ StreamMin <= StreamStep /\ DefaultWindow <= StreamStep
  /\ Lens \subseteq Nat /\ 0 \notin Streams /\ 0 \notin Lens
  /\ 0 \in Windows /\ Streams \subseteq Windows /\ Early \subseteq Streams
<1>1. \A x, y \in Nat : LimitMin(x, y) \in Nat /\ LimitMin(x, y) <= y
  <2>1. \A y \in Nat : y \div 2 \in Nat /\ y \div 2 <= y
    BY SMT
  <2> QED BY <2>1 DEF LimitMin
<1>2. ConnMin \in Nat /\ ConnMin <= ConnStep
  BY <1>1, FlowBounds DEF ConnMin
<1>3. StreamMin \in Nat /\ StreamMin <= StreamStep
  BY <1>1, FlowBounds DEF StreamMin
<1> QED BY <1>2, <1>3, FlowBounds DEF Windows

LEMMA AtMost == \A a, b, c \in Int : a <= b /\ b <= c => a <= c
OBVIOUS

LEMMA NatsAreInts == \A n \in Nat : n \in Int
OBVIOUS

LEMMA Appended ==
  ASSUME NEW S, NEW q \in Seq(S), NEW e \in S
  PROVE  /\ Append(q, e) \in Seq(S) /\ Len(Append(q, e)) = Len(q) + 1
         /\ DOMAIN Append(q, e) = 1..(Len(q) + 1) /\ DOMAIN q = 1..Len(q)
         /\ \A i \in DOMAIN q : Append(q, e)[i] = q[i]
         /\ Append(q, e)[Len(q) + 1] = e
         /\ Append(q, e) # <<>>
OBVIOUS

LEMMA Rest ==
  ASSUME NEW S, NEW q \in Seq(S), q # <<>>
  PROVE  /\ Tail(q) \in Seq(S) /\ Len(Tail(q)) = Len(q) - 1 /\ Len(q) > 0
         /\ DOMAIN Tail(q) = 1..(Len(q) - 1) /\ DOMAIN q = 1..Len(q)
         /\ \A i \in DOMAIN Tail(q) : Tail(q)[i] = q[i + 1] /\ i + 1 \in DOMAIN q
         /\ Head(q) = q[1] /\ q[1] \in S
OBVIOUS

LEMMA InitInv == Init => Inv
<1> SUFFICES ASSUME Init PROVE Inv
  OBVIOUS
<1> USE ConstantTypes
<1>1. TypeOK
  <2>1. data \in Seq(Frame) /\ Len(data) = 1
    BY DEF Init, Frame
  <2>2. control \in Seq(Control)
    BY DEF Init, Control
  <2>3. /\ remote \in [Windows -> Nat] /\ local \in [Windows -> Int]
        /\ excess \in [Streams -> Nat]
    BY DEF Init
  <2>4. data \in Seq([id : Windows, len : Nat, end : BOOLEAN, total : Nat])
    BY <2>1 DEF Frame
  <2>5. control \in Seq([kind : {"settings", "window"}, id : Windows, n : Nat, total : Nat])
    BY <2>2 DEF Control
  <2>6. unsent \in Nat /\ unsent <= Len(data)
    BY <2>1 DEF Init
  <2>7. /\ isOpen \in BOOLEAN /\ closed \in BOOLEAN /\ prefaceReceived \in BOOLEAN
        /\ armed \in BOOLEAN
        /\ opened \subseteq Streams /\ ended \subseteq Streams
        /\ writeBlocked \subseteq Streams /\ blockedStreams \subseteq Streams
        /\ bstreams \subseteq Streams
        /\ initRemoteWindowSize \in Nat /\ sent \in Nat /\ granted \in Nat
    BY DEF Init
  <2> QED BY <2>3, <2>4, <2>5, <2>6, <2>7 DEF TypeOK
<1>2. Grants /\ StreamUpdates
  BY DEF Init, Grants, StreamUpdates, Applied, ConnUpdate
<1>3. Flight /\ FrameLengths /\ Locals
  BY DEF Init, Flight, FrameLengths, Locals, Received
<1>4. Preface
  BY DEF Init, Preface, Windows
<1>5. Waiting
  BY DEF Init, Waiting, BlockedHasWaker
<1> QED BY <1>1, <1>2, <1>3, <1>4, <1>5 DEF Inv
-----------------------------------------------------------------------------
(* What leaves a part of the state alone preserves the part of Inv about it. *)

LEMMA SameGrants ==
  ASSUME Grants, control' = control, granted' = granted, Applied' = Applied
  PROVE  Grants'
BY DEF Grants, ConnUpdate

LEMMA SameFlight ==
  ASSUME Flight, FrameLengths, Locals, data' = data, sent' = sent, granted' = granted,
         local' = local
  PROVE  Flight' /\ FrameLengths' /\ Locals'
BY DEF Flight, FrameLengths, Locals, Received

LEMMA SameStreamUpdates ==
  ASSUME StreamUpdates, control' = control
  PROVE  StreamUpdates'
BY DEF StreamUpdates

\* A step of the sender that touches neither windows nor frames.
LEMMA Quiet ==
  ASSUME Inv, TypeOK', Preface', Waiting',
         UNCHANGED <<remote, data, control, local, sent, granted>>
  PROVE  Inv'
<1>1. Applied' = Applied
  BY DEF Applied
<1> QED BY <1>1, SameGrants, SameFlight, SameStreamUpdates DEF Inv

-----------------------------------------------------------------------------
(* The sender. *)

LEMMA OpenStreamInv ==
  ASSUME Inv, NEW s \in Streams, OpenStream(s)
  PROVE  Inv'
<1> USE ConstantTypes
<1>1. remote' \in [Windows -> Nat] /\ \A w \in Windows : w # s => remote'[w] = remote[w]
  BY DEF Inv, TypeOK, OpenStream
<1>2. remote'[0] = remote[0] /\ Applied' = Applied
  BY <1>1 DEF OpenStream, Applied
<1>3. TypeOK'
  BY <1>1 DEF Inv, TypeOK, OpenStream
<1>4. Preface'
  BY DEF Inv, Preface, Waiting, OpenStream
<1>5. Waiting'
  <2>1. \A t \in writeBlocked : remote'[t] = remote[t]
    BY <1>1 DEF Inv, TypeOK, Waiting, OpenStream
  <2>2. BlockedHasWaker'
    BY <2>1, <1>2 DEF Inv, Waiting, BlockedHasWaker, OpenStream
  <2> QED BY <2>2 DEF Inv, Waiting, OpenStream
<1> QED BY <1>2, <1>3, <1>4, <1>5, SameGrants, SameFlight, SameStreamUpdates
        DEF Inv, OpenStream

LEMMA NoWindowInv ==
  ASSUME Inv, NEW s \in Streams, NoWindow(s)
  PROVE  Inv'
<1> USE ConstantTypes
<1>1. remote[s] \in Nat /\ remote[0] \in Nat /\ (remote[s] = 0 \/ remote[0] = 0)
  BY DEF Inv, TypeOK, NoWindow, Window, Least, Positive
<1>2. s \in opened /\ s \notin writeBlocked
  BY DEF NoWindow, CanSend
<1>3. TypeOK'
  BY DEF Inv, TypeOK, NoWindow, Wait
<1>4. Preface'
  <2>1. ~prefaceReceived => remote[0] = 0
    BY <1>1, <1>2 DEF Inv, Preface
  <2>2. ~prefaceReceived => s \in blockedStreams'
    BY <2>1 DEF NoWindow, Wait, Positive
  <2> QED BY <2>2 DEF Inv, Preface, NoWindow, Wait
<1>5. Waiting'
  <2>1. remote[s] = 0 \/ (s \in blockedStreams' /\ remote[0] = 0)
    BY <1>1 DEF NoWindow, Wait, Positive
  <2>2. BlockedHasWaker'
    BY <2>1 DEF Inv, Waiting, BlockedHasWaker, NoWindow, Wait
  <2> QED BY <1>2, <2>2 DEF Inv, Waiting, NoWindow, Wait
<1> QED BY <1>3, <1>4, <1>5, Quiet DEF NoWindow

LEMMA RefusedInv ==
  ASSUME Inv, NEW s \in Streams, NEW n \in Lens, Refused(s, n)
  PROVE  Inv'
<1> USE ConstantTypes
<1>1. TypeOK'
  BY DEF Inv, TypeOK, Refused, Wait
<1>2. Preface'
  BY DEF Inv, Preface, Refused, Wait
<1>3. Waiting'
  <2>1. armed \/ remote[0] < ConnMin + DefaultWindow
    BY FramesFit DEF Inv, TypeOK, Waiting, Refused, TooLarge, Positive
  <2>2. BlockedHasWaker'
    BY <2>1 DEF Inv, Waiting, BlockedHasWaker, Refused, Wait
  <2> QED BY <2>2 DEF Inv, Waiting, Refused, Wait, CanSend
<1> QED BY <1>1, <1>2, <1>3, Quiet DEF Refused

\* A frame behind the others keeps them in order.
LEMMA BufferedFrame ==
  ASSUME Inv, NEW f \in Frame, Buffer(f), f.len = 0 \/ (f.len \in Lens /\ f.id # 0),
         f.total = sent + f.len, sent' = f.total, UNCHANGED <<granted, local>>
  PROVE  /\ Flight' /\ FrameLengths' /\ Locals'
         /\ data' \in Seq(Frame) /\ unsent' \in Nat /\ unsent' <= Len(data')
         /\ armed' \in BOOLEAN /\ (armed => armed') /\ (unsent' > 0 => armed')
<1>1. /\ data \in Seq(Frame) /\ unsent \in Nat /\ unsent <= Len(data) /\ armed \in BOOLEAN
      /\ sent \in Nat /\ granted \in Nat /\ local[0] \in Int
  BY ConstantTypes DEF Inv, TypeOK, Frame
<1>2. data' = Append(data, f) /\ unsent' \in 0..(unsent + 1)
      /\ armed' = (armed \/ unsent' > 0)
  BY DEF Buffer
<1>3. /\ data' \in Seq(Frame) /\ Len(data') = Len(data) + 1 /\ Len(data) \in Nat
      /\ DOMAIN data' = 1..(Len(data) + 1) /\ DOMAIN data = 1..Len(data)
      /\ \A i \in DOMAIN data : data'[i] = data[i]
      /\ data'[Len(data) + 1] = f
  BY <1>1, <1>2, Appended
<1>4. \A i \in DOMAIN data : data[i] \in Frame
  BY <1>1
<1>5. f.len \in Nat /\ f.total \in Nat /\ \A i \in DOMAIN data :
        data[i].len \in Nat /\ data[i].total \in Nat
  BY <1>4 DEF Frame
<1>6. Received' = Received /\ Received \in Int /\ Received <= sent
  BY <1>1 DEF Received, Inv, Flight
<1>7. Flight'
  <2>1. \A i \in DOMAIN data' :
          Received' <= data'[i].total - data'[i].len /\ data'[i].total <= sent'
    <3> SUFFICES ASSUME NEW i \in DOMAIN data'
                 PROVE  Received' <= data'[i].total - data'[i].len /\ data'[i].total <= sent'
      OBVIOUS
    <3>1. CASE i \in DOMAIN data
      <4>1. Received <= data[i].total - data[i].len /\ data[i].total <= sent
        BY <3>1 DEF Inv, Flight
      <4> QED BY <4>1, <3>1, <1>1, <1>3, <1>5, <1>6
    <3>2. CASE i = Len(data) + 1
      BY <3>2, <1>1, <1>3, <1>5, <1>6
    <3> QED BY <3>1, <3>2, <1>3
  <2>2. \A i, j \in DOMAIN data' : i < j => data'[i].total <= data'[j].total - data'[j].len
    <3> SUFFICES ASSUME NEW i \in DOMAIN data', NEW j \in DOMAIN data', i < j
                 PROVE  data'[i].total <= data'[j].total - data'[j].len
      OBVIOUS
    <3>1. i \in DOMAIN data
      BY <1>3
    <3>2. CASE j \in DOMAIN data
      BY <3>1, <3>2, <1>3 DEF Inv, Flight
    <3>3. CASE j = Len(data) + 1
      <4>1. data[i].total <= sent
        BY <3>1 DEF Inv, Flight
      <4> QED BY <4>1, <3>1, <3>3, <1>1, <1>3, <1>5
    <3> QED BY <3>2, <3>3, <1>3
  <2>3. Received' <= sent'
    BY <1>1, <1>5, <1>6
  <2> QED BY <2>1, <2>2, <2>3 DEF Flight
<1>8. FrameLengths'
  <2> SUFFICES ASSUME NEW i \in DOMAIN data'
               PROVE  data'[i].len = 0 \/ (data'[i].len \in Lens /\ data'[i].id # 0)
    BY DEF FrameLengths
  <2>1. CASE i \in DOMAIN data
    BY <2>1, <1>3 DEF Inv, FrameLengths
  <2>2. CASE i = Len(data) + 1
    BY <2>2, <1>3
  <2> QED BY <2>1, <2>2, <1>3
<1>9. Locals'
  BY DEF Inv, Locals
<1>10. unsent' \in Nat /\ unsent' <= Len(data')
  BY <1>1, <1>2, <1>3
<1>11. armed' \in BOOLEAN /\ (armed => armed') /\ (unsent' > 0 => armed')
  BY <1>1, <1>2
<1> QED BY <1>3, <1>7, <1>8, <1>9, <1>10, <1>11

LEMMA SendDataInv ==
  ASSUME Inv, NEW s \in Streams, NEW n \in Lens, SendData(s, n)
  PROVE  Inv'
<1> DEFINE slen == Least(Window(s), n)
           f == [id |-> s, len |-> n, end |-> FALSE, total |-> sent + n]
<1> USE ConstantTypes
<1>1. /\ remote[s] \in Nat /\ remote[0] \in Nat /\ n \in Nat /\ n <= remote[0]
      /\ slen \in Nat /\ slen <= n /\ slen <= remote[s]
      /\ slen < n => slen = remote[s]
  BY DEF Inv, TypeOK, SendData, TooLarge, Window, Least, Positive
<1>2. /\ remote' = [remote EXCEPT ![0] = @ - n, ![s] = @ - slen]
      /\ sent' = sent + n /\ excess' = [excess EXCEPT ![s] = @ + (n - slen)]
      /\ s \in opened \ ended /\ s \notin writeBlocked
  BY DEF SendData, CanSend
<1>3. /\ remote'[0] = remote[0] - n /\ remote'[s] = remote[s] - slen
      /\ \A t \in Windows : t # 0 /\ t # s => remote'[t] = remote[t]
  BY <1>2 DEF Inv, TypeOK
<1>4. Applied' = Applied
  BY <1>1, <1>2, <1>3 DEF Applied, Inv, TypeOK
<1>5. f \in Frame /\ f.len = n /\ f.id # 0 /\ f.total = sent + n
  BY DEF Inv, TypeOK, Frame
<1>6. /\ Flight' /\ FrameLengths' /\ Locals'
      /\ data' \in Seq(Frame) /\ unsent' \in Nat /\ unsent' <= Len(data')
      /\ armed' \in BOOLEAN /\ (armed => armed') /\ (unsent' > 0 => armed')
  <2>1. Buffer(f) /\ UNCHANGED <<granted, local>>
    BY DEF SendData
  <2> QED BY <2>1, <1>2, <1>5, BufferedFrame
<1>7. TypeOK'
  <2>1. remote' \in [Windows -> Nat]
    <3>1. remote \in [Windows -> Nat] /\ s # 0
      BY DEF Inv, TypeOK
    <3>2. remote[0] - n \in Nat /\ remote[s] - slen \in Nat
      BY <1>1
    <3> HIDE DEF slen
    <3> QED BY <1>2, <3>1, <3>2
  <2>2. excess' \in [Streams -> Nat]
    BY <1>1, <1>2 DEF Inv, TypeOK
  <2>3. writeBlocked' \subseteq Streams /\ blockedStreams' \subseteq Streams
    BY DEF Inv, TypeOK, SendData, Wait
  <2>4. sent' \in Nat
    BY <1>1, <1>2 DEF Inv, TypeOK
  <2> QED BY <1>6, <2>1, <2>2, <2>3, <2>4 DEF Inv, TypeOK, Frame, SendData
<1>8. Preface'
  <2>1. \A t \in opened : remote[0] <= remote[t] => remote'[0] <= remote'[t]
    <3> SUFFICES ASSUME NEW t \in opened, remote[0] <= remote[t]
                 PROVE  remote'[0] <= remote'[t]
      OBVIOUS
    <3>1. t \in Windows /\ t # 0 /\ remote[t] \in Nat
      BY DEF Inv, TypeOK
    <3> QED BY <1>1, <1>3, <3>1
  <2>2. ~prefaceReceived => writeBlocked' \subseteq blockedStreams'
    BY DEF Inv, Preface, SendData, Wait
  <2>3. remote[0] <= DefaultWindow => remote'[0] <= DefaultWindow
    BY <1>1, <1>3
  <2> QED BY <2>1, <2>2, <2>3 DEF Inv, Preface, SendData
<1>9. Waiting'
  <2>1. \A t \in writeBlocked : t # s /\ t # 0 /\ remote'[t] = remote[t]
    BY <1>2, <1>3 DEF Inv, TypeOK
  <2>2. s \in writeBlocked' => remote'[s] = 0
    <3>1. slen < n \/ writeBlocked' = writeBlocked
      BY DEF SendData
    <3> QED BY <3>1, <1>1, <1>2, <1>3
  <2>3. /\ writeBlocked' \subseteq writeBlocked \cup {s}
        /\ blockedStreams \subseteq blockedStreams' /\ bstreams' = bstreams
    BY DEF SendData, Wait
  <2>4. BlockedHasWaker'
    <3> SUFFICES ASSUME NEW t \in writeBlocked', ~closed
                 PROVE  \/ remote'[t] <= 0
                        \/ t \in bstreams'
                        \/ t \in blockedStreams' /\ (armed' \/ remote'[0] < ConnMin + DefaultWindow)
      BY DEF BlockedHasWaker, SendData
    <3>1. CASE t = s
      BY <3>1, <2>2
    <3>2. CASE t \in writeBlocked
      <4>1. \/ remote[t] <= 0
            \/ t \in bstreams
            \/ t \in blockedStreams /\ (armed \/ remote[0] < ConnMin + DefaultWindow)
        BY <3>2 DEF Inv, Waiting, BlockedHasWaker
      <4> QED BY <4>1, <3>2, <2>1, <2>3, <1>1, <1>3, <1>6
    <3> QED BY <3>1, <3>2, <2>3
  <2>5. writeBlocked' \subseteq opened'
    BY <2>3, <1>2 DEF Inv, Waiting, SendData
  <2> QED BY <2>4, <2>5, <1>6 DEF Inv, Waiting, SendData
<1>10. Grants' /\ StreamUpdates'
  BY <1>4, SameGrants, SameStreamUpdates DEF Inv, SendData
<1> QED BY <1>6, <1>7, <1>8, <1>9, <1>10 DEF Inv

LEMMA SendEndInv ==
  ASSUME Inv, NEW s \in Streams, SendEnd(s)
  PROVE  Inv'
<1> DEFINE f == [id |-> s, len |-> 0, end |-> TRUE, total |-> sent]
<1> USE ConstantTypes
<1>1. f \in Frame /\ f.len = 0 /\ f.total = sent + 0
  BY DEF Inv, TypeOK, Frame
<1>2. /\ Flight' /\ FrameLengths' /\ Locals'
      /\ data' \in Seq(Frame) /\ unsent' \in Nat /\ unsent' <= Len(data')
      /\ armed' \in BOOLEAN /\ (armed => armed') /\ (unsent' > 0 => armed')
  <2>1. Buffer(f) /\ UNCHANGED <<granted, local>> /\ sent' = f.total
    BY DEF SendEnd
  <2>2. f.len = 0 /\ f.total = sent + f.len
    BY <1>1
  <2> QED BY <2>1, <2>2, <1>1, BufferedFrame
<1>3. TypeOK'
  BY <1>2 DEF Inv, TypeOK, Frame, SendEnd
<1>4. Preface'
  BY DEF Inv, Preface, SendEnd
<1>5. Waiting'
  BY <1>2 DEF Inv, Waiting, BlockedHasWaker, SendEnd
<1>6. Applied' = Applied
  BY DEF Applied, SendEnd
<1>7. Grants' /\ StreamUpdates'
  BY <1>6, SameGrants, SameStreamUpdates DEF Inv, SendEnd
<1> QED BY <1>2, <1>3, <1>4, <1>5, <1>7 DEF Inv

-----------------------------------------------------------------------------
(* Waking blocked streams. *)

LEMMA NotifyNextInv ==
  ASSUME Inv, NEW s \in Streams, NotifyNext(s)
  PROVE  Inv'
<1>1. TypeOK'
  BY DEF Inv, TypeOK, NotifyNext
<1>2. Preface'
  BY DEF Inv, Preface, NotifyNext
<1>3. Waiting'
  BY DEF Inv, Waiting, BlockedHasWaker, NotifyNext
<1> QED BY <1>1, <1>2, <1>3, Quiet DEF NotifyNext

LEMMA NotifyEndInv ==
  ASSUME Inv, NotifyEnd
  PROVE  Inv'
<1> USE ConstantTypes
<1>1. TypeOK'
  BY DEF Inv, TypeOK, NotifyEnd, LeftOver
<1>2. Preface'
  BY DEF Inv, Preface, NotifyEnd, Dispatching
<1>3. Waiting'
  <2>1. armed \/ remote[0] < ConnMin + DefaultWindow
    BY DEF Inv, TypeOK, Waiting, NotifyEnd
  <2> QED BY <2>1 DEF Inv, Waiting, BlockedHasWaker, NotifyEnd, LeftOver
<1> QED BY <1>1, <1>2, <1>3, Quiet DEF NotifyEnd

LEMMA WriteEventInv ==
  ASSUME Inv, WriteEvent
  PROVE  Inv'
<1> USE ConstantTypes
<1>1. /\ unsent' \in 0..unsent /\ unsent \in Nat /\ armed' = (unsent' > 0)
      /\ bstreams = {} /\ remote[0] \in Nat
  BY DEF Inv, TypeOK, WriteEvent, Dispatching
<1>2. \/ UNCHANGED <<bstreams, blockedStreams>>
      \/ bstreams' = blockedStreams /\ blockedStreams' = {} /\ isOpen'
  BY DEF WriteEvent, Notify
<1>3. TypeOK'
  <2>1. unsent' \in Nat /\ unsent' <= Len(data) /\ armed' \in BOOLEAN
    BY <1>1 DEF Inv, TypeOK
  <2>2. isOpen' \in BOOLEAN
    BY DEF WriteEvent
  <2> QED BY <1>2, <2>1, <2>2 DEF Inv, TypeOK, WriteEvent
<1>4. isOpen' => prefaceReceived
  BY DEF Inv, Waiting, WriteEvent
<1>5. Preface'
  BY <1>1, <1>2, <1>4 DEF Inv, Preface, WriteEvent
<1>6. closed \/ armed' \/ remote[0] < ConnMin + DefaultWindow \/ bstreams' = blockedStreams
  <2>1. CASE unsent' > 0
    BY <2>1, <1>1
  <2>2. CASE unsent' = 0 /\ ~prefaceReceived
    <3>1. remote[0] <= DefaultWindow
      BY <2>2 DEF Inv, Preface
    <3> QED BY <3>1, <1>1
  <2>3. CASE unsent' = 0 /\ prefaceReceived /\ ~closed
    <3>1. isOpen'
      BY <2>3 DEF WriteEvent
    <3>2. CASE remote[0] > 0
      BY <3>1, <3>2, <2>3 DEF WriteEvent, Notify
    <3>3. CASE remote[0] = 0
      BY <3>3
    <3> QED BY <3>2, <3>3, <1>1
  <2> QED BY <2>1, <2>2, <2>3, <1>1
<1>7. Waiting'
  <2>1. BlockedHasWaker'
    BY <1>1, <1>2, <1>6 DEF Inv, Waiting, BlockedHasWaker, WriteEvent
  <2> QED BY <2>1, <1>1, <1>4 DEF Inv, Waiting, WriteEvent
<1> QED BY <1>3, <1>5, <1>7, Quiet DEF WriteEvent

LEMMA RefuseUpdateInv ==
  ASSUME Inv, RefuseUpdate
  PROVE  Inv'
<1>1. TypeOK'
  BY DEF Inv, TypeOK, RefuseUpdate
<1>2. Preface'
  BY DEF Inv, Preface, RefuseUpdate
<1>3. Waiting'
  BY DEF Inv, Waiting, BlockedHasWaker, RefuseUpdate
<1> QED BY <1>1, <1>2, <1>3, Quiet DEF RefuseUpdate

-----------------------------------------------------------------------------
(* What arrives at the sender. *)

\* Taking the first control frame leaves the rest as it was.
LEMMA ControlTaken ==
  ASSUME Inv, control # <<>>, control' = Tail(control)
  PROVE  /\ control' \in Seq(Control) /\ Head(control) = control[1] /\ control[1] \in Control
         /\ \A i \in DOMAIN control' :
              i + 1 \in DOMAIN control /\ control'[i] = control[i + 1] /\ i \in Nat
         /\ 1 \in DOMAIN control /\ DOMAIN control' \subseteq Nat \ {0}
         /\ \A i \in DOMAIN control' : control'[i].kind # "settings"
         /\ StreamUpdates'
<1>1. control \in Seq(Control)
  BY DEF Inv, TypeOK, Control
<1>2. /\ control' \in Seq(Control) /\ Len(control) > 0
      /\ DOMAIN control' = 1..(Len(control) - 1) /\ DOMAIN control = 1..Len(control)
      /\ \A i \in DOMAIN control' : control'[i] = control[i + 1] /\ i + 1 \in DOMAIN control
      /\ Head(control) = control[1] /\ control[1] \in Control
  BY <1>1, Rest
<1>3. Len(control) \in Nat
  BY <1>1
<1>4. \A i \in DOMAIN control' : i \in Nat /\ i # 0 /\ i + 1 # 1
  BY <1>2, <1>3
<1>5. \A i \in DOMAIN control' : control'[i].kind # "settings"
  BY <1>2, <1>4 DEF Inv, Preface
<1>6. StreamUpdates'
  BY <1>2 DEF Inv, StreamUpdates
<1>7. 1 \in DOMAIN control
  BY <1>2, <1>3
<1> QED BY <1>2, <1>4, <1>5, <1>6, <1>7

\* What was applied may reach the first increment and no further.
LEMMA GrantsTaken ==
  ASSUME Inv, control # <<>>, control' = Tail(control), granted' = granted,
         \/ Applied' = Applied
         \/ ConnUpdate(1) /\ Applied' = Applied + control[1].n
  PROVE  Grants'
<1>1. /\ \A i \in DOMAIN control' :
           i + 1 \in DOMAIN control /\ control'[i] = control[i + 1] /\ i \in Nat /\ i # 0
      /\ control \in Seq(Control) /\ 1 \in DOMAIN control /\ control' \in Seq(Control)
  BY ControlTaken DEF Inv, TypeOK, Control
<1>2. /\ \A i \in DOMAIN control : control[i].n \in Nat /\ control[i].total \in Nat
      /\ granted \in Nat /\ Applied \in Int
  <2>1. \A i \in DOMAIN control : control[i] \in Control
    BY <1>1
  <2>2. granted \in Nat /\ remote[0] \in Nat /\ sent \in Nat
    BY ConstantTypes DEF Inv, TypeOK
  <2> QED BY <2>1, <2>2, ConstantTypes DEF Control, Applied
<1>3. Applied' <= granted'
  BY <1>1, <1>2 DEF Inv, Grants
<1>4. \A i \in DOMAIN control' : ConnUpdate(i)' =>
        Applied' <= control'[i].total - control'[i].n /\ control'[i].total <= granted'
  <2> SUFFICES ASSUME NEW i \in DOMAIN control', ConnUpdate(i)'
               PROVE  Applied' <= control'[i].total - control'[i].n
                      /\ control'[i].total <= granted'
    OBVIOUS
  <2> DEFINE k == i + 1
  <2>1. k \in DOMAIN control /\ control'[i] = control[k] /\ 1 < k /\ k \in Nat
    BY <1>1
  <2>2. ConnUpdate(k)
    BY <2>1 DEF ConnUpdate
  <2> HIDE DEF k
  <2>3. Applied <= control[k].total - control[k].n /\ control[k].total <= granted
    BY <2>1, <2>2 DEF Inv, Grants
  <2>4. ConnUpdate(1) =>
          /\ control[1].total <= control[k].total - control[k].n
          /\ Applied <= control[1].total - control[1].n
    BY <1>1, <2>1, <2>2 DEF Inv, Grants
  <2>5. /\ control[1].n \in Nat /\ control[1].total \in Nat
        /\ control[k].n \in Nat /\ control[k].total \in Nat
    BY <1>1, <1>2, <2>1
  <2>6. Applied' <= control[k].total - control[k].n
    <3>1. CASE Applied' = Applied
      BY <3>1, <2>3
    <3>2. CASE ConnUpdate(1) /\ Applied' = Applied + control[1].n
      <4>1. /\ Applied <= control[1].total - control[1].n
            /\ control[1].total <= control[k].total - control[k].n
        BY <3>2, <2>4
      <4>2. Applied + control[1].n <= control[1].total
        BY <4>1, <1>2, <2>5
      <4>3. Applied \in Int
        BY <1>2
      <4>4. Applied + control[1].n <= control[k].total - control[k].n
        <5>1. /\ Applied + control[1].n \in Int /\ control[1].total \in Int
              /\ control[k].total - control[k].n \in Int
          BY <4>3, <2>5, SMTT(60)
        <5> QED BY <5>1, <4>1, <4>2, AtMost, Zenon
      <4> QED BY <4>4, <3>2
    <3> QED BY <3>1, <3>2
  <2> QED BY <2>1, <2>3, <2>6
<1>5. \A i, j \in DOMAIN control' : i < j /\ ConnUpdate(i)' /\ ConnUpdate(j)' =>
        control'[i].total <= control'[j].total - control'[j].n
  <2> SUFFICES ASSUME NEW i \in DOMAIN control', NEW j \in DOMAIN control',
                      i < j, ConnUpdate(i)', ConnUpdate(j)'
               PROVE  control'[i].total <= control'[j].total - control'[j].n
    OBVIOUS
  <2>1. ConnUpdate(i + 1) /\ ConnUpdate(j + 1) /\ i + 1 < j + 1
    BY <1>1 DEF ConnUpdate
  <2>2. control[i + 1].total <= control[j + 1].total - control[j + 1].n
    BY <1>1, <2>1 DEF Inv, Grants
  <2> QED BY <1>1, <2>2
<1> QED BY <1>3, <1>4, <1>5 DEF Grants

LEMMA RecvSettingsInv ==
  ASSUME Inv, RecvSettings
  PROVE  Inv'
<1> DEFINE f == [id |-> 0, len |-> 0, end |-> FALSE, total |-> sent]
           delta == Head(control).n - initRemoteWindowSize
<1> USE ConstantTypes
<1>1. /\ control # <<>> /\ control' = Tail(control) /\ Head(control).kind = "settings"
      /\ bstreams = {}
  BY DEF RecvSettings, Incoming, Arrives, Dispatching
<1>2. /\ control' \in Seq(Control) /\ Head(control) = control[1] /\ control[1] \in Control
      /\ 1 \in DOMAIN control /\ \A i \in DOMAIN control' : control'[i].kind # "settings"
      /\ StreamUpdates'
  BY <1>1, ControlTaken
<1>3. /\ ~prefaceReceived /\ Head(control).n = StreamStep
      /\ initRemoteWindowSize = DefaultWindow
  BY <1>1, <1>2 DEF Inv, Preface
<1>4. /\ \A w \in opened : w \in Windows /\ remote'[w] = remote[w] + (StreamStep - DefaultWindow)
      /\ remote'[0] = remote[0] /\ remote' \in [Windows -> Nat]
  <2>1. 0 \notin opened /\ opened \subseteq Windows /\ remote \in [Windows -> Nat]
    BY DEF Inv, TypeOK
  <2>2. remote' = [w \in Windows |->
          IF w \in opened THEN remote[w] + (StreamStep - DefaultWindow) ELSE remote[w]]
    BY <1>3 DEF RecvSettings, Raised
  <2> QED BY <2>1, <2>2
<1>5. f \in Frame /\ f.len = 0 /\ f.total = sent + f.len
  BY DEF Inv, TypeOK, Frame
<1>6. /\ Flight' /\ FrameLengths' /\ Locals'
      /\ data' \in Seq(Frame) /\ unsent' \in Nat /\ unsent' <= Len(data')
      /\ armed' \in BOOLEAN /\ (armed => armed') /\ (unsent' > 0 => armed')
  <2>1. Buffer(f) /\ UNCHANGED <<granted, local>> /\ sent' = f.total
    BY DEF RecvSettings
  <2> QED BY <2>1, <1>5, BufferedFrame
<1>7. TypeOK'
  <2>1. initRemoteWindowSize' \in Nat /\ isOpen' \in BOOLEAN /\ prefaceReceived' \in BOOLEAN
    BY <1>3 DEF RecvSettings
  <2> QED BY <1>2, <1>4, <1>6, <2>1 DEF Inv, TypeOK, Frame, Control, RecvSettings
<1>8. Preface'
  BY <1>2, <1>3 DEF Preface, RecvSettings
<1>9. Waiting'
  <2>1. /\ writeBlocked' = writeBlocked /\ blockedStreams' = blockedStreams
        /\ opened' = opened /\ prefaceReceived'
    BY DEF RecvSettings
  <2>2. writeBlocked \subseteq blockedStreams /\ remote[0] <= DefaultWindow
    BY <1>3 DEF Inv, Preface
  <2>3. remote'[0] < ConnMin + DefaultWindow
    BY <1>4, <2>2 DEF Inv, TypeOK
  <2>4. BlockedHasWaker'
    BY <2>1, <2>2, <2>3 DEF BlockedHasWaker
  <2> QED BY <2>1, <2>4, <1>6 DEF Inv, Waiting
<1>10. Grants'
  <2>1. Applied' = Applied /\ granted' = granted
    BY <1>4 DEF Applied, RecvSettings
  <2> QED BY <2>1, <1>1, GrantsTaken
<1> QED BY <1>2, <1>6, <1>7, <1>8, <1>9, <1>10 DEF Inv

LEMMA RecvConnUpdateInv ==
  ASSUME Inv, RecvConnUpdate
  PROVE  Inv'
<1> DEFINE n == Head(control).n
<1> USE ConstantTypes
<1>1. /\ control # <<>> /\ control' = Tail(control) /\ bstreams = {}
      /\ Head(control).kind = "window" /\ Head(control).id = 0
  BY DEF RecvConnUpdate, Incoming, Arrives, Dispatching
<1>2. /\ control' \in Seq(Control) /\ Head(control) = control[1] /\ control[1] \in Control
      /\ 1 \in DOMAIN control /\ \A i \in DOMAIN control' : control'[i].kind # "settings"
      /\ StreamUpdates'
  BY <1>1, ControlTaken
<1>3. n \in Nat /\ ConnUpdate(1) /\ n = control[1].n
  BY <1>1, <1>2 DEF Control, ConnUpdate
<1>4. prefaceReceived
  <2>1. control[1].kind # "settings"
    BY <1>1, <1>2
  <2> QED BY <2>1 DEF Inv, Preface
<1>5. /\ remote' = [remote EXCEPT ![0] = @ + n] /\ remote[0] \in Nat
      /\ remote' \in [Windows -> Nat] /\ remote'[0] = remote[0] + n
      /\ \A s \in Streams : remote'[s] = remote[s]
  <2>1. remote' = [remote EXCEPT ![0] = @ + n] /\ remote \in [Windows -> Nat]
    BY DEF Inv, TypeOK, RecvConnUpdate
  <2>2. remote[0] + n \in Nat
    BY <2>1, <1>3
  <2> HIDE DEF n
  <2> QED BY <2>1, <2>2
<1>6. TypeOK'
  <2>1. bstreams' \subseteq Streams /\ blockedStreams' \subseteq Streams
    BY DEF Inv, TypeOK, RecvConnUpdate, Notify
  <2> QED BY <1>2, <1>5, <2>1 DEF Inv, TypeOK, Control, RecvConnUpdate
<1>7. Preface'
  BY <1>2, <1>4 DEF Inv, Preface, RecvConnUpdate
<1>8. Waiting'
  <2>1. \/ UNCHANGED <<bstreams, blockedStreams>>
        \/ bstreams' = blockedStreams /\ blockedStreams' = {}
    BY DEF RecvConnUpdate, Notify
  <2>2. \/ armed \/ remote'[0] < ConnMin + DefaultWindow
        \/ bstreams' = blockedStreams
        \/ blockedStreams = {}
    <3>1. unsent > 0 => armed
      BY DEF Inv, Waiting
    <3>2. unsent \in Nat
      BY DEF Inv, TypeOK
    <3>3. CASE unsent = 0 /\ remote'[0] > 0 /\ blockedStreams # {}
      BY <3>3 DEF RecvConnUpdate, Notify
    <3>4. CASE remote'[0] = 0
      BY <3>4
    <3>5. CASE unsent > 0
      BY <3>1, <3>5
    <3>6. remote'[0] \in Nat
      BY <1>3, <1>5
    <3> QED BY <3>2, <3>3, <3>4, <3>5, <3>6
  <2>3. /\ writeBlocked' = writeBlocked /\ opened' = opened /\ armed' = armed
        /\ unsent' = unsent /\ isOpen' = isOpen /\ prefaceReceived' = prefaceReceived
        /\ closed' = closed
        /\ writeBlocked \subseteq Streams
    BY DEF Inv, TypeOK, RecvConnUpdate
  <2>4. BlockedHasWaker'
    <3> SUFFICES ASSUME NEW s \in writeBlocked, ~closed
                 PROVE  \/ remote'[s] <= 0
                        \/ s \in bstreams'
                        \/ s \in blockedStreams'
                           /\ (armed' \/ remote'[0] < ConnMin + DefaultWindow)
      BY <2>3 DEF BlockedHasWaker
    <3>1. remote[s] <= 0 \/ s \in blockedStreams
      BY <1>1 DEF Inv, Waiting, BlockedHasWaker
    <3>2. remote'[s] = remote[s]
      BY <1>5, <2>3
    <3> QED BY <3>1, <3>2, <2>1, <2>2, <2>3
  <2> QED BY <2>3, <2>4 DEF Inv, Waiting
<1>9. Grants'
  <2>1. Applied' = Applied + n /\ granted' = granted
    BY <1>3, <1>5 DEF Applied, Inv, TypeOK, RecvConnUpdate
  <2> QED BY <2>1, <1>1, <1>3, GrantsTaken
<1>10. Flight' /\ FrameLengths' /\ Locals'
  BY SameFlight DEF Inv, RecvConnUpdate
<1> QED BY <1>2, <1>6, <1>7, <1>8, <1>9, <1>10 DEF Inv

LEMMA RecvStreamUpdateInv ==
  ASSUME Inv, RecvStreamUpdate
  PROVE  Inv'
<1> DEFINE n == Head(control).n
           s == Head(control).id
<1> USE ConstantTypes
<1>1. /\ control # <<>> /\ control' = Tail(control)
      /\ Head(control).kind = "window" /\ s # 0
  BY DEF RecvStreamUpdate, Incoming, Arrives
<1>2. /\ control' \in Seq(Control) /\ Head(control) = control[1] /\ control[1] \in Control
      /\ 1 \in DOMAIN control /\ \A i \in DOMAIN control' : control'[i].kind # "settings"
      /\ StreamUpdates'
  BY <1>1, ControlTaken
<1>3. n \in Nat /\ s \in Streams
  BY <1>1, <1>2 DEF Control, Windows
<1>4. prefaceReceived
  <2>1. control[1].kind # "settings"
    BY <1>1, <1>2
  <2> QED BY <2>1 DEF Inv, Preface
<1>5. /\ remote' \in [Windows -> Nat] /\ remote'[0] = remote[0]
      /\ remote'[s] = remote[s] + n /\ remote[s] \in Nat
      /\ \A t \in Streams : t # s => remote'[t] = remote[t]
  <2>1. remote' = [remote EXCEPT ![s] = @ + n] /\ remote \in [Windows -> Nat]
    BY DEF Inv, TypeOK, RecvStreamUpdate
  <2>2. remote[s] + n \in Nat /\ remote[s] \in Nat
    BY <2>1, <1>3
  <2>3. s \in Windows /\ 0 \in Windows /\ s # 0
    BY <1>1, <1>3
  <2> HIDE DEF n, s
  <2> QED BY <2>1, <2>2, <2>3
<1>6. TypeOK'
  <2>1. writeBlocked' \subseteq Streams
    BY DEF Inv, TypeOK, RecvStreamUpdate
  <2> QED BY <1>2, <1>5, <2>1 DEF Inv, TypeOK, Control, RecvStreamUpdate
<1>7. Preface'
  BY <1>2, <1>4 DEF Inv, Preface, RecvStreamUpdate
<1>8. Waiting'
  <2>1. /\ writeBlocked' \subseteq writeBlocked /\ writeBlocked \subseteq Streams
        /\ UNCHANGED <<opened, armed, unsent, isOpen, closed, prefaceReceived>>
        /\ UNCHANGED <<bstreams, blockedStreams>>
    BY DEF Inv, TypeOK, RecvStreamUpdate
  <2>2. s \in writeBlocked' => remote'[s] <= 0 \/ ~(remote[s] <= 0)
    <3>1. Wakes(s, n) => s \notin writeBlocked'
      BY DEF RecvStreamUpdate
    <3> QED BY <3>1, <1>3, <1>5 DEF Wakes
  <2>3. BlockedHasWaker'
    <3> SUFFICES ASSUME NEW t \in writeBlocked', ~closed
                 PROVE  \/ remote'[t] <= 0
                        \/ t \in bstreams'
                        \/ t \in blockedStreams'
                           /\ (armed' \/ remote'[0] < ConnMin + DefaultWindow)
      BY <2>1 DEF BlockedHasWaker
    <3>1. \/ remote[t] <= 0
          \/ t \in bstreams
          \/ t \in blockedStreams /\ (armed \/ remote[0] < ConnMin + DefaultWindow)
      BY <2>1 DEF Inv, Waiting, BlockedHasWaker
    <3>2. remote[t] <= 0 => remote'[t] <= 0
      BY <2>1, <2>2, <1>5
    <3> QED BY <3>1, <3>2, <2>1, <1>5
  <2> QED BY <2>1, <2>3 DEF Inv, Waiting
<1>9. Grants'
  <2>1. Applied' = Applied /\ granted' = granted
    BY <1>5 DEF Applied, RecvStreamUpdate
  <2> QED BY <2>1, <1>1, GrantsTaken
<1>10. Flight' /\ FrameLengths' /\ Locals'
  BY SameFlight DEF Inv, RecvStreamUpdate
<1> QED BY <1>2, <1>6, <1>7, <1>8, <1>9, <1>10 DEF Inv

-----------------------------------------------------------------------------
(* The receiver. *)

\* Grants, of any queue of control frames.
IsConn(c) == c.kind = "window" /\ c.id = 0
InOrder(q, a, g) ==
  /\ a <= g
  /\ \A i \in DOMAIN q : IsConn(q[i]) => a <= q[i].total - q[i].n /\ q[i].total <= g
  /\ \A i, j \in DOMAIN q : i < j /\ IsConn(q[i]) /\ IsConn(q[j]) =>
       q[i].total <= q[j].total - q[j].n

LEMMA GrantsInOrder == Grants <=> InOrder(control, Applied, granted)
BY DEF Grants, ConnUpdate, InOrder, IsConn

\* bytesReceived keeps a window between the minimum and the step.
LEMMA DeltaRefills ==
  ASSUME NEW w \in Int, NEW n \in Nat, NEW min \in Nat, NEW step \in Nat,
         min <= w, w <= step
  PROVE  /\ Delta(w, n, min, step) \in Nat
         /\ min <= w - n + Delta(w, n, min, step) /\ w - n + Delta(w, n, min, step) <= step
         /\ Delta(w, n, min, step) <= step - min + n
         /\ n = 0 => Delta(w, n, min, step) = 0
BY DEF Delta, Low

\* What an update adds to a queue.
Adds(u, q, id, n, h) ==
  /\ u \in Seq(Control) /\ DOMAIN q \subseteq DOMAIN u /\ (q # <<>> => u # <<>>)
  /\ \A i \in DOMAIN q : u[i] = q[i]
  /\ \A i \in DOMAIN u : i \notin DOMAIN q =>
       n # 0 /\ u[i] = [kind |-> "window", id |-> id, n |-> n, total |-> h]
       /\ \A j \in DOMAIN u : j <= i

LEMMA Updated ==
  ASSUME NEW q \in Seq(Control), NEW id \in Windows, NEW n \in Nat, NEW h \in Nat,
         NEW u, u = Update(q, id, n, h)
  PROVE  Adds(u, q, id, n, h)
<1>1. CASE n = 0
  BY <1>1 DEF Update, Adds
<1>2. CASE n # 0
  <2> DEFINE e == [kind |-> "window", id |-> id, n |-> n, total |-> h]
  <2>1. e \in Control
    BY DEF Control
  <2>2. u = Append(q, e)
    BY <1>2 DEF Update
  <2> HIDE DEF e
  <2>3. /\ Append(q, e) \in Seq(Control) /\ DOMAIN Append(q, e) = 1..(Len(q) + 1)
        /\ DOMAIN q = 1..Len(q) /\ Append(q, e)[Len(q) + 1] = e /\ Append(q, e) # <<>>
        /\ \A i \in DOMAIN q : Append(q, e)[i] = q[i]
    BY <2>1, Appended
  <2>4. Len(q) \in Nat
    OBVIOUS
  <2>5. \A i \in 1..(Len(q) + 1) : i \notin 1..Len(q) =>
          i = Len(q) + 1 /\ \A j \in 1..(Len(q) + 1) : j <= i
    BY <2>4
  <2> QED BY <1>2, <2>2, <2>3, <2>4, <2>5 DEF e, Adds
<1> QED BY <1>1, <1>2

LEMMA UpdatedInOrder ==
  ASSUME NEW q \in Seq(Control), NEW id \in Windows, NEW n \in Nat, NEW h \in Nat,
         NEW u, u = Update(q, id, n, h),
         NEW g \in Nat, NEW a \in Int, InOrder(q, a, g),
         id = 0 => h = g + n, id # 0 => h = g
  PROVE  InOrder(u, a, h)
<1>2. /\ \A i \in DOMAIN q : u[i] = q[i]
      /\ \A i \in DOMAIN u : i \notin DOMAIN q =>
           u[i] = [kind |-> "window", id |-> id, n |-> n, total |-> h]
           /\ \A j \in DOMAIN u : j <= i
      /\ u \in Seq(Control)
  <2>1. Adds(u, q, id, n, h)
    BY Updated, Zenon
  <2> QED BY <2>1 DEF Adds
<1>3. g <= h /\ a <= h /\ (id = 0 => h - n = g)
  <2>1. a <= g
    BY DEF InOrder
  <2>2. g <= h /\ (id = 0 => h - n = g)
    OBVIOUS
  <2>3. g \in Int /\ h \in Int
    BY NatsAreInts
  <2> QED BY <2>1, <2>2, <2>3, AtMost, Zenon
<1>4. \A i \in DOMAIN q : q[i] \in Control /\ i \in Nat
  OBVIOUS
<1>5. \A i \in DOMAIN q : q[i].total \in Nat
  BY <1>4 DEF Control
<1>6. \A i \in DOMAIN u : IsConn(u[i]) => a <= u[i].total - u[i].n /\ u[i].total <= h
  <2> SUFFICES ASSUME NEW i \in DOMAIN u, IsConn(u[i])
               PROVE  a <= u[i].total - u[i].n /\ u[i].total <= h
    OBVIOUS
  <2>1. CASE i \in DOMAIN q
    <3>1. a <= q[i].total - q[i].n /\ q[i].total <= g
      BY <2>1, <1>2 DEF InOrder
    <3>2. q[i].total <= h
      BY <3>1, <2>1, <1>3, <1>5
    <3> QED BY <3>1, <3>2, <2>1, <1>2
  <2>2. CASE i \notin DOMAIN q
    <3>1. u[i].id = id /\ u[i].n = n /\ u[i].total = h
      BY <2>2, <1>2
    <3>2. id = 0
      BY <3>1 DEF IsConn
    <3>3. a <= g
      BY DEF InOrder
    <3> QED BY <3>1, <3>2, <3>3, <1>3
  <2> QED BY <2>1, <2>2
<1>7. \A i, j \in DOMAIN u : i < j /\ IsConn(u[i]) /\ IsConn(u[j]) =>
        u[i].total <= u[j].total - u[j].n
  <2> SUFFICES ASSUME NEW i \in DOMAIN u, NEW j \in DOMAIN u, i < j,
                      IsConn(u[i]), IsConn(u[j])
               PROVE  u[i].total <= u[j].total - u[j].n
    OBVIOUS
  <2>1. i \in DOMAIN q
    <3>1. i \in Nat /\ j \in Nat
      BY <1>2
    <3>2. i \notin DOMAIN q => j <= i
      BY <1>2
    <3> QED BY <3>1, <3>2
  <2>2. CASE j \in DOMAIN q
    BY <2>1, <2>2, <1>2 DEF InOrder
  <2>3. CASE j \notin DOMAIN q
    <3>1. u[j].id = id /\ u[j].n = n /\ u[j].total = h
      BY <2>3, <1>2
    <3>2. id = 0
      BY <3>1 DEF IsConn
    <3>3. u[i] = q[i] /\ q[i].total <= g
      BY <2>1, <1>2 DEF InOrder
    <3> QED BY <3>1, <3>2, <3>3, <1>3
  <2> QED BY <2>2, <2>3
<1> QED BY <1>3, <1>6, <1>7 DEF InOrder

\* A frame leaves the queue of DATA.
LEMMA FrameTaken ==
  ASSUME Inv, data # <<>>, data' = Tail(data), sent' = sent,
         Received' = Received + data[1].len
  PROVE  Flight' /\ FrameLengths' /\ data' \in Seq(Frame) /\ Len(data') = Len(data) - 1
<1>1. data \in Seq(Frame)
  BY DEF Inv, TypeOK, Frame
<1>2. /\ data' \in Seq(Frame) /\ Len(data') = Len(data) - 1 /\ Len(data) > 0
      /\ DOMAIN data' = 1..(Len(data) - 1) /\ DOMAIN data = 1..Len(data)
      /\ \A i \in DOMAIN data' : data'[i] = data[i + 1] /\ i + 1 \in DOMAIN data
  BY <1>1, Rest
<1>3. Len(data) \in Nat /\ 1 \in DOMAIN data /\ \A i \in DOMAIN data : data[i] \in Frame
  BY <1>1, <1>2
<1>4. \A i \in DOMAIN data : data[i].len \in Nat /\ data[i].total \in Nat
  BY <1>3 DEF Frame
<1>5. sent \in Nat /\ Received \in Int
  BY ConstantTypes DEF Inv, TypeOK, Received
<1>6. \A i \in DOMAIN data' : i \in Nat /\ 1 < i + 1
  BY <1>2, <1>3
<1>7. /\ Received <= data[1].total - data[1].len /\ data[1].total <= sent
      /\ data[1].len \in Nat /\ data[1].total \in Nat
  BY <1>3, <1>4 DEF Inv, Flight
<1>8. Received' <= data[1].total /\ Received' <= sent /\ Received' \in Int
  BY <1>5, <1>7, SMTT(60)
<1>9. \A i \in DOMAIN data' : Received' <= data'[i].total - data'[i].len /\ data'[i].total <= sent'
  <2> SUFFICES ASSUME NEW i \in DOMAIN data'
               PROVE  Received' <= data'[i].total - data'[i].len /\ data'[i].total <= sent'
    OBVIOUS
  <2>1. PICK k : k = i + 1
    OBVIOUS
  <2>2. k \in DOMAIN data /\ data'[i] = data[k] /\ 1 < k
    BY <1>2, <1>6, <2>1
  <2>3. data[k].total <= sent /\ data[1].total <= data[k].total - data[k].len
    BY <2>2, <1>3 DEF Inv, Flight
  <2>4. data[k].total - data[k].len \in Int
    BY <1>4, <2>2
  <2>5. Received' <= data[k].total - data[k].len
    BY <1>7, <1>8, <2>3, <2>4, AtMost, Zenon, NatsAreInts
  <2> QED BY <2>2, <2>3, <2>5
<1>10. \A i, j \in DOMAIN data' : i < j => data'[i].total <= data'[j].total - data'[j].len
  <2> SUFFICES ASSUME NEW i \in DOMAIN data', NEW j \in DOMAIN data', i < j
               PROVE  data'[i].total <= data'[j].total - data'[j].len
    OBVIOUS
  <2>1. i + 1 < j + 1
    BY <1>6
  <2> QED BY <2>1, <1>2 DEF Inv, Flight
<1>11. FrameLengths'
  BY <1>2 DEF Inv, FrameLengths
<1> QED BY <1>2, <1>8, <1>9, <1>10, <1>11 DEF Flight

LEMMA RecvDataInv ==
  ASSUME Inv, RecvData
  PROVE  Inv'
<1> USE ConstantTypes
<1>1. PICK f \in Frame : f = data[1] /\ f = Head(data)
  <2>1. data # <<>>
    BY DEF Inv, TypeOK, RecvData
  <2> QED BY <2>1, Rest DEF Inv, TypeOK, Frame
<1>2. /\ data # <<>> /\ data' = Tail(data) /\ Len(data) > unsent
      /\ f.id \in Windows /\ f.len \in Nat /\ f.end \in BOOLEAN
  <2>1. data' = Tail(data) /\ Len(data) > unsent
    BY DEF RecvData
  <2>2. data # <<>>
    BY <2>1 DEF Inv, TypeOK
  <2>3. f.id \in Windows /\ f.len \in Nat /\ f.end \in BOOLEAN
    BY DEF Frame
  <2> QED BY <2>1, <2>2, <2>3
<1>3. f.len = 0 \/ (f.len \in Lens /\ f.id # 0)
  <2>1. 1 \in DOMAIN data
    BY <1>2 DEF Inv, TypeOK
  <2> QED BY <1>1, <2>1 DEF Inv, FrameLengths
<1>4. UNCHANGED <<senderVars, sent, excess>>
  BY DEF RecvData
<1>5. Waiting'
  BY <1>4 DEF Inv, Waiting, BlockedHasWaker, senderVars
<1>6. unsent \in Nat /\ Len(data) \in Nat /\ granted \in Nat /\ sent \in Nat
      /\ \A w \in Windows : local[w] \in Int
  BY DEF Inv, TypeOK
<1>7. ASSUME /\ Flight' /\ FrameLengths' /\ Locals' /\ Grants' /\ StreamUpdates' /\ Preface'
             /\ data' \in Seq(Frame) /\ Len(data') = Len(data) - 1
             /\ control' \in Seq(Control) /\ local' \in [Windows -> Int] /\ granted' \in Nat
      PROVE  Inv'
  <2>1. unsent' \in Nat /\ unsent' <= Len(data')
    BY <1>2, <1>4, <1>6, <1>7 DEF senderVars
  <2>2. TypeOK'
    BY <2>1, <1>4, <1>7 DEF Inv, TypeOK, senderVars, Frame, Control
  <2> QED BY <2>2, <1>5, <1>7 DEF Inv
<1>8. CASE f.id = 0
  <2>1. UNCHANGED <<local, control, granted>>
    BY <1>1, <1>8 DEF RecvData
  <2>2. f.len = 0
    BY <1>3, <1>8
  <2>3. Received' = Received + data[1].len /\ Applied' = Applied
    BY <1>1, <1>4, <1>6, <2>1, <2>2 DEF Received, Applied, senderVars
  <2>4. Flight' /\ FrameLengths' /\ data' \in Seq(Frame) /\ Len(data') = Len(data) - 1
    BY <1>2, <1>4, <2>3, FrameTaken
  <2>5. Grants' /\ StreamUpdates'
    BY <2>1, <2>3, SameGrants, SameStreamUpdates DEF Inv
  <2>6. Locals'
    BY <2>1 DEF Inv, Locals
  <2>7. Preface'
    BY <1>4, <2>1 DEF Inv, Preface, senderVars
  <2>8. control' \in Seq(Control) /\ local' \in [Windows -> Int] /\ granted' \in Nat
    BY <2>1 DEF Inv, TypeOK, Control
  <2> QED BY <1>7, <2>4, <2>5, <2>6, <2>7, <2>8
<1>9. CASE f.id # 0
  <2> DEFINE d0 == Delta(local[0], f.len, ConnMin, ConnStep)
             ds == Delta(local[f.id], f.len, StreamMin, StreamStep)
             n == IF f.end THEN 0 ELSE ds
  <2>1. /\ local' = [local EXCEPT ![0] = @ - f.len + d0, ![f.id] = @ - f.len + ds]
        /\ granted' = granted + d0
        /\ control' = Update(Update(control, 0, d0, granted'), f.id, n, granted')
    <3>1. Head(data) = f /\ f.id # 0
      BY <1>1, <1>9
    <3>2. local' = [local EXCEPT ![0] = Refilled(@ - f.len, d0), ![f.id] = Refilled(@ - f.len, ds)]
      BY <3>1 DEF RecvData
    <3>3. granted' = granted + d0
      BY <3>1 DEF RecvData
    <3>4. control' = Update(Update(control, 0, d0, granted'), f.id,
                            IF f.end THEN 0 ELSE ds, granted')
      BY <3>1 DEF RecvData
    <3> QED BY <3>2, <3>3, <3>4 DEF Refilled
  <2>2. f.id \in Streams /\ local \in [Windows -> Int]
    BY <1>2, <1>9 DEF Windows, Inv, TypeOK
  <2>3. /\ d0 \in Nat /\ ConnMin <= local[0] - f.len + d0 /\ local[0] - f.len + d0 <= ConnStep
        /\ local[0] \in Int
    <3>1. local[0] \in Int /\ ConnMin <= local[0] /\ local[0] <= ConnStep
      BY <1>6 DEF Inv, Locals
    <3> QED BY <3>1, <1>2, DeltaRefills
  <2>4. /\ ds \in Nat /\ StreamMin <= local[f.id] - f.len + ds
        /\ local[f.id] - f.len + ds <= StreamStep
        /\ ds <= StreamStep - StreamMin + f.len /\ (f.len = 0 => ds = 0)
        /\ local[f.id] \in Int
    <3>1. local[f.id] \in Int /\ StreamMin <= local[f.id] /\ local[f.id] <= StreamStep
      BY <1>6, <2>2 DEF Inv, Locals
    <3>2. StreamMin \in Nat /\ StreamStep \in Nat /\ StreamMin <= StreamStep /\ f.len \in Nat
      BY <1>2
    <3>3. PICK w \in Int : w = local[f.id]
      BY <3>1
    <3>4. PICK d : d = Delta(w, f.len, StreamMin, StreamStep)
      OBVIOUS
    <3>5. StreamMin <= w /\ w <= StreamStep
      BY <3>1, <3>3
    <3>6. /\ d \in Nat /\ StreamMin <= w - f.len + d /\ w - f.len + d <= StreamStep
          /\ d <= StreamStep - StreamMin + f.len /\ (f.len = 0 => d = 0)
      BY <3>2, <3>4, <3>5, DeltaRefills
    <3>7. ds = d
      BY <3>3, <3>4
    <3> QED BY <3>3, <3>6, <3>7
  <2>5. n \in Nat /\ (n # 0 => n = ds)
    BY <2>4
  <2> HIDE DEF d0, ds, n
  <2>6. /\ local' \in [Windows -> Int] /\ local'[0] = local[0] - f.len + d0
        /\ local'[f.id] = local[f.id] - f.len + ds
        /\ \A s \in Streams : s # f.id => local'[s] = local[s]
    <3>1. local[0] - f.len + d0 \in Int /\ local[f.id] - f.len + ds \in Int
      <4>1. \A x, y, z \in Int : x - y + z \in Int
        OBVIOUS
      <4>2. /\ local[0] \in Int /\ local[f.id] \in Int
            /\ f.len \in Int /\ d0 \in Int /\ ds \in Int
        BY <1>2, <2>3, <2>4
      <4> QED BY <4>1, <4>2, Zenon
    <3>2. PICK x, y \in Int : x = local[0] - f.len + d0 /\ y = local[f.id] - f.len + ds
      BY <3>1
    <3>3. local' = [local EXCEPT ![0] = x, ![f.id] = y]
      BY <2>1, <3>2
    <3>4. local' \in [Windows -> Int] /\ local'[0] = x /\ local'[f.id] = y
          /\ \A s \in Streams : s # f.id => local'[s] = local[s]
      BY <1>9, <2>2, <3>3
    <3> QED BY <3>2, <3>4
  <2>7. Locals'
    BY <2>2, <2>3, <2>4, <2>6 DEF Inv, Locals
  <2>8. granted' \in Nat
    BY <2>1, <2>3, <1>6
  <2>9. Received' = Received + data[1].len
    BY <1>1, <1>2, <1>6, <2>1, <2>3, <2>6 DEF Received
  <2>10. Flight' /\ FrameLengths' /\ data' \in Seq(Frame) /\ Len(data') = Len(data) - 1
    BY <1>2, <1>4, <2>9, FrameTaken
  <2>11. PICK m : m = Update(control, 0, d0, granted')
    OBVIOUS
  <2>12. control' = Update(m, f.id, n, granted')
    BY <2>1, <2>11
  <2>13. control \in Seq(Control)
    BY DEF Inv, TypeOK, Control
  <2>14. Adds(m, control, 0, d0, granted')
    BY <2>3, <2>8, <2>11, <2>13, Updated, Zenon
  <2>15. m \in Seq(Control)
    BY <2>14 DEF Adds
  <2>16. Adds(control', m, f.id, n, granted')
    BY <1>2, <2>5, <2>8, <2>12, <2>15, Updated, Zenon
  <2>17. Grants'
    <3>1. Applied \in Int /\ Applied' = Applied
      BY <1>4, <1>6 DEF Applied, senderVars, Inv, TypeOK
    <3>2. InOrder(control, Applied, granted)
      BY GrantsInOrder DEF Inv
    <3>3. InOrder(m, Applied, granted')
      <4>1. (0 = 0 => granted' = granted + d0) /\ (0 # 0 => granted' = granted)
        BY <2>1
      <4>2. 0 \in Windows /\ d0 \in Nat /\ granted \in Nat
        BY <1>6, <2>3
      <4> QED BY <2>8, <2>11, <2>13, <3>1, <3>2, <4>1, <4>2, UpdatedInOrder, Zenon
    <3>4. InOrder(control', Applied, granted')
      <4>1. f.id \in Windows /\ n \in Nat /\ Applied \in Int
        BY <1>2, <2>5, <3>1
      <4>2. PICK h \in Nat : h = granted'
        BY <2>8
      <4>3. InOrder(m, Applied, h) /\ control' = Update(m, f.id, n, h)
        BY <2>12, <3>3, <4>2
      <4>4. (f.id = 0 => h = h + n) /\ (f.id # 0 => h = h)
        BY <1>9
      <4>5. InOrder(control', Applied, h)
        BY <2>15, <4>1, <4>3, <4>4, UpdatedInOrder
      <4> QED BY <4>2, <4>5
    <3>5. InOrder(control', Applied', granted')
      BY <3>1, <3>4
    <3> QED BY <3>5 DEF Grants, ConnUpdate, InOrder, IsConn
  <2>18. /\ control' \in Seq(Control) /\ DOMAIN control \subseteq DOMAIN control'
         /\ \A i \in DOMAIN control : control'[i] = control[i]
         /\ (control # <<>> => control' # <<>>)
    BY <2>14, <2>16 DEF Adds
  <2>19. \A i \in DOMAIN control' : i \notin DOMAIN control =>
           control'[i].kind = "window"
           /\ (control'[i].id # 0 => n # 0 /\ control'[i].n = n)
    <3> SUFFICES ASSUME NEW i \in DOMAIN control', i \notin DOMAIN control
                 PROVE  control'[i].kind = "window"
                        /\ (control'[i].id # 0 => n # 0 /\ control'[i].n = n)
      OBVIOUS
    <3>1. CASE i \in DOMAIN m
      <4>1. control'[i] = m[i]
        BY <3>1, <2>16 DEF Adds
      <4>2. m[i] = [kind |-> "window", id |-> 0, n |-> d0, total |-> granted']
        BY <3>1, <2>14 DEF Adds
      <4> QED BY <4>1, <4>2
    <3>2. CASE i \notin DOMAIN m
      <4>1. n # 0 /\ control'[i] = [kind |-> "window", id |-> f.id, n |-> n, total |-> granted']
        BY <3>2, <2>16 DEF Adds
      <4> QED BY <4>1
    <3> QED BY <3>1, <3>2
  <2>20. StreamUpdates'
    <3> SUFFICES ASSUME NEW i \in DOMAIN control',
                        control'[i].kind = "window", control'[i].id # 0
                 PROVE  \E l \in Lens : control'[i].n <= StreamStep - StreamMin + l
      BY DEF StreamUpdates
    <3>1. CASE i \in DOMAIN control
      BY <3>1, <2>18 DEF Inv, StreamUpdates
    <3>2. CASE i \notin DOMAIN control
      <4>1. control'[i].n = ds /\ ds # 0
        BY <3>2, <2>5, <2>19
      <4>2. f.len \in Lens
        BY <4>1, <1>3, <2>4
      <4> QED BY <4>1, <4>2, <2>4
    <3> QED BY <3>1, <3>2
  <2>21. Preface'
    <3>1. \A i \in DOMAIN control' : control'[i].kind = "settings" =>
            i \in DOMAIN control /\ control'[i] = control[i]
      BY <2>18, <2>19
    <3>2. control # <<>> => 1 \in DOMAIN control
      BY <2>13
    <3> QED BY <1>4, <2>18, <3>1, <3>2 DEF Inv, Preface, senderVars
  <2> QED BY <1>7, <2>6, <2>7, <2>8, <2>10, <2>17, <2>18, <2>20, <2>21
<1> QED BY <1>8, <1>9

-----------------------------------------------------------------------------
(* What is under way, added up.  What one end knows of a window and what    *)
(* the other knows differ by the frames and the increments between them,    *)
(* by the SETTINGS until they are taken, and by the excess.                 *)

\* t is the sum of F[1], .., F[n]: the partial sums are there.
Sums(F, n, t) == \E p \in [0..n -> Int] :
  /\ p[0] = 0 /\ p[n] = t
  /\ \A i \in 1..n : p[i] = p[i - 1] + F[i]

\* What a frame takes from a window, and what an update gives to it.
Carried(w, f) == IF w = 0 \/ f.id = w THEN f.len ELSE 0
Given(w, c) == IF c.kind = "window" /\ c.id = w THEN c.n ELSE 0

Carries(q, w, t) == Sums([i \in 1..Len(q) |-> Carried(w, q[i])], Len(q), t)
Gives(q, w, t) == Sums([i \in 1..Len(q) |-> Given(w, q[i])], Len(q), t)

Owed == IF prefaceReceived THEN 0 ELSE StreamStep - DefaultWindow
Due(w) == IF w = 0 THEN local[0] + DefaultWindow ELSE local[w] + excess[w] - Owed
Even(w) == \E d, c \in Int :
  Carries(data, w, d) /\ Gives(control, w, c) /\ remote[w] + d + c = Due(w)

Ids(q) == {q[i].id : i \in DOMAIN q}
EmptyEnds(q) == \A i \in DOMAIN q : q[i].end => q[i].len = 0

\* Of a stream that is not there nothing is under way.
Fresh(s) == /\ local[s] = StreamStep /\ excess[s] = 0
            /\ s \notin Ids(data) /\ s \notin Ids(control)

Ledger == /\ \A w \in opened \cup {0} : Even(w)
          /\ \A s \in Streams \ opened : Fresh(s)
          /\ EmptyEnds(data)

-----------------------------------------------------------------------------
(* Sums. *)

LEMMA SumOfNothing ==
  ASSUME NEW F, NEW t, Sums(F, 0, t)
  PROVE  t = 0
BY DEF Sums

LEMMA SumOfZeros ==
  ASSUME NEW F, NEW n \in Nat, \A i \in 1..n : F[i] = 0
  PROVE  Sums(F, n, 0)
<1>1. PICK p : p = [i \in 0..n |-> 0]
  OBVIOUS
<1>2. p \in [0..n -> Int] /\ \A i \in 0..n : p[i] = 0
  BY <1>1
<1>3. \A i \in 1..n : i \in 0..n /\ i - 1 \in 0..n
  OBVIOUS
<1>4. p[0] = 0 /\ p[n] = 0 /\ \A i \in 1..n : p[i] = p[i - 1] + F[i]
  BY <1>2, <1>3
<1> QED BY <1>2, <1>4 DEF Sums

LEMMA SumGrows ==
  ASSUME NEW F, NEW G, NEW n \in Nat, NEW t \in Int, NEW x \in Int, G[n + 1] = x,
         \A i \in 1..n : G[i] = F[i], Sums(F, n, t)
  PROVE  Sums(G, n + 1, t + x)
<1>1. PICK p \in [0..n -> Int] :
        p[0] = 0 /\ p[n] = t /\ \A i \in 1..n : p[i] = p[i - 1] + F[i]
  BY DEF Sums
<1>2. PICK g : g = [i \in 0..(n + 1) |-> IF i = n + 1 THEN t + x ELSE p[i]]
  OBVIOUS
<1>3. \A i \in 0..n : i \in 0..(n + 1) /\ i # n + 1
  OBVIOUS
<1>4. g[n + 1] = t + x /\ \A i \in 0..n : g[i] = p[i]
  BY <1>2, <1>3
<1>5. g \in [0..(n + 1) -> Int]
  <2>1. \A i \in 0..(n + 1) : i # n + 1 => i \in 0..n
    OBVIOUS
  <2>2. t + x \in Int
    OBVIOUS
  <2> QED BY <1>2, <2>1, <2>2
<1>6. \A i \in 1..(n + 1) : g[i] = g[i - 1] + G[i]
  <2> SUFFICES ASSUME NEW i \in 1..(n + 1)
               PROVE  g[i] = g[i - 1] + G[i]
    OBVIOUS
  <2>1. CASE i = n + 1
    <3>1. i - 1 = n /\ n \in 0..n
      BY <2>1
    <3> QED BY <1>1, <1>4, <2>1, <3>1
  <2>2. CASE i # n + 1
    <3>1. i \in 1..n /\ i \in 0..n /\ i - 1 \in 0..n
      BY <2>2
    <3> QED BY <1>1, <1>4, <3>1
  <2> QED BY <2>1, <2>2
<1>7. g[0] = 0
  <2>1. 0 \in 0..n
    OBVIOUS
  <2> QED BY <1>1, <1>4, <2>1
<1> QED BY <1>4, <1>5, <1>6, <1>7 DEF Sums

LEMMA SumLoses ==
  ASSUME NEW F, NEW G, NEW n \in Nat, NEW t \in Int, NEW x \in Int, F[1] = x,
         \A i \in 1..n : G[i] \in Int /\ G[i] = F[i + 1], Sums(F, n + 1, t)
  PROVE  Sums(G, n, t - x)
<1>1. PICK p \in [0..(n + 1) -> Int] :
        p[0] = 0 /\ p[n + 1] = t /\ \A i \in 1..(n + 1) : p[i] = p[i - 1] + F[i]
  BY DEF Sums
<1>2. PICK g : g = [i \in 0..n |-> p[i + 1] - x]
  OBVIOUS
<1>3. \A i \in 0..n : i + 1 \in 0..(n + 1) /\ p[i + 1] \in Int
  BY <1>1
<1>4. g \in [0..n -> Int] /\ \A i \in 0..n : g[i] = p[i + 1] - x
  BY <1>2, <1>3
<1>5. g[0] = 0
  <2>1. p[1] = p[1 - 1] + F[1] /\ 1 - 1 = 0
    <3>1. 1 \in 1..(n + 1)
      OBVIOUS
    <3> QED BY <1>1, <3>1
  <2>2. g[0] = p[0 + 1] - x /\ 0 + 1 = 1
    BY <1>4
  <2> QED BY <1>1, <2>1, <2>2
<1>6. g[n] = t - x
  BY <1>1, <1>4
<1>7. \A i \in 1..n : g[i] = g[i - 1] + G[i]
  <2> SUFFICES ASSUME NEW i \in 1..n
               PROVE  g[i] = g[i - 1] + G[i]
    OBVIOUS
  <2>1. i \in 0..n /\ i - 1 \in 0..n /\ i + 1 \in 1..(n + 1) /\ (i - 1) + 1 = i
        /\ (i + 1) - 1 = i
    OBVIOUS
  <2>2. p[i + 1] = p[i] + F[i + 1] /\ G[i] = F[i + 1]
    BY <1>1, <2>1
  <2>3. g[i] = p[i + 1] - x /\ g[i - 1] = p[i] - x
    BY <1>4, <2>1
  <2>4. p[i] \in Int /\ p[i + 1] \in Int
    BY <1>1, <2>1
  <2>5. p[i + 1] = p[i] + G[i]
    BY <2>2
  <2>6. G[i] \in Int
    OBVIOUS
  <2> QED BY <2>3, <2>4, <2>5, <2>6
<1> QED BY <1>4, <1>5, <1>6, <1>7 DEF Sums

LEMMA FrameCarries ==
  ASSUME NEW w, NEW f \in Frame
  PROVE  Carried(w, f) \in Int
BY DEF Carried, Frame

LEMMA ControlGives ==
  ASSUME NEW w, NEW c \in Control
  PROVE  Given(w, c) \in Int
BY DEF Given, Control

LEMMA CarriesMore ==
  ASSUME NEW q \in Seq(Frame), NEW f \in Frame, NEW w, NEW t \in Int, Carries(q, w, t)
  PROVE  Carries(Append(q, f), w, t + Carried(w, f))
<1>1. PICK n \in Nat : n = Len(q)
  OBVIOUS
<1>2. PICK u, x : u = Append(q, f) /\ x = Carried(w, f)
  OBVIOUS
<1>3. Len(u) = n + 1 /\ u[n + 1] = f /\ \A i \in 1..n : u[i] = q[i]
  BY <1>1, <1>2, Appended
<1>4. PICK F, G : F = [i \in 1..n |-> Carried(w, q[i])] /\ G = [i \in 1..(n + 1) |-> Carried(w, u[i])]
  OBVIOUS
<1>5. /\ x \in Int /\ G[n + 1] = x /\ \A i \in 1..n : G[i] = F[i]
  <2>1. n + 1 \in 1..(n + 1) /\ \A i \in 1..n : i \in 1..(n + 1)
    OBVIOUS
  <2>2. x \in Int
    BY <1>2, FrameCarries
  <2> QED BY <1>3, <1>4, <1>2, <2>1, <2>2
<1>6. Sums(F, n, t)
  BY <1>1, <1>4 DEF Carries
<1>7. Sums(G, n + 1, t + x)
  BY <1>5, <1>6, SumGrows
<1> QED BY <1>1, <1>3, <1>4, <1>7, <1>2 DEF Carries

LEMMA GivesMore ==
  ASSUME NEW q \in Seq(Control), NEW c \in Control, NEW w, NEW t \in Int, Gives(q, w, t)
  PROVE  Gives(Append(q, c), w, t + Given(w, c))
<1>1. PICK n \in Nat : n = Len(q)
  OBVIOUS
<1>2. PICK u, x : u = Append(q, c) /\ x = Given(w, c)
  OBVIOUS
<1>3. Len(u) = n + 1 /\ u[n + 1] = c /\ \A i \in 1..n : u[i] = q[i]
  BY <1>1, <1>2, Appended
<1>4. PICK F, G : F = [i \in 1..n |-> Given(w, q[i])] /\ G = [i \in 1..(n + 1) |-> Given(w, u[i])]
  OBVIOUS
<1>5. /\ x \in Int /\ G[n + 1] = x /\ \A i \in 1..n : G[i] = F[i]
  <2>1. n + 1 \in 1..(n + 1) /\ \A i \in 1..n : i \in 1..(n + 1)
    OBVIOUS
  <2>2. x \in Int
    BY <1>2, ControlGives
  <2> QED BY <1>3, <1>4, <1>2, <2>1, <2>2
<1>6. Sums(F, n, t)
  BY <1>1, <1>4 DEF Gives
<1>7. Sums(G, n + 1, t + x)
  BY <1>5, <1>6, SumGrows
<1> QED BY <1>1, <1>3, <1>4, <1>7, <1>2 DEF Gives

LEMMA CarriesLess ==
  ASSUME NEW q \in Seq(Frame), q # <<>>, NEW w, NEW t \in Int, Carries(q, w, t)
  PROVE  Carries(Tail(q), w, t - Carried(w, q[1]))
<1>1. PICK u, x : u = Tail(q) /\ x = Carried(w, q[1])
  OBVIOUS
<1>2. PICK n \in Nat :
        /\ Len(q) = n + 1 /\ Len(u) = n /\ q[1] \in Frame
        /\ \A i \in 1..n : u[i] = q[i + 1] /\ u[i] \in Frame
  <2>1. PICK l \in Nat : l = Len(q)
    OBVIOUS
  <2>2. /\ Len(u) = l - 1 /\ l > 0 /\ q[1] \in Frame /\ u \in Seq(Frame)
        /\ \A i \in 1..(l - 1) : u[i] = q[i + 1]
    BY <1>1, <2>1, Rest
  <2>3. \A i \in 1..(l - 1) : u[i] \in Frame
    BY <2>2
  <2>4. l - 1 \in Nat /\ l = (l - 1) + 1
    BY <2>2
  <2> QED BY <2>1, <2>2, <2>3, <2>4
<1>3. PICK F, G : F = [i \in 1..(n + 1) |-> Carried(w, q[i])] /\ G = [i \in 1..n |-> Carried(w, u[i])]
  OBVIOUS
<1>4. /\ x \in Int /\ F[1] = x /\ \A i \in 1..n : G[i] \in Int /\ G[i] = F[i + 1]
  <2>1. 1 \in 1..(n + 1) /\ \A i \in 1..n : i + 1 \in 1..(n + 1)
    OBVIOUS
  <2>2. x \in Int
    BY <1>1, <1>2, FrameCarries
  <2>3. \A i \in 1..n : Carried(w, u[i]) \in Int
    BY <1>2, FrameCarries
  <2> QED BY <1>1, <1>2, <1>3, <2>1, <2>2, <2>3
<1>5. Sums(F, n + 1, t)
  BY <1>2, <1>3 DEF Carries
<1>6. Sums(G, n, t - x)
  BY <1>4, <1>5, SumLoses
<1> QED BY <1>1, <1>2, <1>3, <1>6 DEF Carries

LEMMA GivesLess ==
  ASSUME NEW q \in Seq(Control), q # <<>>, NEW w, NEW t \in Int, Gives(q, w, t)
  PROVE  Gives(Tail(q), w, t - Given(w, q[1]))
<1>1. PICK u, x : u = Tail(q) /\ x = Given(w, q[1])
  OBVIOUS
<1>2. PICK n \in Nat :
        /\ Len(q) = n + 1 /\ Len(u) = n /\ q[1] \in Control
        /\ \A i \in 1..n : u[i] = q[i + 1] /\ u[i] \in Control
  <2>1. PICK l \in Nat : l = Len(q)
    OBVIOUS
  <2>2. /\ Len(u) = l - 1 /\ l > 0 /\ q[1] \in Control /\ u \in Seq(Control)
        /\ \A i \in 1..(l - 1) : u[i] = q[i + 1]
    BY <1>1, <2>1, Rest
  <2>3. \A i \in 1..(l - 1) : u[i] \in Control
    BY <2>2
  <2>4. l - 1 \in Nat /\ l = (l - 1) + 1
    BY <2>2
  <2> QED BY <2>1, <2>2, <2>3, <2>4
<1>3. PICK F, G : F = [i \in 1..(n + 1) |-> Given(w, q[i])] /\ G = [i \in 1..n |-> Given(w, u[i])]
  OBVIOUS
<1>4. /\ x \in Int /\ F[1] = x /\ \A i \in 1..n : G[i] \in Int /\ G[i] = F[i + 1]
  <2>1. 1 \in 1..(n + 1) /\ \A i \in 1..n : i + 1 \in 1..(n + 1)
    OBVIOUS
  <2>2. x \in Int
    BY <1>1, <1>2, ControlGives
  <2>3. \A i \in 1..n : Given(w, u[i]) \in Int
    BY <1>2, ControlGives
  <2> QED BY <1>1, <1>2, <1>3, <2>1, <2>2, <2>3
<1>5. Sums(F, n + 1, t)
  BY <1>2, <1>3 DEF Gives
<1>6. Sums(G, n, t - x)
  BY <1>4, <1>5, SumLoses
<1> QED BY <1>1, <1>2, <1>3, <1>6 DEF Gives

LEMMA CarriesNone ==
  ASSUME NEW q \in Seq(Frame), NEW w, w # 0, w \notin Ids(q)
  PROVE  Carries(q, w, 0)
<1>1. PICK n \in Nat : n = Len(q) /\ DOMAIN q = 1..n
  OBVIOUS
<1>2. PICK F : F = [i \in 1..n |-> Carried(w, q[i])]
  OBVIOUS
<1>3. \A i \in 1..n : F[i] = 0
  BY <1>1, <1>2 DEF Ids, Carried
<1> QED BY <1>1, <1>2, <1>3, SumOfZeros DEF Carries

LEMMA GivesNone ==
  ASSUME NEW q \in Seq(Control), NEW w, w \notin Ids(q)
  PROVE  Gives(q, w, 0)
<1>1. PICK n \in Nat : n = Len(q) /\ DOMAIN q = 1..n
  OBVIOUS
<1>2. PICK F : F = [i \in 1..n |-> Given(w, q[i])]
  OBVIOUS
<1>3. \A i \in 1..n : F[i] = 0
  BY <1>1, <1>2 DEF Ids, Given
<1> QED BY <1>1, <1>2, <1>3, SumOfZeros DEF Gives

LEMMA GivesUpdate ==
  ASSUME NEW q \in Seq(Control), NEW id \in Windows, NEW n \in Nat, NEW h \in Nat,
         NEW w, NEW t \in Int, Gives(q, w, t)
  PROVE  Gives(Update(q, id, n, h), w, t + (IF id = w THEN n ELSE 0))
<1>1. CASE n = 0
  BY <1>1 DEF Update
<1>2. CASE n # 0
  <2>1. PICK e : e = [kind |-> "window", id |-> id, n |-> n, total |-> h]
    OBVIOUS
  <2>2. e \in Control /\ Given(w, e) = IF id = w THEN n ELSE 0
    BY <2>1 DEF Control, Given
  <2>3. Gives(Append(q, e), w, t + Given(w, e))
    BY <2>2, GivesMore
  <2> QED BY <1>2, <2>1, <2>2, <2>3 DEF Update
<1> QED BY <1>1, <1>2

LEMMA IdsMore ==
  ASSUME NEW S, NEW q \in Seq(S), NEW e \in S
  PROVE  Ids(Append(q, e)) = Ids(q) \cup {e.id}
<1>1. /\ DOMAIN Append(q, e) = 1..(Len(q) + 1) /\ DOMAIN q = 1..Len(q)
      /\ \A i \in DOMAIN q : Append(q, e)[i] = q[i]
      /\ Append(q, e)[Len(q) + 1] = e /\ Len(q) \in Nat
  BY Appended
<1>2. \A i \in 1..(Len(q) + 1) : i \in 1..Len(q) \/ i = Len(q) + 1
  BY <1>1
<1>3. \A i \in 1..Len(q) : i \in 1..(Len(q) + 1)
  BY <1>1
<1>4. Len(q) + 1 \in 1..(Len(q) + 1)
  BY <1>1
<1>5. Ids(Append(q, e)) \subseteq Ids(q) \cup {e.id}
  BY <1>1, <1>2 DEF Ids
<1>6. Ids(q) \cup {e.id} \subseteq Ids(Append(q, e))
  <2>1. ASSUME NEW x \in Ids(q)
        PROVE  x \in Ids(Append(q, e))
    <3>1. PICK i \in DOMAIN q : x = q[i].id
      BY <2>1 DEF Ids
    <3>2. i \in DOMAIN Append(q, e) /\ x = Append(q, e)[i].id
      BY <1>1, <1>3, <3>1
    <3> QED BY <3>2 DEF Ids
  <2>2. e.id \in Ids(Append(q, e))
    BY <1>1, <1>4 DEF Ids
  <2> QED BY <2>1, <2>2
<1> QED BY <1>5, <1>6

LEMMA IdsLess ==
  ASSUME NEW S, NEW q \in Seq(S), q # <<>>
  PROVE  Ids(Tail(q)) \subseteq Ids(q) /\ q[1].id \in Ids(q)
<1>1. /\ DOMAIN q = 1..Len(q) /\ Len(q) > 0 /\ Len(q) \in Nat
      /\ \A i \in DOMAIN Tail(q) : Tail(q)[i] = q[i + 1] /\ i + 1 \in DOMAIN q
  BY Rest
<1>2. 1 \in DOMAIN q
  BY <1>1
<1>3. Ids(Tail(q)) \subseteq Ids(q)
  BY <1>1 DEF Ids
<1> QED BY <1>2, <1>3 DEF Ids

LEMMA IdsUpdate ==
  ASSUME NEW q \in Seq(Control), NEW id \in Windows, NEW n \in Nat, NEW h \in Nat
  PROVE  Ids(Update(q, id, n, h)) \subseteq Ids(q) \cup {id}
<1>1. CASE n = 0
  BY <1>1 DEF Update
<1>2. CASE n # 0
  <2>1. PICK e : e = [kind |-> "window", id |-> id, n |-> n, total |-> h]
    OBVIOUS
  <2>2. e \in Control /\ e.id = id
    BY <2>1 DEF Control
  <2>3. Ids(Append(q, e)) = Ids(q) \cup {e.id}
    BY <2>2, IdsMore
  <2> QED BY <1>2, <2>1, <2>2, <2>3 DEF Update
<1> QED BY <1>1, <1>2

LEMMA EndsMore ==
  ASSUME NEW q \in Seq(Frame), NEW f \in Frame, EmptyEnds(q), f.end => f.len = 0
  PROVE  EmptyEnds(Append(q, f))
<1>1. /\ DOMAIN Append(q, f) = 1..(Len(q) + 1) /\ DOMAIN q = 1..Len(q)
      /\ \A i \in DOMAIN q : Append(q, f)[i] = q[i]
      /\ Append(q, f)[Len(q) + 1] = f /\ Len(q) \in Nat
  BY Appended
<1>2. \A i \in 1..(Len(q) + 1) : i \in 1..Len(q) \/ i = Len(q) + 1
  BY <1>1
<1> QED BY <1>1, <1>2 DEF EmptyEnds

LEMMA EndsLess ==
  ASSUME NEW q \in Seq(Frame), q # <<>>, EmptyEnds(q)
  PROVE  EmptyEnds(Tail(q))
<1>1. \A i \in DOMAIN Tail(q) : Tail(q)[i] = q[i + 1] /\ i + 1 \in DOMAIN q
  BY Rest
<1> QED BY <1>1 DEF EmptyEnds

-----------------------------------------------------------------------------
(* One step of the ledger. *)

\* The frames move by x, the increments by y; the rest of both sides by z.
FramesBy(w, x) == \A d \in Int : Carries(data, w, d) => Carries(data', w, d + x)
GrantsBy(w, y) == \A c \in Int : Gives(control, w, c) => Gives(control', w, c + y)
Balanced(w, x, y, z) == /\ remote[w] \in Int /\ remote'[w] = remote[w] + z - x - y
                        /\ Due(w) \in Int /\ Due(w)' = Due(w) + z

LEMMA EvenStep ==
  ASSUME NEW w, NEW x \in Int, NEW y \in Int, NEW z \in Int, Even(w),
         FramesBy(w, x), GrantsBy(w, y), Balanced(w, x, y, z)
  PROVE  Even(w)'
<1>1. PICK d \in Int, c \in Int :
        Carries(data, w, d) /\ Gives(control, w, c) /\ remote[w] + d + c = Due(w)
  BY DEF Even
<1>2. PICK d2 \in Int, c2 \in Int : d2 = d + x /\ c2 = c + y
  OBVIOUS
<1>3. Carries(data', w, d2) /\ Gives(control', w, c2)
  BY <1>1, <1>2 DEF FramesBy, GrantsBy
<1>4. remote'[w] + d2 + c2 = Due(w)'
  BY <1>1, <1>2 DEF Balanced
<1> QED BY <1>3, <1>4 DEF Even

LEMMA NothingMoves ==
  ASSUME NEW w
  PROVE  /\ data' = data => FramesBy(w, 0)
         /\ control' = control => GrantsBy(w, 0)
BY DEF FramesBy, GrantsBy

\* What the arithmetic needs of the types.
LEMMA LedgerTypes ==
  ASSUME Inv
  PROVE  /\ data \in Seq(Frame) /\ control \in Seq(Control)
         /\ \A w \in Windows : remote[w] \in Int /\ local[w] \in Int /\ Due(w) \in Int
         /\ opened \cup {0} \subseteq Windows /\ 0 \notin opened /\ opened \subseteq Streams
<1> USE ConstantTypes
<1>1. data \in Seq(Frame) /\ control \in Seq(Control)
  BY DEF Inv, TypeOK, Frame, Control
<1>2. \A w \in Windows : remote[w] \in Int /\ local[w] \in Int
  BY DEF Inv, TypeOK
<1>3. ASSUME NEW w \in Windows
      PROVE  Due(w) \in Int
  <2>1. CASE w = 0
    BY <1>2, <2>1 DEF Due
  <2>2. CASE w # 0
    <3>1. w \in Streams
      BY <2>2 DEF Windows
    <3>2. excess[w] \in Int /\ local[w] \in Int /\ Owed \in Int
      BY <1>2, <3>1 DEF Inv, TypeOK, Owed
    <3> QED BY <2>2, <3>2 DEF Due
  <2> QED BY <2>1, <2>2
<1>4. opened \cup {0} \subseteq Windows /\ 0 \notin opened /\ opened \subseteq Streams
  BY DEF Inv, TypeOK
<1> QED BY <1>1, <1>2, <1>3, <1>4

LEMMA LedgerRests ==
  ASSUME Ledger, UNCHANGED <<remote, data, control, local, excess, prefaceReceived, opened>>
  PROVE  Ledger'
BY DEF Ledger, Even, Due, Owed, Fresh

LEMMA LedgerOpens ==
  ASSUME Inv, Ledger, NEW s \in Streams, OpenStream(s)
  PROVE  Ledger'
<1> USE ConstantTypes
<1>1. /\ opened' = opened \cup {s} /\ s \notin opened /\ prefaceReceived
      /\ remote' = [remote EXCEPT ![s] = initRemoteWindowSize]
      /\ UNCHANGED <<data, control, local, excess, prefaceReceived>>
  BY DEF OpenStream, Inv, Waiting
<1>2. s \in Windows /\ s # 0 /\ remote \in [Windows -> Nat] /\ initRemoteWindowSize = StreamStep
  BY <1>1 DEF Inv, TypeOK, Preface
<1>3. remote'[s] = StreamStep /\ \A w \in Windows : w # s => remote'[w] = remote[w]
  BY <1>1, <1>2
<1>4. Fresh(s)
  BY <1>1 DEF Ledger
<1>5. Even(s)'
  <2>1. Carries(data', s, 0) /\ Gives(control', s, 0)
    BY <1>1, <1>2, <1>4, LedgerTypes, CarriesNone, GivesNone DEF Fresh
  <2>2. Due(s)' = StreamStep
    BY <1>1, <1>2, <1>4 DEF Due, Owed, Fresh
  <2>3. remote'[s] + 0 + 0 = Due(s)'
    BY <1>3, <2>2
  <2> QED BY <2>1, <2>3 DEF Even
<1>6. \A w \in opened \cup {0} : Even(w)'
  <2>1. \A w \in opened \cup {0} : w \in Windows /\ w # s /\ Even(w)
    BY <1>1, <1>2, LedgerTypes DEF Ledger
  <2> QED BY <1>1, <1>3, <2>1 DEF Even, Due, Owed
<1>7. \A t \in Streams \ opened' : Fresh(t)'
  BY <1>1 DEF Ledger, Fresh
<1> QED BY <1>1, <1>5, <1>6, <1>7 DEF Ledger

LEMMA LedgerSends ==
  ASSUME Inv, Ledger, NEW s \in Streams, NEW n \in Lens, SendData(s, n)
  PROVE  Ledger'
<1> USE ConstantTypes
<1>1. PICK slen, f : /\ slen = Least(Window(s), n)
                     /\ f = [id |-> s, len |-> n, end |-> FALSE, total |-> sent + n]
  OBVIOUS
<1>2. n \in Int /\ slen \in Int /\ f \in Frame /\ f.id = s /\ f.len = n /\ f.end = FALSE
  <2>1. remote[s] \in Nat /\ remote[0] \in Nat
    BY DEF Inv, TypeOK
  <2>2. n \in Nat /\ Least(Window(s), n) \in Int
    BY <2>1 DEF Window, Least, Positive
  <2>3. sent + n \in Nat
    BY <2>2 DEF Inv, TypeOK
  <2> QED BY <1>1, <2>2, <2>3 DEF Frame
<1>3. /\ data' = Append(data, f) /\ remote' = [remote EXCEPT ![0] = @ - n, ![s] = @ - slen]
      /\ excess' = [excess EXCEPT ![s] = @ + (n - slen)]
      /\ s \in opened /\ UNCHANGED <<control, local, prefaceReceived, opened>>
  BY <1>1 DEF SendData, CanSend, Buffer
<1>4. /\ remote \in [Windows -> Nat] /\ excess \in [Streams -> Nat] /\ s # 0
      /\ s \in Windows /\ remote[0] \in Int /\ remote[s] \in Int /\ excess[s] \in Int
  BY DEF Inv, TypeOK
<1>5. /\ remote'[0] = remote[0] - n /\ remote'[s] = remote[s] - slen
      /\ \A w \in Windows : w # 0 /\ w # s => remote'[w] = remote[w]
      /\ excess'[s] = excess[s] + (n - slen)
      /\ \A t \in Streams : t # s => excess'[t] = excess[t]
  BY <1>2, <1>3, <1>4
<1>6. \A w : FramesBy(w, Carried(w, f))
  BY <1>2, <1>3, LedgerTypes, CarriesMore DEF FramesBy
<1>7. \A w : GrantsBy(w, 0)
  BY <1>3, NothingMoves
<1>8. \A w \in opened \cup {0} : Even(w)'
  <2> SUFFICES ASSUME NEW w \in opened \cup {0}
               PROVE  Even(w)'
    OBVIOUS
  <2>1. Even(w) /\ w \in Windows /\ remote[w] \in Int /\ Due(w) \in Int
    BY LedgerTypes DEF Ledger
  <2>2. CASE w = 0
    <3>1. Carried(w, f) = n
      BY <1>2, <2>2 DEF Carried
    <3>2. Due(w)' = Due(w) + 0
      BY <1>3, <2>1, <2>2 DEF Due
    <3>3. Balanced(w, n, 0, 0)
      BY <1>2, <1>4, <1>5, <2>1, <2>2, <3>2 DEF Balanced
    <3>4. FramesBy(w, n)
      BY <1>6, <3>1
    <3> QED BY <1>2, <1>7, <2>1, <3>3, <3>4, EvenStep
  <2>3. CASE w = s
    <3>1. Carried(w, f) = n
      BY <1>2, <2>3 DEF Carried
    <3>2. PICK z \in Int : z = n - slen
      BY <1>2
    <3>3. Due(w)' = Due(w) + z
      <4>1. Due(w) = local[s] + excess[s] - Owed /\ Due(w)' = local[s] + (excess[s] + z) - Owed
        BY <1>3, <1>4, <1>5, <2>3, <3>2 DEF Due, Owed
      <4>2. local[s] \in Int /\ Owed \in Int
        BY <1>4, LedgerTypes DEF Owed
      <4> QED BY <1>4, <4>1, <4>2
    <3>4. Balanced(w, n, 0, z)
      BY <1>2, <1>4, <1>5, <2>1, <2>3, <3>2, <3>3 DEF Balanced
    <3>5. FramesBy(w, n)
      BY <1>6, <3>1
    <3> QED BY <1>2, <1>7, <2>1, <3>4, <3>5, EvenStep
  <2>4. CASE w # 0 /\ w # s
    <3>1. Carried(w, f) = 0
      BY <1>2, <2>4 DEF Carried
    <3>2. w \in Streams
      BY <2>1, <2>4 DEF Windows
    <3>3. Due(w)' = Due(w) + 0
      <4>1. Due(w)' = Due(w)
        BY <1>3, <1>5, <2>4, <3>2 DEF Due, Owed
      <4> QED BY <2>1, <4>1
    <3>4. Balanced(w, 0, 0, 0)
      BY <1>5, <2>1, <2>4, <3>3 DEF Balanced
    <3>5. FramesBy(w, 0)
      BY <1>6, <3>1
    <3> QED BY <1>7, <2>1, <3>4, <3>5, EvenStep
  <2> QED BY <2>2, <2>3, <2>4
<1>9. \A t \in Streams \ opened : Fresh(t)'
  <2>1. Ids(data') = Ids(data) \cup {s}
    BY <1>2, <1>3, LedgerTypes, IdsMore
  <2> QED BY <1>3, <1>5, <2>1 DEF Ledger, Fresh
<1>10. EmptyEnds(data')
  BY <1>2, <1>3, LedgerTypes, EndsMore DEF Ledger
<1> QED BY <1>3, <1>8, <1>9, <1>10 DEF Ledger

\* A frame without data leaves the books as they are.
LEMMA EmptyFrame ==
  ASSUME Inv, Ledger, NEW f \in Frame, data' = Append(data, f), f.len = 0,
         f.id \in opened \cup {0}
  PROVE  /\ \A w : FramesBy(w, 0)
         /\ \A t \in Streams \ opened : t \notin Ids(data')
         /\ EmptyEnds(data')
<1>1. \A w : Carried(w, f) = 0
  BY DEF Carried
<1>2. \A w : FramesBy(w, Carried(w, f))
  BY LedgerTypes, CarriesMore DEF FramesBy
<1>3. Ids(data') = Ids(data) \cup {f.id}
  BY LedgerTypes, IdsMore
<1>4. \A t \in Streams \ opened : t \notin Ids(data')
  BY <1>3, ConstantTypes DEF Ledger, Fresh
<1>5. EmptyEnds(data')
  BY LedgerTypes, EndsMore DEF Ledger
<1> QED BY <1>1, <1>2, <1>4, <1>5

LEMMA LedgerEnds ==
  ASSUME Inv, Ledger, NEW s \in Streams, SendEnd(s)
  PROVE  Ledger'
<1> USE ConstantTypes
<1>1. PICK f : f = [id |-> s, len |-> 0, end |-> TRUE, total |-> sent]
  OBVIOUS
<1>2. f \in Frame /\ f.len = 0 /\ f.id = s
  BY <1>1 DEF Inv, TypeOK, Frame
<1>3. /\ data' = Append(data, f) /\ s \in opened
      /\ UNCHANGED <<remote, control, local, excess, prefaceReceived, opened>>
  BY <1>1 DEF SendEnd, CanSend, Buffer
<1>4. /\ \A w : FramesBy(w, 0)
      /\ \A t \in Streams \ opened : t \notin Ids(data')
      /\ EmptyEnds(data')
  BY <1>2, <1>3, EmptyFrame
<1>5. \A w \in opened \cup {0} : Even(w)'
  <2> SUFFICES ASSUME NEW w \in opened \cup {0}
               PROVE  Even(w)'
    OBVIOUS
  <2>1. Even(w) /\ remote[w] \in Int /\ Due(w) \in Int
    BY LedgerTypes DEF Ledger
  <2>2. Balanced(w, 0, 0, 0)
    <3>1. Due(w)' = Due(w)
      BY <1>3 DEF Due, Owed
    <3> QED BY <1>3, <2>1, <3>1 DEF Balanced
  <2>3. GrantsBy(w, 0)
    BY <1>3, NothingMoves
  <2> QED BY <1>4, <2>1, <2>2, <2>3, EvenStep
<1>6. \A t \in Streams \ opened : Fresh(t)'
  BY <1>3, <1>4 DEF Ledger, Fresh
<1> QED BY <1>3, <1>4, <1>5, <1>6 DEF Ledger

\* The first control frame is taken.
LEMMA ControlLess ==
  ASSUME Inv, Ledger, control # <<>>, control' = Tail(control)
  PROVE  /\ \A w : GrantsBy(w, 0 - Given(w, control[1]))
         /\ \A w : Given(w, control[1]) \in Int
         /\ \A t \in Streams \ opened : t \notin Ids(control')
         /\ control[1] \in Control /\ Head(control) = control[1]
<1>1. control \in Seq(Control)
  BY LedgerTypes
<1>2. control[1] \in Control /\ Head(control) = control[1]
  BY <1>1, Rest
<1>3. \A w : Given(w, control[1]) \in Int
  BY <1>2, ControlGives
<1>4. ASSUME NEW w, NEW c \in Int, Gives(control, w, c)
      PROVE  Gives(control', w, c + (0 - Given(w, control[1])))
  <2>1. Gives(control', w, c - Given(w, control[1]))
    BY <1>1, <1>4, GivesLess
  <2>2. c - Given(w, control[1]) = c + (0 - Given(w, control[1]))
    BY <1>3
  <2> QED BY <2>1, <2>2
<1>5. Ids(control') \subseteq Ids(control)
  BY <1>1, IdsLess
<1>6. \A w : GrantsBy(w, 0 - Given(w, control[1]))
  BY <1>4 DEF GrantsBy
<1> QED BY <1>2, <1>3, <1>5, <1>6 DEF Ledger, Fresh

LEMMA LedgerSettings ==
  ASSUME Inv, Ledger, RecvSettings
  PROVE  Ledger'
<1> USE ConstantTypes
<1>1. PICK f : f = [id |-> 0, len |-> 0, end |-> FALSE, total |-> sent]
  OBVIOUS
<1>2. f \in Frame /\ f.len = 0 /\ f.id = 0
  BY <1>1 DEF Inv, TypeOK, Frame
<1>3. /\ data' = Append(data, f) /\ control # <<>> /\ control' = Tail(control)
      /\ Head(control).kind = "settings" /\ prefaceReceived' = TRUE
      /\ UNCHANGED <<local, excess, opened>>
  BY <1>1 DEF RecvSettings, Incoming, Arrives, Buffer
<1>4. /\ \A w : FramesBy(w, 0)
      /\ \A t \in Streams \ opened : t \notin Ids(data')
      /\ EmptyEnds(data')
  BY <1>2, <1>3, EmptyFrame
<1>5. /\ \A w : GrantsBy(w, 0 - Given(w, control[1]))
      /\ \A t \in Streams \ opened : t \notin Ids(control')
      /\ Head(control) = control[1]
  BY <1>3, ControlLess
<1>6. \A w : GrantsBy(w, 0)
  <2>1. \A w : Given(w, control[1]) = 0
    BY <1>3, <1>5 DEF Given
  <2>2. 0 - 0 = 0
    OBVIOUS
  <2> QED BY <1>5, <2>1, <2>2
<1>7. /\ ~prefaceReceived /\ Head(control).n = StreamStep
      /\ initRemoteWindowSize = DefaultWindow
  <2>1. 1 \in DOMAIN control
    BY <1>3, ControlTaken
  <2> QED BY <1>3, <1>5, <2>1 DEF Inv, Preface
<1>8. /\ \A w \in opened : remote'[w] = remote[w] + (StreamStep - DefaultWindow)
      /\ remote'[0] = remote[0]
  <2>1. 0 \notin opened /\ opened \subseteq Windows /\ remote \in [Windows -> Nat]
    BY DEF Inv, TypeOK
  <2>2. remote' = [w \in Windows |->
          IF w \in opened THEN remote[w] + (StreamStep - DefaultWindow) ELSE remote[w]]
    BY <1>7 DEF RecvSettings, Raised
  <2> QED BY <2>1, <2>2
<1>9. PICK z \in Int : z = StreamStep - DefaultWindow
  OBVIOUS
<1>10. \A w \in opened \cup {0} : Even(w)'
  <2> SUFFICES ASSUME NEW w \in opened \cup {0}
               PROVE  Even(w)'
    OBVIOUS
  <2>1. Even(w) /\ remote[w] \in Int /\ Due(w) \in Int /\ local[w] \in Int
    BY LedgerTypes DEF Ledger
  <2>2. CASE w = 0
    <3>1. Balanced(w, 0, 0, 0)
      <4>1. Due(w)' = Due(w)
        BY <1>3, <2>2 DEF Due
      <4> QED BY <1>8, <2>1, <2>2, <4>1 DEF Balanced
    <3> QED BY <1>4, <1>6, <2>1, <3>1, EvenStep
  <2>3. CASE w # 0
    <3>1. w \in opened /\ w \in Streams
      BY <2>3, LedgerTypes
    <3>2. excess[w] \in Int
      BY <3>1 DEF Inv, TypeOK
    <3>3. Due(w) = local[w] + excess[w] - z /\ Due(w)' = local[w] + excess[w] - 0
      BY <1>3, <1>7, <1>9, <2>3 DEF Due, Owed
    <3>4. Due(w)' = Due(w) + z
      BY <2>1, <3>2, <3>3
    <3>5. Balanced(w, 0, 0, z)
      BY <1>8, <1>9, <2>1, <3>1, <3>4 DEF Balanced
    <3> QED BY <1>4, <1>6, <2>1, <3>5, EvenStep
  <2> QED BY <2>2, <2>3
<1>11. \A t \in Streams \ opened : Fresh(t)'
  BY <1>3, <1>4, <1>5 DEF Ledger, Fresh
<1> QED BY <1>3, <1>4, <1>10, <1>11 DEF Ledger

\* Any WINDOW_UPDATE: the sender gets what was on its way to it.
LEMMA LedgerUpdate ==
  ASSUME Inv, Ledger, control # <<>>, control' = Tail(control), Head(control).kind = "window",
         Head(control).id \in Windows,
         remote' = [remote EXCEPT ![Head(control).id] = @ + Head(control).n],
         UNCHANGED <<data, local, excess, prefaceReceived, opened>>
  PROVE  Ledger'
<1>0. PICK id \in Windows : id = Head(control).id
  OBVIOUS
<1>1. PICK n : id = Head(control).id /\ n = Head(control).n
  BY <1>0
<1>2. /\ \A w : GrantsBy(w, 0 - Given(w, control[1]))
      /\ \A t \in Streams \ opened : t \notin Ids(control')
      /\ control[1] \in Control /\ Head(control) = control[1]
  BY ControlLess
<1>3. n \in Int /\ \A w : Given(w, control[1]) = IF w = id THEN n ELSE 0
  BY <1>1, <1>2 DEF Control, Given
<1>4. remote \in [Windows -> Nat] /\ remote' = [remote EXCEPT ![id] = remote[id] + n]
  BY <1>1 DEF Inv, TypeOK
<1>5. remote'[id] = remote[id] + n /\ \A w \in Windows : w # id => remote'[w] = remote[w]
  BY <1>4
<1>6. \A w \in opened \cup {0} : Even(w)'
  <2> SUFFICES ASSUME NEW w \in opened \cup {0}
               PROVE  Even(w)'
    OBVIOUS
  <2>1. Even(w) /\ remote[w] \in Int /\ Due(w) \in Int /\ w \in Windows
    BY LedgerTypes DEF Ledger
  <2>2. PICK y \in Int : y = 0 - Given(w, control[1])
    BY <1>3
  <2>3. GrantsBy(w, y)
    BY <1>2, <2>2
  <2>4. FramesBy(w, 0)
    BY NothingMoves
  <2>5. Due(w)' = Due(w)
    BY DEF Due, Owed
  <2>6. remote'[w] = remote[w] - y
    <3>1. CASE w = id
      BY <1>3, <1>5, <2>1, <2>2, <3>1
    <3>2. CASE w # id
      BY <1>3, <1>5, <2>1, <2>2, <3>2
    <3> QED BY <3>1, <3>2
  <2>7. Balanced(w, 0, y, 0)
    BY <2>1, <2>5, <2>6 DEF Balanced
  <2> QED BY <2>1, <2>2, <2>3, <2>4, <2>7, EvenStep
<1>7. \A t \in Streams \ opened : Fresh(t)'
  BY <1>2 DEF Ledger, Fresh
<1> QED BY <1>6, <1>7 DEF Ledger


\* What handleDataFrame does with a frame of a stream: both windows are refilled, and
\* both refills are said, as a frame with END_STREAM never calls for one.
LEMMA DataTaken ==
  ASSUME Inv, EmptyEnds(data), RecvData, NEW f \in Frame, f = Head(data), f = data[1],
         f.id \in Streams, 1 \in DOMAIN data
  PROVE  \E d0, ds \in Nat :
           /\ local'[0] = local[0] - f.len + d0
           /\ local'[f.id] = local[f.id] - f.len + ds
           /\ \A s \in Streams : s # f.id => local'[s] = local[s]
           /\ control' = Update(Update(control, 0, d0, granted'), f.id, ds, granted')
<1> USE ConstantTypes
<1>1. PICK d0, ds : /\ d0 = Delta(local[0], f.len, ConnMin, ConnStep)
                    /\ ds = Delta(local[f.id], f.len, StreamMin, StreamStep)
  OBVIOUS
<1>2. f.id # 0 /\ f.len \in Nat /\ local \in [Windows -> Int] /\ f.id \in Windows
  BY DEF Inv, TypeOK, Frame
<1>3. PICK a, b \in Int : a = local[0] /\ b = local[f.id]
  BY <1>2
<1>4. ConnMin <= a /\ a <= ConnStep /\ StreamMin <= b /\ b <= StreamStep
  BY <1>3 DEF Inv, Locals
<1>5. d0 = Delta(a, f.len, ConnMin, ConnStep) /\ ds = Delta(b, f.len, StreamMin, StreamStep)
  BY <1>1, <1>3
<1>6. d0 \in Nat /\ ds \in Nat /\ (f.len = 0 => ds = 0)
  <2>1. PICK n \in Nat : n = f.len
    BY <1>2
  <2>2. /\ ConnMin \in Nat /\ ConnStep \in Nat /\ StreamMin \in Nat /\ StreamStep \in Nat
        /\ ConnMin <= a /\ a <= ConnStep /\ StreamMin <= b /\ b <= StreamStep
    BY <1>4
  <2>3. Delta(a, n, ConnMin, ConnStep) \in Nat
    BY <2>2, DeltaRefills
  <2>4. /\ Delta(b, n, StreamMin, StreamStep) \in Nat
        /\ n = 0 => Delta(b, n, StreamMin, StreamStep) = 0
    BY <2>2, DeltaRefills
  <2> QED BY <1>5, <2>1, <2>3, <2>4
<1>7. (IF f.end THEN 0 ELSE ds) = ds
  BY <1>6 DEF EmptyEnds
<1>8. control' = Update(Update(control, 0, d0, granted'), f.id, ds, granted')
  <2>1. control' = Update(Update(control, 0, d0, granted'), f.id,
                          IF f.end THEN 0 ELSE ds, granted')
    BY <1>1, <1>2 DEF RecvData
  <2> QED BY <1>7, <2>1
<1>9. local' = [local EXCEPT ![0] = a - f.len + d0, ![f.id] = b - f.len + ds]
  <2>1. local' = [local EXCEPT ![0] = Refilled(@ - f.len, d0), ![f.id] = Refilled(@ - f.len, ds)]
    BY <1>1, <1>2 DEF RecvData
  <2> QED BY <1>2, <1>3, <2>1 DEF Refilled
<1>10. PICK x, y : x = a - f.len + d0 /\ y = b - f.len + ds
  OBVIOUS
<1>11. local' = [local EXCEPT ![0] = x, ![f.id] = y]
  BY <1>9, <1>10
<1>12. local'[0] = x /\ local'[f.id] = y /\ \A s \in Streams : s # f.id => local'[s] = local[s]
  BY <1>2, <1>11
<1> QED BY <1>3, <1>6, <1>8, <1>10, <1>12

\* The two updates that answer a frame.
LEMMA TwoUpdates ==
  ASSUME Inv, NEW id \in Streams, NEW d0 \in Nat, NEW ds \in Nat, granted' \in Nat,
         control' = Update(Update(control, 0, d0, granted'), id, ds, granted')
  PROVE  /\ GrantsBy(0, d0) /\ GrantsBy(id, ds)
         /\ \A w : w # 0 /\ w # id => GrantsBy(w, 0)
         /\ Ids(control') \subseteq Ids(control) \cup {0, id}
<1> USE ConstantTypes
<1>1. PICK h \in Nat : h = granted'
  OBVIOUS
<1>2. PICK q : q = Update(control, 0, d0, h)
  OBVIOUS
<1>3. control' = Update(q, id, ds, h)
  BY <1>1, <1>2
<1>4. control \in Seq(Control) /\ id \in Windows /\ 0 \in Windows
  BY LedgerTypes
<1>5. q \in Seq(Control)
  <2>1. Adds(q, control, 0, d0, h)
    BY <1>2, <1>4, Updated, Zenon
  <2> QED BY <2>1 DEF Adds
<1>6. ASSUME NEW w, NEW c \in Int, Gives(control, w, c)
      PROVE  Gives(q, w, c + (IF 0 = w THEN d0 ELSE 0))
  BY <1>2, <1>4, <1>6, GivesUpdate, Zenon
<1>7. ASSUME NEW w, NEW c \in Int, Gives(q, w, c)
      PROVE  Gives(control', w, c + (IF id = w THEN ds ELSE 0))
  <2>1. Gives(Update(q, id, ds, h), w, c + (IF id = w THEN ds ELSE 0))
    BY <1>4, <1>5, <1>7, GivesUpdate, Zenon
  <2> QED BY <1>3, <2>1
<1>8. GrantsBy(0, d0)
  <2> SUFFICES ASSUME NEW c \in Int, Gives(control, 0, c)
               PROVE  Gives(control', 0, c + d0)
    BY DEF GrantsBy
  <2>1. Gives(q, 0, c + d0)
    BY <1>6
  <2>2. PICK e \in Int : e = c + d0
    OBVIOUS
  <2>3. Gives(control', 0, e + 0)
    BY <1>7, <2>1, <2>2
  <2>4. e + 0 = c + d0
    BY <2>2
  <2> QED BY <2>3, <2>4
<1>9. ASSUME NEW w, w # 0
      PROVE  GrantsBy(w, IF id = w THEN ds ELSE 0)
  <2> SUFFICES ASSUME NEW c \in Int, Gives(control, w, c)
               PROVE  Gives(control', w, c + (IF id = w THEN ds ELSE 0))
    BY DEF GrantsBy
  <2>1. Gives(q, w, c + 0)
    BY <1>6, <1>9
  <2>2. c + 0 = c
    OBVIOUS
  <2> QED BY <1>7, <2>1, <2>2
<1>10. GrantsBy(id, ds) /\ \A w : w # 0 /\ w # id => GrantsBy(w, 0)
  BY <1>9
<1>11. Ids(control') \subseteq Ids(control) \cup {0, id}
  <2>1. Ids(q) \subseteq Ids(control) \cup {0}
    BY <1>2, <1>4, IdsUpdate
  <2>2. Ids(control') \subseteq Ids(q) \cup {id}
    BY <1>3, <1>4, <1>5, IdsUpdate
  <2> QED BY <2>1, <2>2
<1> QED BY <1>8, <1>10, <1>11

\* The first frame is taken.
LEMMA DataLess ==
  ASSUME Inv, Ledger, data # <<>>, data' = Tail(data)
  PROVE  /\ \A w : FramesBy(w, 0 - Carried(w, data[1])) /\ Carried(w, data[1]) \in Int
         /\ \A t \in Streams \ opened : t \notin Ids(data')
         /\ data[1].id \in opened \cup {0}
         /\ EmptyEnds(data')
         /\ data[1] \in Frame /\ Head(data) = data[1] /\ 1 \in DOMAIN data
<1>1. data \in Seq(Frame)
  BY LedgerTypes
<1>2. data[1] \in Frame /\ Head(data) = data[1] /\ 1 \in DOMAIN data
  BY <1>1
<1>3. \A w : Carried(w, data[1]) \in Int
  BY <1>2, FrameCarries
<1>4. ASSUME NEW w, NEW d \in Int, Carries(data, w, d)
      PROVE  Carries(data', w, d + (0 - Carried(w, data[1])))
  <2>1. Carries(data', w, d - Carried(w, data[1]))
    BY <1>1, <1>4, CarriesLess
  <2>2. d - Carried(w, data[1]) = d + (0 - Carried(w, data[1]))
    BY <1>3
  <2> QED BY <2>1, <2>2
<1>5. Ids(data') \subseteq Ids(data) /\ data[1].id \in Ids(data)
  BY <1>1, IdsLess
<1>6. data[1].id \in opened \cup {0}
  <2>1. data[1].id \in Windows
    BY <1>2 DEF Frame
  <2> QED BY <1>5, <2>1 DEF Ledger, Fresh, Windows
<1>7. EmptyEnds(data')
  BY <1>1, EndsLess DEF Ledger
<1>8. \A w : FramesBy(w, 0 - Carried(w, data[1]))
  BY <1>4 DEF FramesBy
<1> QED BY <1>2, <1>3, <1>5, <1>6, <1>7, <1>8 DEF Ledger, Fresh

LEMMA LedgerData ==
  ASSUME Inv, Ledger, RecvData
  PROVE  Ledger'
<1> USE ConstantTypes
<1>1. data # <<>> /\ data' = Tail(data)
  BY DEF RecvData, Inv, TypeOK
<1>2. PICK f \in Frame : f = data[1] /\ f = Head(data)
  BY <1>1, DataLess
<1>3. /\ \A w : FramesBy(w, 0 - Carried(w, f)) /\ Carried(w, f) \in Int
      /\ \A t \in Streams \ opened : t \notin Ids(data')
      /\ f.id \in opened \cup {0} /\ EmptyEnds(data') /\ 1 \in DOMAIN data
  BY <1>1, <1>2, DataLess
<1>4. UNCHANGED <<remote, excess, prefaceReceived, opened>>
  BY DEF RecvData, senderVars
<1>5. CASE f.id = 0
  <2>1. UNCHANGED <<local, control>>
    BY <1>2, <1>5 DEF RecvData
  <2>2. f.len = 0
    BY <1>2, <1>3, <1>5 DEF Inv, FrameLengths
  <2>3. \A w : FramesBy(w, 0)
    <3>1. \A w : Carried(w, f) = 0
      BY <2>2 DEF Carried
    <3>2. 0 - 0 = 0
      OBVIOUS
    <3> QED BY <1>3, <3>1, <3>2
  <2>4. \A w \in opened \cup {0} : Even(w)'
    <3> SUFFICES ASSUME NEW w \in opened \cup {0}
                 PROVE  Even(w)'
      OBVIOUS
    <3>1. Even(w) /\ remote[w] \in Int /\ Due(w) \in Int
      BY LedgerTypes DEF Ledger
    <3>2. Due(w)' = Due(w)
      BY <1>4, <2>1 DEF Due, Owed
    <3>3. Balanced(w, 0, 0, 0)
      BY <1>4, <3>1, <3>2 DEF Balanced
    <3>4. GrantsBy(w, 0)
      BY <2>1, NothingMoves
    <3> QED BY <2>3, <3>1, <3>3, <3>4, EvenStep
  <2>5. \A t \in Streams \ opened : Fresh(t)'
    BY <1>3, <1>4, <2>1 DEF Ledger, Fresh
  <2> QED BY <1>3, <1>4, <2>4, <2>5 DEF Ledger
<1>6. CASE f.id # 0
  <2>1. f.id \in Streams /\ f.id \in opened /\ f.len \in Int /\ f.id \in Windows
    BY <1>3, <1>6, LedgerTypes DEF Frame
  <2>2. PICK d0 \in Nat, ds \in Nat :
          /\ local'[0] = local[0] - f.len + d0
          /\ local'[f.id] = local[f.id] - f.len + ds
          /\ \A s \in Streams : s # f.id => local'[s] = local[s]
          /\ control' = Update(Update(control, 0, d0, granted'), f.id, ds, granted')
    BY <1>2, <1>3, <2>1, DataTaken DEF Ledger
  <2>3. /\ GrantsBy(0, d0) /\ GrantsBy(f.id, ds)
        /\ \A w : w # 0 /\ w # f.id => GrantsBy(w, 0)
        /\ Ids(control') \subseteq Ids(control) \cup {0, f.id}
    <3>1. granted' \in Nat
      BY RecvDataInv DEF Inv, TypeOK
    <3> QED BY <2>1, <2>2, <3>1, TwoUpdates
  <2>4. PICK x \in Int : x = 0 - f.len
    BY <2>1
  <2>5. FramesBy(0, x) /\ FramesBy(f.id, x) /\ \A w : w # 0 /\ w # f.id => FramesBy(w, 0)
    <3>1. /\ Carried(0, f) = f.len /\ Carried(f.id, f) = f.len
          /\ \A w : w # 0 /\ w # f.id => Carried(w, f) = 0
      BY DEF Carried
    <3>2. 0 - 0 = 0
      OBVIOUS
    <3> QED BY <1>3, <2>4, <3>1, <3>2
  <2>6. \A w \in opened \cup {0} : Even(w)'
    <3> SUFFICES ASSUME NEW w \in opened \cup {0}
                 PROVE  Even(w)'
      OBVIOUS
    <3>1. Even(w) /\ remote[w] \in Int /\ Due(w) \in Int /\ local[w] \in Int /\ w \in Windows
      BY LedgerTypes DEF Ledger
    <3>2. CASE w = 0
      <4>1. PICK z \in Int : z = x + d0
        OBVIOUS
      <4>2. Due(w)' = Due(w) + z
        BY <2>1, <2>2, <2>4, <3>1, <3>2, <4>1 DEF Due
      <4>3. Balanced(w, x, d0, z)
        BY <1>4, <3>1, <4>1, <4>2 DEF Balanced
      <4>4. FramesBy(w, x) /\ GrantsBy(w, d0) /\ d0 \in Int
        BY <2>3, <2>5, <3>2
      <4> QED BY <3>1, <4>3, <4>4, EvenStep
    <3>3. CASE w = f.id
      <4>1. PICK z \in Int : z = x + ds
        OBVIOUS
      <4>2. Due(w)' = Due(w) + z
        <5>1. Due(w) = local[w] + excess[w] - Owed
          BY <1>6, <3>3 DEF Due
        <5>2. Due(w)' = (local[w] - f.len + ds) + excess[w] - Owed
          BY <1>4, <1>6, <2>2, <3>3 DEF Due, Owed
        <5>3. excess[w] \in Int /\ Owed \in Int
          BY <2>1, <3>3 DEF Inv, TypeOK, Owed
        <5> QED BY <2>1, <2>4, <3>1, <4>1, <5>1, <5>2, <5>3
      <4>3. Balanced(w, x, ds, z)
        BY <1>4, <3>1, <4>1, <4>2 DEF Balanced
      <4>4. FramesBy(w, x) /\ GrantsBy(w, ds) /\ ds \in Int
        BY <2>3, <2>5, <3>3
      <4> QED BY <3>1, <4>3, <4>4, EvenStep
    <3>4. CASE w # 0 /\ w # f.id
      <4>1. Due(w)' = Due(w)
        BY <1>4, <2>2, <3>1, <3>4 DEF Due, Owed, Windows
      <4>2. Balanced(w, 0, 0, 0)
        BY <1>4, <3>1, <4>1 DEF Balanced
      <4>3. FramesBy(w, 0) /\ GrantsBy(w, 0)
        BY <2>3, <2>5, <3>4
      <4> QED BY <3>1, <4>2, <4>3, EvenStep
    <3> QED BY <3>2, <3>3, <3>4
  <2>7. \A t \in Streams \ opened : Fresh(t)'
    <3> SUFFICES ASSUME NEW t \in Streams \ opened
                 PROVE  Fresh(t)'
      OBVIOUS
    <3>1. t # f.id /\ t # 0 /\ Fresh(t)
      BY <2>1 DEF Ledger
    <3> QED BY <1>3, <1>4, <2>2, <2>3, <3>1 DEF Fresh
  <2> QED BY <1>3, <1>4, <2>6, <2>7 DEF Ledger
<1> QED BY <1>5, <1>6

-----------------------------------------------------------------------------
(* Where the ledger begins, and every step. *)

\* The update of window 0 that the preface holds is due; so is the SETTINGS' excess.
LEMMA InitLedger == Init => Ledger
<1> SUFFICES ASSUME Init PROVE Ledger
  OBVIOUS
<1> USE ConstantTypes
<1>1. PICK f, s, u : /\ f = [id |-> 0, len |-> 0, end |-> FALSE, total |-> 0]
                     /\ s = [kind |-> "settings", id |-> 0, n |-> StreamStep, total |-> 0]
                     /\ u = [kind |-> "window", id |-> 0, n |-> ConnStep, total |-> ConnStep]
  OBVIOUS
<1>2. data = <<f>> /\ control = <<s, u>>
  BY <1>1 DEF Init
<1>3. f \in Frame /\ s \in Control /\ u \in Control
  BY <1>1 DEF Frame, Control
<1>4. Ids(data) = {0} /\ Ids(control) = {0}
  BY <1>1, <1>2 DEF Ids
<1>5. \A w : Carries(data, w, 0)
  <2> SUFFICES ASSUME NEW w
               PROVE  Carries(data, w, 0)
    OBVIOUS
  <2>1. PICK F : F = [i \in 1..1 |-> Carried(w, data[i])]
    OBVIOUS
  <2>2. Len(data) = 1 /\ \A i \in 1..1 : F[i] = 0
    BY <1>1, <1>2, <2>1 DEF Carried
  <2> QED BY <2>1, <2>2, SumOfZeros DEF Carries
<1>6. Gives(control, 0, ConnStep)
  <2>1. PICK F : F = [i \in 1..2 |-> Given(0, control[i])]
    OBVIOUS
  <2>2. Len(control) = 2 /\ F[1] = 0 /\ F[2] = ConnStep
    BY <1>1, <1>2, <2>1 DEF Given
  <2>3. Sums(F, 1, 0)
    <3>1. \A i \in 1..1 : F[i] = 0
      BY <2>2
    <3> QED BY <3>1, SumOfZeros
  <2>4. Sums(F, 1 + 1, 0 + ConnStep)
    <3>1. F[1 + 1] = ConnStep /\ ConnStep \in Int
      BY <2>2
    <3> QED BY <2>3, <3>1, SumGrows
  <2>5. 1 + 1 = 2 /\ 0 + ConnStep = ConnStep
    OBVIOUS
  <2> QED BY <2>1, <2>2, <2>4, <2>5 DEF Gives
<1>7. Even(0)
  <2>1. remote[0] = DefaultWindow /\ Due(0) = ConnStep + DefaultWindow
    BY DEF Init, Due
  <2>2. remote[0] + 0 + ConnStep = Due(0)
    BY <2>1
  <2>3. ConnStep \in Int
    OBVIOUS
  <2> QED BY <1>5, <1>6, <2>2, <2>3 DEF Even
<1>8. ASSUME NEW w \in opened
      PROVE  Even(w)
  <2>1. w \in Streams /\ w # 0
    BY DEF Init
  <2>2. Gives(control, w, 0)
    <3>1. control \in Seq(Control)
      BY <1>2, <1>3
    <3> QED BY <1>4, <2>1, <3>1, GivesNone
  <2>3. remote[w] = DefaultWindow /\ local[w] = StreamStep /\ excess[w] = 0
        /\ Owed = StreamStep - DefaultWindow
    BY <2>1 DEF Init, Owed
  <2>4. remote[w] + 0 + 0 = Due(w)
    BY <2>1, <2>3 DEF Due
  <2> QED BY <1>5, <2>2, <2>4 DEF Even
<1>9. \A s2 \in Streams : Fresh(s2)
  BY <1>4 DEF Fresh, Init
<1>10. EmptyEnds(data)
  BY <1>1, <1>2 DEF EmptyEnds
<1> QED BY <1>7, <1>8, <1>9, <1>10 DEF Ledger

LEMMA NextLedger ==
  ASSUME Inv, Ledger, [Next]_vars
  PROVE  Ledger'
<1>1. CASE UNCHANGED vars
  BY <1>1, LedgerRests DEF vars, senderVars
<1>2. CASE Application
  <2>1. ASSUME NEW s \in Streams, NoWindow(s) \/ \E n \in Lens : Refused(s, n)
        PROVE  Ledger'
    BY <2>1, LedgerRests DEF NoWindow, Refused
  <2> QED BY <1>2, <2>1, LedgerOpens, LedgerSends, LedgerEnds DEF Application
<1>3. CASE Notifying \/ WriteEvent
  BY <1>3, LedgerRests DEF Notifying, NotifyEnd, NotifyNext, WriteEvent
<1>4. CASE RecvControl
  <2>1. CASE RecvSettings
    BY <2>1, LedgerSettings
  <2>2. CASE RecvConnUpdate
    <3>1. 0 \in Windows
      BY ConstantTypes
    <3> QED BY <2>2, <3>1, LedgerUpdate DEF RecvConnUpdate, Incoming, Arrives
  <2>3. CASE RecvStreamUpdate
    <3>1. control # <<>>
      BY <2>3 DEF RecvStreamUpdate, Incoming, Arrives
    <3>2. Head(control) \in Control
      BY <3>1, LedgerTypes, Rest
    <3>3. Head(control).id \in Windows
      BY <3>2 DEF Control
    <3> QED BY <2>3, <3>3, LedgerUpdate DEF RecvStreamUpdate, Incoming, Arrives
  <2>4. CASE RefuseUpdate
    BY <2>4, LedgerRests DEF RefuseUpdate
  <2> QED BY <1>4, <2>1, <2>2, <2>3, <2>4 DEF RecvControl
<1>5. CASE RecvData
  BY <1>5, LedgerData
<1> QED BY <1>1, <1>2, <1>3, <1>4, <1>5 DEF Next

-----------------------------------------------------------------------------
(* The theorems. *)

LEMMA StutterInv ==
  ASSUME Inv, UNCHANGED vars
  PROVE  Inv'
<1>1. TypeOK' /\ Preface' /\ Waiting'
  BY DEF Inv, TypeOK, Preface, Waiting, BlockedHasWaker, vars, senderVars
<1> QED BY <1>1, Quiet DEF vars, senderVars

\* The inductive invariant holds of every reachable state: what is under way in each
\* direction lies in order between what one end has done and what the other knows.
THEOREM Invariance == Spec => []Inv
<1>1. Init => Inv
  BY InitInv
<1>2. Inv /\ [Next]_vars => Inv'
  <2> SUFFICES ASSUME Inv, [Next]_vars PROVE Inv'
    OBVIOUS
  <2>1. CASE Application
    BY <2>1, OpenStreamInv, NoWindowInv, SendEndInv, RefusedInv, SendDataInv DEF Application
  <2>2. CASE Notifying
    BY <2>2, NotifyEndInv, NotifyNextInv DEF Notifying
  <2>3. CASE WriteEvent
    BY <2>3, WriteEventInv
  <2>4. CASE RecvControl
    BY <2>4, RecvSettingsInv, RecvConnUpdateInv, RecvStreamUpdateInv, RefuseUpdateInv
       DEF RecvControl
  <2>5. CASE RecvData
    BY <2>5, RecvDataInv
  <2>6. CASE UNCHANGED vars
    BY <2>6, StutterInv
  <2> QED BY <2>1, <2>2, <2>3, <2>4, <2>5, <2>6 DEF Next
<1> QED BY <1>1, <1>2, PTL DEF Spec

\* Types, and no window of the sender below zero (sendData, sendH2Frame).
THEOREM TypeCorrect == Spec => []TypeOK
<1>1. Inv => TypeOK
  BY DEF Inv
<1> QED BY <1>1, Invariance, PTL

\* The sender keeps to what the receiver granted (sendH2Frame, bytesReceived).
THEOREM GrantIsKept == Spec => []SentWithinGrant
<1>1. Inv => SentWithinGrant
  BY ConstantTypes DEF Inv, TypeOK, Grants, Applied, SentWithinGrant
<1> QED BY <1>1, Invariance, PTL

\* No update between two ends of Nutil overflows a window (handleWindowUpdateFrame).
THEOREM NoUpdateRefused == Spec => []UpdatesFit
<1>1. Inv => UpdatesFit
  <2> USE ConstantTypes
  <2> SUFFICES ASSUME Inv, NEW i \in DOMAIN control, control[i].kind = "window"
               PROVE  Positive(remote[0]) + control[i].n <= MaxWindow
    BY DEF UpdatesFit
  <2>1. /\ control[i].n \in Nat /\ control[i].total \in Nat /\ control[i].id \in Windows
        /\ remote[0] \in Nat /\ sent \in Nat /\ granted \in Nat /\ local[0] \in Int
    <3>1. control \in Seq(Control)
      BY DEF Inv, TypeOK, Control
    <3>2. control[i] \in Control
      BY <3>1
    <3> QED BY <3>2 DEF Control, Inv, TypeOK
  <2>2. Positive(remote[0]) = remote[0]
    BY <2>1 DEF Positive
  <2>3. remote[0] <= DefaultWindow + ConnStep /\ granted <= sent + ConnStep
    <3>1. Received <= sent /\ Applied <= granted /\ local[0] <= ConnStep
      BY DEF Inv, Flight, Grants, Locals
    <3> QED BY <2>1, <3>1 DEF Received, Applied
  <2>4. CASE control[i].id = 0
    <3>1. ConnUpdate(i)
      BY <2>4 DEF ConnUpdate
    <3>2. Applied <= control[i].total - control[i].n /\ control[i].total <= granted
      BY <3>1 DEF Inv, Grants
    <3>3. remote[0] + control[i].n <= DefaultWindow + ConnStep
      BY <2>1, <2>3, <3>2 DEF Applied
    <3>4. DefaultWindow + ConnStep <= MaxWindow
      BY WindowsFit
    <3> QED BY <2>1, <2>2, <3>3, <3>4
  <2>5. CASE control[i].id # 0
    <3>1. PICK l \in Lens : control[i].n <= StreamStep - StreamMin + l
      BY <2>5 DEF Inv, StreamUpdates
    <3>2. DefaultWindow + ConnStep + StreamStep - StreamMin + l <= MaxWindow
      BY WindowsFit
    <3>3. l \in Nat
      OBVIOUS
    <3> QED BY <2>1, <2>2, <2>3, <3>1, <3>2, <3>3
  <2> QED BY <2>4, <2>5
<1> QED BY <1>1, Invariance, PTL

\* A blocked stream always has somebody to wake it (appendBlockedStream, onWrite).
THEOREM BlockedIsNotForgotten == Spec => []BlockedHasWaker
<1>1. Inv => BlockedHasWaker
  BY DEF Inv, Waiting
<1> QED BY <1>1, Invariance, PTL

\* Once nothing is under way the two ends agree on every window, whatever crossed
\* before, but for what sendData did not charge (applySettings, bytesReceived,
\* handleWindowUpdateFrame): what was under way was the whole difference.
THEOREM QuietEndsAgree == Spec => []QuietAgreement
<1>1. Init => Inv /\ Ledger
  BY InitInv, InitLedger
<1>2. (Inv /\ Ledger) /\ Inv' /\ [Next]_vars => (Inv /\ Ledger)'
  BY NextLedger
<1>3. Inv /\ Ledger => QuietAgreement
  <2> SUFFICES ASSUME Inv, Ledger, data = <<>>, control = <<>>
               PROVE  /\ remote[0] = local[0] + DefaultWindow
                      /\ \A s \in opened : remote[s] = local[s] + excess[s]
    BY DEF QuietAgreement
  <2>1. Len(data) = 0 /\ Len(control) = 0
    OBVIOUS
  <2>2. ASSUME NEW w \in opened \cup {0}
        PROVE  remote[w] = Due(w)
    <3>1. Even(w) /\ remote[w] \in Int
      BY LedgerTypes DEF Ledger
    <3>2. PICK d \in Int, c \in Int :
            Carries(data, w, d) /\ Gives(control, w, c) /\ remote[w] + d + c = Due(w)
      BY <3>1 DEF Even
    <3>3. d = 0
      BY <2>1, <3>2, SumOfNothing DEF Carries
    <3>4. c = 0
      BY <2>1, <3>2, SumOfNothing DEF Gives
    <3> QED BY <3>1, <3>2, <3>3, <3>4
  <2>3. prefaceReceived
    BY DEF Inv, Preface
  <2>4. remote[0] = local[0] + DefaultWindow
    BY <2>2 DEF Due
  <2>5. ASSUME NEW s \in opened
        PROVE  remote[s] = local[s] + excess[s]
    <3>1. s # 0 /\ s \in Streams /\ s \in Windows /\ local[s] \in Int
      BY LedgerTypes, ConstantTypes
    <3>2. excess[s] \in Int
      BY <3>1 DEF Inv, TypeOK
    <3>3. remote[s] = local[s] + excess[s] - 0
      BY <2>2, <2>3, <3>1 DEF Due, Owed
    <3> QED BY <3>1, <3>2, <3>3
  <2> QED BY <2>4, <2>5
<1> QED BY <1>1, <1>2, <1>3, Invariance, PTL DEF Spec
=============================================================================
