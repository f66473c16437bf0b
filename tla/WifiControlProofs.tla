-------------------------- MODULE WifiControlProofs --------------------------
(***************************************************************************)
(* Proofs about WifiControl, for any configurations, any capacity of       *)
(* req_queue and any number of requests and of happenings on the air.      *)
(***************************************************************************)
EXTENDS WifiControl, SequenceTheorems, TLAPS

DrvType == [initCfg : InitCfgs \cup {None}, started : BOOLEAN,
            link : {"idle", "connecting", "up"}, cfg : StaCfgs \cup {None}]

Station == {"CONNECTED", "DISCONNECTED"}
StaIn(q) == {i \in 1..Len(q) : q[i] \in Station}

\* The last station event of q says whether the station is up; if there is
\* none, n says what must hold.
ViewIs(q, n, up) ==
  /\ StaIn(q) = {} => n
  /\ \A i \in StaIn(q) : (\A j \in StaIn(q) : j <= i) => (q[i] = "CONNECTED" <=> up)

-----------------------------------------------------------------------------
\* What posting events does to the view: none of them about the station, ...
LEMMA ViewOther ==
  ASSUME NEW q \in Seq(Events), NEW e \in Events, e \notin Station,
         NEW n \in BOOLEAN, NEW up \in BOOLEAN, ViewIs(q, n, up)
  PROVE  /\ q \o <<e>> \in Seq(Events)
         /\ ViewIs(q \o <<e>>, n, up)
<1> DEFINE t == q \o <<e>>
<1>1. /\ t \in Seq(Events) /\ Len(t) = Len(q) + 1 /\ t[Len(q) + 1] = e
      /\ \A i \in 1..Len(q) : t[i] = q[i]
      /\ Len(q) \in Nat
  OBVIOUS
<1>2. StaIn(t) = StaIn(q)
  BY <1>1 DEF StaIn
<1>3. \A i \in StaIn(q) : t[i] = q[i]
  BY <1>1 DEF StaIn
<1> HIDE DEF t
<1>4. QED
  BY <1>1, <1>2, <1>3 DEF ViewIs, t

\* ... or one about the station.
LEMMA ViewStation ==
  ASSUME NEW q \in Seq(Events), NEW e \in Station, NEW n \in BOOLEAN
  PROVE  /\ q \o <<e>> \in Seq(Events)
         /\ ViewIs(q \o <<e>>, n, e = "CONNECTED")
<1> DEFINE t == q \o <<e>>
<1>0. e \in Events
  BY DEF Station, Events
<1>1. /\ t \in Seq(Events) /\ Len(t) = Len(q) + 1 /\ t[Len(q) + 1] = e
      /\ Len(q) \in Nat
  BY <1>0
<1> HIDE DEF t
<1>2. Len(q) + 1 \in StaIn(t) /\ \A j \in StaIn(t) : j <= Len(q) + 1
  BY <1>1 DEF StaIn
<1>3. ASSUME NEW i \in StaIn(t), \A j \in StaIn(t) : j <= i
      PROVE  i = Len(q) + 1
  <2>1. i \in 1..(Len(q) + 1) /\ Len(q) + 1 <= i
    BY <1>1, <1>2, <1>3 DEF StaIn
  <2>2. QED
    BY <2>1, <1>1
<1>4. ASSUME NEW i \in StaIn(t), \A j \in StaIn(t) : j <= i
      PROVE  t[i] = e
  BY <1>1, <1>3, <1>4
<1>5. QED
  BY <1>1, <1>2, <1>4 DEF ViewIs, t

\* Taking an event leaves the others: the view is unchanged when something
\* about the station remains, and is what the event says when nothing does.
LEMMA ViewTail ==
  ASSUME NEW q \in Seq(Events), q # <<>>, NEW n \in BOOLEAN, NEW up \in BOOLEAN,
         ViewIs(q, n, up)
  PROVE  /\ Tail(q) \in Seq(Events) /\ Head(q) \in Events
         /\ Head(q) \notin Station => ViewIs(Tail(q), n, up)
         /\ Head(q) \in Station => ViewIs(Tail(q), (Head(q) = "CONNECTED" <=> up), up)
<1> DEFINE t == Tail(q)
<1>1. /\ t \in Seq(Events) /\ Len(q) = Len(t) + 1 /\ Head(q) = q[1] /\ Head(q) \in Events
      /\ \A i \in 1..Len(t) : t[i] = q[i + 1]
      /\ Len(t) \in Nat
  OBVIOUS
<1> HIDE DEF t
<1>2. \A i \in StaIn(t) : i + 1 \in StaIn(q) /\ t[i] = q[i + 1]
  BY <1>1 DEF StaIn
<1>3. \A i \in StaIn(q) : i = 1 \/ i - 1 \in StaIn(t)
  BY <1>1 DEF StaIn
<1>4. StaIn(t) \subseteq Int /\ StaIn(q) \subseteq Int
  BY DEF StaIn
<1>5. ASSUME NEW i \in StaIn(t), \A j \in StaIn(t) : j <= i
      PROVE  t[i] = "CONNECTED" <=> up
  <2>1. \A j \in StaIn(q) : j <= i + 1
    BY <1>1, <1>3, <1>4, <1>5 DEF StaIn
  <2>2. i + 1 \in StaIn(q) /\ t[i] = q[i + 1]
    BY <1>2
  <2>3. QED
    BY <2>1, <2>2 DEF ViewIs
<1>6. ASSUME Head(q) \notin Station, StaIn(t) = {} PROVE n
  <2>1. StaIn(q) = {}
    BY <1>6, <1>3, <1>1 DEF StaIn
  <2>2. QED
    BY <2>1 DEF ViewIs
<1>7. ASSUME Head(q) \in Station, StaIn(t) = {} PROVE Head(q) = "CONNECTED" <=> up
  <2>1. 1 \in StaIn(q) /\ \A j \in StaIn(q) : j <= 1
    BY <1>7, <1>3, <1>1, <1>4 DEF StaIn
  <2>2. QED
    BY <2>1, <1>1 DEF ViewIs
<1>8. QED
  BY <1>1, <1>5, <1>6, <1>7 DEF ViewIs, t

-----------------------------------------------------------------------------
(***************************************************************************)
(* What every function of the driver keeps: when it takes the station up   *)
(* or down it posts an event that says so, after those it posted before.   *)
(***************************************************************************)
Up == drv.link = "up"

Faithful(d, q) ==
  /\ q \in Seq(Events)
  /\ \A m, n \in BOOLEAN :
       ViewIs(evq, m, Up) /\ ((d.link = "up" <=> Up) => (m => n)) => ViewIs(q, n, d.link = "up")

Sound(r) == r.ok \in BOOLEAN /\ r.drv \in DrvType /\ Faithful(r.drv, evq \o r.evs)

LEMMA NoEvent ==
  ASSUME evq \in Seq(Events), NEW d \in DrvType, d.link = "up" <=> Up
  PROVE  Faithful(d, evq) /\ Faithful(d, evq \o <<>>)
<1>1. evq \o <<>> = evq
  OBVIOUS
<1>2. Faithful(d, evq)
  BY DEF Faithful, ViewIs
<1>3. QED
  BY <1>1, <1>2

LEMMA OtherEvent ==
  ASSUME NEW q \in Seq(Events), NEW d \in DrvType, Faithful(d, q),
         NEW e \in Events, e \notin Station
  PROVE  Faithful(d, q \o <<e>>)
<1>1. ASSUME NEW m \in BOOLEAN, NEW n \in BOOLEAN, ViewIs(evq, m, Up),
             (d.link = "up" <=> Up) => (m => n)
      PROVE  ViewIs(q \o <<e>>, n, d.link = "up")
  <2>1. ViewIs(q, n, d.link = "up")
    BY <1>1 DEF Faithful
  <2>2. (d.link = "up") \in BOOLEAN
    OBVIOUS
  <2>3. QED
    BY <2>1, <2>2, ViewOther
<1>2. q \o <<e>> \in Seq(Events)
  OBVIOUS
<1>3. QED
  BY <1>1, <1>2 DEF Faithful

LEMMA StationEvent ==
  ASSUME evq \in Seq(Events), NEW d \in DrvType, NEW e \in Station,
         e = "CONNECTED" <=> d.link = "up"
  PROVE  Faithful(d, evq \o <<e>>)
<1>1. evq \o <<e>> \in Seq(Events)
  BY ViewStation
<1>2. ASSUME NEW n \in BOOLEAN PROVE ViewIs(evq \o <<e>>, n, d.link = "up")
  <2>1. ViewIs(evq \o <<e>>, n, e = "CONNECTED")
    BY ViewStation
  <2>2. (e = "CONNECTED") = (d.link = "up")
    OBVIOUS
  <2>3. QED
    BY <2>1, <2>2
<1>3. QED
  BY <1>1, <1>2 DEF Faithful

\* A driver state of which one field has changed.
LEMMA DrvInit ==
  ASSUME drv \in DrvType, NEW c \in InitCfgs \cup {None}
  PROVE  LET d == [drv EXCEPT !.initCfg = c] IN
         /\ d \in DrvType /\ d.initCfg = c
         /\ d.started = drv.started /\ d.link = drv.link /\ d.cfg = drv.cfg
BY DEF DrvType

LEMMA DrvLink ==
  ASSUME drv \in DrvType, NEW l \in {"idle", "connecting", "up"}
  PROVE  LET d == [drv EXCEPT !.link = l] IN
         /\ d \in DrvType /\ d.link = l
         /\ d.started = drv.started /\ d.initCfg = drv.initCfg /\ d.cfg = drv.cfg
BY DEF DrvType

LEMMA DrvCfg ==
  ASSUME drv \in DrvType, NEW c \in StaCfgs \cup {None}
  PROVE  LET d == [drv EXCEPT !.cfg = c] IN
         /\ d \in DrvType /\ d.cfg = c
         /\ d.started = drv.started /\ d.initCfg = drv.initCfg /\ d.link = drv.link
BY DEF DrvType

LEMMA DrvStarted ==
  ASSUME drv \in DrvType
  PROVE  LET d == [drv EXCEPT !.started = TRUE] IN
         /\ d \in DrvType /\ d.started = TRUE
         /\ d.link = drv.link /\ d.initCfg = drv.initCfg /\ d.cfg = drv.cfg
BY DEF DrvType

LEMMA DrvStopped ==
  ASSUME drv \in DrvType
  PROVE  LET d == [drv EXCEPT !.started = FALSE, !.link = "idle"] IN
         /\ d \in DrvType /\ d.started = FALSE
         /\ d.link = "idle" /\ d.initCfg = drv.initCfg /\ d.cfg = drv.cfg
BY DEF DrvType

LEMMA TypeOfDriver == TypeOK => drv \in DrvType /\ evq \in Seq(Events)
BY DEF TypeOK, DrvType

LEMMA RealInitSound ==
  ASSUME TypeOK, NEW c \in InitCfgs, NEW r \in RealInit(c)
  PROVE  /\ Sound(r) /\ r.evs = <<>>
         /\ r.drv.started = drv.started /\ r.drv.link = drv.link /\ r.drv.cfg = drv.cfg
<1>1. /\ r.ok \in BOOLEAN /\ r.drv \in DrvType /\ r.evs = <<>>
      /\ r.drv.started = drv.started /\ r.drv.link = drv.link /\ r.drv.cfg = drv.cfg
  <2>1. CASE \E ok \in BOOLEAN : r = Outcome(ok, drv, <<>>)
    BY <2>1, TypeOfDriver DEF Outcome
  <2>2. CASE r = Outcome(TRUE, [drv EXCEPT !.initCfg = c], <<>>)
    BY <2>2, DrvInit, TypeOfDriver DEF Outcome
  <2>3. QED
    BY <2>1, <2>2 DEF RealInit, Refused
<1>2. QED
  BY <1>1, NoEvent, TypeOfDriver DEF Sound, Up

LEMMA DeinitsSound ==
  ASSUME TypeOK, NEW r \in Deinits
  PROVE  /\ Sound(r) /\ r.evs = <<>>
         /\ r.drv.started = drv.started /\ r.drv.link = drv.link /\ r.drv.cfg = drv.cfg
         /\ r.drv.initCfg # None => Inited
<1>1. /\ r.ok \in BOOLEAN /\ r.drv \in DrvType /\ r.evs = <<>>
      /\ r.drv.started = drv.started /\ r.drv.link = drv.link /\ r.drv.cfg = drv.cfg
      /\ r.drv.initCfg # None => Inited
  <2>1. CASE r = Outcome(FALSE, drv, <<>>)
    BY <2>1, TypeOfDriver DEF Inited, Outcome
  <2>2. CASE Inited /\ r = Outcome(TRUE, [drv EXCEPT !.initCfg = None], <<>>)
    BY <2>2, DrvInit, TypeOfDriver DEF Outcome
  <2>3. QED
    BY <2>1, <2>2 DEF Deinits, Refused
<1>2. QED
  BY <1>1, NoEvent, TypeOfDriver DEF Sound, Up

LEMMA SetConfigsSound ==
  ASSUME TypeOK, NEW c \in StaCfgs \cup {None}, NEW r \in SetConfigs(c)
  PROVE  /\ Sound(r) /\ r.evs = <<>>
         /\ r.drv.started = drv.started /\ r.drv.link = drv.link
         /\ r.drv.initCfg = drv.initCfg
         /\ r.ok => r.drv.cfg = c
         /\ ~r.ok => r.drv = drv
<1>1. /\ r.ok \in BOOLEAN /\ r.drv \in DrvType /\ r.evs = <<>>
      /\ r.drv.started = drv.started /\ r.drv.link = drv.link
      /\ r.drv.initCfg = drv.initCfg
      /\ r.ok => r.drv.cfg = c
      /\ ~r.ok => r.drv = drv
  <2>1. CASE r = Outcome(FALSE, drv, <<>>)
    BY <2>1, TypeOfDriver DEF Outcome
  <2>2. CASE r = Outcome(TRUE, [drv EXCEPT !.cfg = c], <<>>)
    BY <2>2, DrvCfg, TypeOfDriver DEF Outcome
  <2>3. QED
    BY <2>1, <2>2 DEF SetConfigs, Refused
<1>2. QED
  BY <1>1, NoEvent, TypeOfDriver DEF Sound, Up

LEMMA ConnectsSound ==
  ASSUME TypeOK, NEW r \in Connects
  PROVE  /\ Sound(r)
         /\ r.drv.cfg = drv.cfg /\ r.drv.initCfg = drv.initCfg
         /\ ~drv.started => r.drv = drv /\ r.evs = <<>>
<1>1. /\ r.ok \in BOOLEAN /\ r.drv \in DrvType
      /\ r.drv.cfg = drv.cfg /\ r.drv.initCfg = drv.initCfg
      /\ ~drv.started => r.drv = drv /\ r.evs = <<>>
      /\ \/ r.evs = <<>> /\ (r.drv.link = "up" <=> Up)
         \/ r.evs = <<"DISCONNECTED">> /\ r.drv.link = "connecting"
  <2>1. CASE r = Outcome(FALSE, drv, <<>>)
    BY <2>1, TypeOfDriver DEF Up, Outcome
  <2>2. CASE drv.started /\ drv.link # "up" /\ r = Outcome(TRUE, [drv EXCEPT !.link = "connecting"], <<>>)
    BY <2>2, DrvLink, TypeOfDriver DEF Up, Outcome
  <2>3. CASE drv.started /\ drv.link = "up" /\ r = Outcome(TRUE, [drv EXCEPT !.link = "connecting"], Dropped)
    BY <2>3, DrvLink, TypeOfDriver DEF Dropped, Outcome
  <2>4. QED
    BY <2>1, <2>2, <2>3, TypeOfDriver DEF Connects, Refused, DrvType, HasSta
<1>2. Faithful(r.drv, evq \o r.evs)
  <2>1. CASE r.evs = <<>> /\ (r.drv.link = "up" <=> Up)
    BY <1>1, <2>1, NoEvent, TypeOfDriver
  <2>2. CASE r.evs = <<"DISCONNECTED">> /\ r.drv.link = "connecting"
    BY <1>1, <2>2, StationEvent, TypeOfDriver DEF Station
  <2>3. QED
    BY <1>1, <2>1, <2>2
<1>3. QED
  BY <1>1, <1>2 DEF Sound

LEMMA DisconnectsSound ==
  ASSUME TypeOK, NEW r \in Disconnects
  PROVE  /\ Sound(r)
         /\ r.drv.cfg = drv.cfg /\ r.drv.initCfg = drv.initCfg
         /\ ~drv.started => r.drv = drv /\ r.evs = <<>>
         /\ drv.started => r.drv.link = "idle" /\ (Up => r.evs = <<"DISCONNECTED">>)
<1>1. /\ r.ok \in BOOLEAN /\ r.drv \in DrvType
      /\ r.drv.cfg = drv.cfg /\ r.drv.initCfg = drv.initCfg
      /\ ~drv.started => r.drv = drv /\ r.evs = <<>>
      /\ drv.started => r.drv.link = "idle" /\ (Up => r.evs = <<"DISCONNECTED">>)
      /\ \/ r.evs = <<>> /\ (r.drv.link = "up" <=> Up)
         \/ r.evs = <<"DISCONNECTED">> /\ r.drv.link = "idle"
  <2>1. CASE ~drv.started /\ r = Outcome(FALSE, drv, <<>>)
    BY <2>1, TypeOfDriver DEF Up, Outcome
  <2>2. CASE drv.started /\ drv.link = "idle" /\ r = Outcome(TRUE, [drv EXCEPT !.link = "idle"], <<>>)
    BY <2>2, DrvLink, TypeOfDriver DEF Up, Outcome
  <2>3. CASE drv.started /\ r = Outcome(TRUE, [drv EXCEPT !.link = "idle"], <<"DISCONNECTED">>)
    BY <2>3, DrvLink, TypeOfDriver DEF Up, Outcome
  <2>4. QED
    BY <2>1, <2>2, <2>3 DEF Disconnects, Refused
<1>2. Faithful(r.drv, evq \o r.evs)
  <2>1. CASE r.evs = <<>> /\ (r.drv.link = "up" <=> Up)
    BY <1>1, <2>1, NoEvent, TypeOfDriver
  <2>2. CASE r.evs = <<"DISCONNECTED">> /\ r.drv.link = "idle"
    BY <1>1, <2>2, StationEvent, TypeOfDriver DEF Station
  <2>3. QED
    BY <1>1, <2>1, <2>2
<1>3. QED
  BY <1>1, <1>2 DEF Sound

\* The events of the interfaces of a mode follow what is posted before them.
LEMMA IfsFaithful ==
  ASSUME NEW q \in Seq(Events), NEW d \in DrvType, Faithful(d, q),
         NEW sta \in Events \ Station, NEW ap \in Events \ Station
  PROVE  Faithful(d, q \o Ifs(sta, ap))
<1>1. Faithful(d, q \o <<sta>>) /\ Faithful(d, q \o <<ap>>)
  BY OtherEvent
<1>2. q \o <<sta>> \in Seq(Events)
  OBVIOUS
<1>3. Faithful(d, (q \o <<sta>>) \o <<ap>>)
  BY <1>1, <1>2, OtherEvent
<1>4. /\ q \o (<<sta>> \o <<ap>>) = (q \o <<sta>>) \o <<ap>>
      /\ q \o (<<>> \o <<ap>>) = q \o <<ap>>
      /\ q \o (<<sta>> \o <<>>) = q \o <<sta>>
      /\ q \o (<<>> \o <<>>) = q
  OBVIOUS
<1>5. QED
  BY <1>1, <1>3, <1>4 DEF Ifs

LEMMA StartsSound ==
  ASSUME TypeOK, NEW r \in Starts
  PROVE  /\ Sound(r)
         /\ r.drv.cfg = drv.cfg /\ r.drv.initCfg = drv.initCfg
         /\ ~Inited => r.drv = drv /\ r.evs = <<>>
<1>1. /\ r.ok \in BOOLEAN /\ r.drv \in DrvType
      /\ r.drv.cfg = drv.cfg /\ r.drv.initCfg = drv.initCfg
      /\ ~Inited => r.drv = drv /\ r.evs = <<>>
      /\ (r.drv.link = "up" <=> Up)
      /\ r.evs = <<>> \/ r.evs = Ifs("STA_START", "AP_START")
  <2>1. CASE r = Outcome(FALSE, drv, <<>>)
    BY <2>1, TypeOfDriver DEF Up, Outcome
  <2>2. CASE Inited /\ r = Outcome(TRUE, drv, <<>>)
    BY <2>2, TypeOfDriver DEF Up, Outcome
  <2>3. CASE Inited /\ r = Outcome(TRUE, [drv EXCEPT !.started = TRUE], Ifs("STA_START", "AP_START"))
    BY <2>3, DrvStarted, TypeOfDriver DEF Up, Outcome
  <2>4. QED
    BY <2>1, <2>2, <2>3 DEF Starts, Refused, Inited
<1>2. Faithful(r.drv, evq) /\ Faithful(r.drv, evq \o <<>>)
  BY <1>1, NoEvent, TypeOfDriver
<1>3. {"STA_START", "AP_START"} \subseteq Events \ Station
  BY DEF Events, Station
<1>4. Faithful(r.drv, evq \o Ifs("STA_START", "AP_START"))
  BY <1>1, <1>2, <1>3, IfsFaithful DEF TypeOK
<1>5. QED
  BY <1>1, <1>2, <1>4 DEF Sound

LEMMA StopsSound ==
  ASSUME TypeOK, NEW r \in Stops
  PROVE  /\ Sound(r)
         /\ r.drv.cfg = drv.cfg /\ r.drv.initCfg = drv.initCfg
         /\ ~drv.started => r.drv = drv /\ r.evs = <<>>
<1>1. /\ r.ok \in BOOLEAN /\ r.drv \in DrvType
      /\ r.drv.cfg = drv.cfg /\ r.drv.initCfg = drv.initCfg
      /\ ~drv.started => r.drv = drv /\ r.evs = <<>>
      /\ \/ r.evs = <<>> /\ r.drv = drv
         \/ r.evs = Dropped \o Ifs("STA_STOP", "AP_STOP") /\ r.drv.link = "idle"
  <2>1. CASE r = Outcome(FALSE, drv, <<>>)
    BY <2>1, TypeOfDriver DEF Outcome
  <2>2. CASE r = Outcome(TRUE, drv, <<>>)
    BY <2>2, TypeOfDriver DEF Outcome
  <2>3. CASE drv.started /\ r = Outcome(TRUE, [drv EXCEPT !.started = FALSE, !.link = "idle"],
                                  Dropped \o Ifs("STA_STOP", "AP_STOP"))
    BY <2>3, DrvStopped, TypeOfDriver DEF Outcome
  <2>4. QED
    BY <2>1, <2>2, <2>3 DEF Stops, Refused, Inited
<1>2. CASE r.evs = <<>> /\ r.drv = drv
  BY <1>1, <1>2, NoEvent, TypeOfDriver DEF Sound, Up
<1>3. CASE r.evs = Dropped \o Ifs("STA_STOP", "AP_STOP") /\ r.drv.link = "idle"
  <2>1. Faithful(r.drv, evq \o Dropped)
    <3>1. CASE Up
      BY <1>1, <1>3, <3>1, StationEvent, TypeOfDriver DEF Station, Dropped, Up
    <3>2. CASE ~Up
      BY <1>1, <1>3, <3>2, NoEvent, TypeOfDriver DEF Dropped, Up
    <3>3. QED
      BY <3>1, <3>2
  <2>2. {"STA_STOP", "AP_STOP"} \subseteq Events \ Station
    BY DEF Events, Station
  <2>3. evq \o Dropped \in Seq(Events)
    BY <2>1 DEF Faithful
  <2>4. Faithful(r.drv, (evq \o Dropped) \o Ifs("STA_STOP", "AP_STOP"))
    BY <1>1, <2>1, <2>2, <2>3, IfsFaithful
  <2>5. /\ Dropped \in Seq(Events) /\ evq \in Seq(Events)
        /\ Ifs("STA_STOP", "AP_STOP") \in Seq(Events)
    <3>1. /\ Dropped = <<"DISCONNECTED">> \/ Dropped = <<>>
          /\ Ifs("STA_STOP", "AP_STOP") \in {<<"STA_STOP">> \o <<"AP_STOP">>,
               <<"STA_STOP">> \o <<>>, <<>> \o <<"AP_STOP">>, <<>> \o <<>>}
      BY DEF Dropped, Ifs
    <3>2. {"DISCONNECTED", "STA_STOP", "AP_STOP"} \subseteq Events
      BY DEF Events
    <3>3. QED
      <4>1. <<"STA_STOP">> \in Seq(Events) /\ <<"AP_STOP">> \in Seq(Events)
            /\ <<"DISCONNECTED">> \in Seq(Events) /\ <<>> \in Seq(Events)
        BY <3>2
      <4>2. \A a, b \in Seq(Events) : a \o b \in Seq(Events)
        OBVIOUS
      <4>3. Dropped \in Seq(Events)
        BY <3>1, <4>1
      <4>4. Ifs("STA_STOP", "AP_STOP") \in Seq(Events)
        BY <3>1, <4>1, <4>2
      <4>5. QED
        BY <4>3, <4>4, TypeOfDriver
  <2>6. evq \o (Dropped \o Ifs("STA_STOP", "AP_STOP"))
          = (evq \o Dropped) \o Ifs("STA_STOP", "AP_STOP")
    BY <2>5
  <2>7. QED
    BY <1>1, <1>3, <2>4, <2>6 DEF Sound
<1>4. QED
  BY <1>1, <1>2, <1>3

-----------------------------------------------------------------------------
(***************************************************************************)
(* Types, with those of the argument of the request that is handled.       *)
(***************************************************************************)
RpcArgs ==
  /\ rpc.pc \in {"InitCheck", "ReinitStop", "ReinitDeinit", "RealInit", "Register"}
       => rpc.arg \in InitCfgs
  /\ rpc.pc \in {"GetConfig", "SetConfig"} => rpc.arg \in StaCfgs
  /\ rpc.pc = "StartPost" => rpc.left > 0

RpcType == [pc : RpcPcs, arg : StaCfgs \cup InitCfgs \cup {None}, changed : BOOLEAN,
            reinit : BOOLEAN, left : 0..2]

\* What a call of the driver does, whatever its outcome.
LEMMA CallTypes ==
  ASSUME TypeOK, NEW r, Sound(r), Call(r)
  PROVE  drv' \in DrvType /\ evq' \in Seq(Events) /\ mode' = mode
BY DEF Call, Sound, Faithful

LEMMA QueueTypes ==
  ASSUME TypeOK, Len(req_queue) < ReqqSize, NEW m \in Requests \cup {EventMsg},
         req_queue' = Append(req_queue, m)
  PROVE  req_queue' \in Seq(Requests \cup {EventMsg}) /\ Len(req_queue') <= ReqqSize
<1> DEFINE M == Requests \cup {EventMsg}
<1>1. req_queue \in Seq(M) /\ m \in M
  BY DEF TypeOK
<1> HIDE DEF M
<1>2. req_queue' \in Seq(M) /\ Len(req_queue') = Len(req_queue) + 1 /\ Len(req_queue) \in Nat
  BY <1>1
<1>3. QED
  BY <1>2, ConstantsAssumption DEF M

LEMMA PostTypes ==
  ASSUME TypeOK, NEW v \in {"up", "down"}, Post(v)
  PROVE  /\ req_queue' \in Seq(Requests \cup {EventMsg}) /\ Len(req_queue') <= ReqqSize
         /\ told' \in {"up", "down"} /\ reqs' \in 0..MaxReqs
<1>1. EventMsg \in Requests \cup {EventMsg}
  OBVIOUS
<1>2. QED
  BY <1>1, QueueTypes DEF Post, TypeOK

LEMMA RpcTypes ==
  ASSUME TypeOK, NEW p \in RpcPcs
  PROVE  /\ rpc \in RpcType /\ Idle \in RpcType /\ Idle.pc = "idle"
         /\ [rpc EXCEPT !.pc = p] \in RpcType
         /\ [rpc EXCEPT !.pc = p].pc = p /\ [rpc EXCEPT !.pc = p].arg = rpc.arg
         /\ [rpc EXCEPT !.pc = p].left = rpc.left
BY DEF TypeOK, RpcType, RpcPcs, Idle, At

LEMMA AtTypes ==
  ASSUME NEW p \in RpcPcs, NEW a \in StaCfgs \cup InitCfgs \cup {None}, NEW n \in 0..2
  PROVE  /\ At(p, a, n) \in RpcType
         /\ At(p, a, n).pc = p /\ At(p, a, n).arg = a /\ At(p, a, n).left = n
BY DEF At, RpcType

LEMMA TypeInit == Init => TypeOK /\ RpcArgs
<1> SUFFICES ASSUME Init PROVE TypeOK /\ RpcArgs
  OBVIOUS
<1>1. /\ drv \in DrvType /\ mode \in Modes
      /\ registered \in BOOLEAN /\ wifi_initialized \in BOOLEAN
      /\ cached_wifi_init_config \in InitCfgs \cup {None}
  <2>1. PICK s \in StaCfgs \cup {None} : NotStarted(s) \/ \E c \in InitCfgs : connect_sta(s, c)
    BY DEF Init
  <2>2. CASE NotStarted(s)
    BY <2>2 DEF Init, NotStarted, DrvType
  <2>3. CASE \E c \in InitCfgs : connect_sta(s, c)
    BY <2>3 DEF Init, connect_sta, DrvType
  <2>4. QED
    BY <2>1, <2>2, <2>3
<1>2. evq \in Seq(Events)
  <2>1. <<>> \in Seq(Events) /\ <<"STA_START">> \in Seq(Events)
    BY DEF Events
  <2>2. QED
    BY <2>1 DEF Init, NotStarted, connect_sta
<1>3. rpc \in RpcType /\ rpc.pc = "idle"
  BY DEF Init, Idle, At, RpcType, RpcPcs
<1>4. /\ req_queue \in Seq(Requests \cup {EventMsg})
      /\ Len(req_queue) <= ReqqSize
  BY ConstantsAssumption DEF Init
<1>5. /\ new_config_recvd \in BOOLEAN /\ new_wifi_config \in StaCfgs \cup {None}
      /\ station_connecting \in BOOLEAN /\ station_connected \in BOOLEAN
      /\ softap_started \in BOOLEAN /\ rxcb \in BOOLEAN
      /\ wanted \in StaCfgs \cup {None} /\ raced \in BOOLEAN
  BY DEF Init
<1>6. /\ evt \in EvtPcs /\ told \in {"up", "down"}
      /\ reqs \in 0..MaxReqs /\ air \in 0..MaxAir
  BY ConstantsAssumption DEF Init, EvtPcs
<1>7. QED
  BY <1>1, <1>2, <1>3, <1>4, <1>5, <1>6 DEF TypeOK, RpcArgs, DrvType, RpcType

\* TypeOK in the groups that the actions leave unchanged.
DrvOK  == mode \in Modes /\ drv \in DrvType /\ evq \in Seq(Events)
InitOK == /\ registered \in BOOLEAN /\ wifi_initialized \in BOOLEAN
          /\ cached_wifi_init_config \in InitCfgs \cup {None}
CfgOK  == /\ new_config_recvd \in BOOLEAN /\ new_wifi_config \in StaCfgs \cup {None}
          /\ wanted \in StaCfgs \cup {None} /\ raced \in BOOLEAN
StaOK  == /\ station_connecting \in BOOLEAN /\ station_connected \in BOOLEAN
          /\ softap_started \in BOOLEAN /\ rxcb \in BOOLEAN
HostOK == /\ req_queue \in Seq(Requests \cup {EventMsg}) /\ Len(req_queue) <= ReqqSize
          /\ told \in {"up", "down"} /\ reqs \in 0..MaxReqs
AirOK  == air \in 0..MaxAir

LEMMA Parts ==
  /\ TypeOK <=> /\ DrvOK /\ InitOK /\ CfgOK /\ StaOK /\ HostOK /\ AirOK
                /\ rpc \in RpcType /\ evt \in EvtPcs
  /\ TypeOK' <=> /\ DrvOK' /\ InitOK' /\ CfgOK' /\ StaOK' /\ HostOK' /\ AirOK'
                 /\ rpc' \in RpcType /\ evt' \in EvtPcs
<1>1. TypeOK <=> /\ DrvOK /\ InitOK /\ CfgOK /\ StaOK /\ HostOK /\ AirOK
                /\ rpc \in RpcType /\ evt \in EvtPcs
  BY Zenon DEF TypeOK, DrvOK, InitOK, CfgOK, StaOK, HostOK, AirOK, DrvType, RpcType
<1>2. TypeOK' <=> /\ DrvOK' /\ InitOK' /\ CfgOK' /\ StaOK' /\ HostOK' /\ AirOK'
                 /\ rpc' \in RpcType /\ evt' \in EvtPcs
  BY Zenon DEF TypeOK, DrvOK, InitOK, CfgOK, StaOK, HostOK, AirOK, DrvType, RpcType
<1>3. QED
  BY <1>1, <1>2

LEMMA Kept ==
  ASSUME TypeOK
  PROVE  /\ UNCHANGED drvVars  => DrvOK'
         /\ UNCHANGED initVars => InitOK'
         /\ UNCHANGED cfgVars  => CfgOK'
         /\ UNCHANGED staVars  => StaOK'
         /\ UNCHANGED hostVars => HostOK'
         /\ UNCHANGED air      => AirOK'
         /\ UNCHANGED rpc      => rpc' \in RpcType /\ (RpcArgs => RpcArgs')
         /\ UNCHANGED evt      => evt' \in EvtPcs
<1>1. UNCHANGED drvVars => DrvOK'
  BY Parts DEF DrvOK, drvVars
<1>2. UNCHANGED initVars => InitOK'
  BY Parts DEF InitOK, initVars
<1>3. UNCHANGED cfgVars => CfgOK'
  BY Parts DEF CfgOK, cfgVars
<1>4. UNCHANGED staVars => StaOK'
  BY Parts DEF StaOK, staVars
<1>5. UNCHANGED hostVars => HostOK'
  BY Parts DEF HostOK, hostVars
<1>6. UNCHANGED air => AirOK'
  BY Parts DEF AirOK
<1>7. UNCHANGED rpc => rpc' \in RpcType /\ (RpcArgs => RpcArgs')
  BY Parts DEF RpcArgs
<1>8. UNCHANGED evt => evt' \in EvtPcs
  BY Parts
<1>9. QED
  BY <1>1, <1>2, <1>3, <1>4, <1>5, <1>6, <1>7, <1>8

LEMMA CallKeeps ==
  ASSUME TypeOK, NEW r, Sound(r), Call(r)
  PROVE  DrvOK'
BY CallTypes, Parts DEF DrvOK

\* What happens on the air is sound too.
LEMMA AirSound ==
  ASSUME TypeOK, Air
  PROVE  \E r : /\ Sound(r) /\ Call(r) /\ drv.started /\ r.drv.started = drv.started
               /\ r.drv.cfg = drv.cfg /\ r.drv.initCfg = drv.initCfg
<1> DEFINE up   == Outcome(TRUE, [drv EXCEPT !.link = "up"], <<"CONNECTED">>)
           down == Outcome(TRUE, [drv EXCEPT !.link = "idle"], <<"DISCONNECTED">>)
           other == Outcome(TRUE, drv, <<"OTHER">>)
<1> DEFINE Same(r) == /\ r.drv.started = drv.started
                      /\ r.drv.cfg = drv.cfg /\ r.drv.initCfg = drv.initCfg
<1>1. Sound(up) /\ Same(up)
  <2>1. /\ up.ok = TRUE /\ up.drv \in DrvType /\ up.drv.link = "up"
        /\ up.evs = <<"CONNECTED">> /\ Same(up)
    BY DrvLink, TypeOfDriver DEF Outcome
  <2>2. Faithful(up.drv, evq \o <<"CONNECTED">>)
    BY <2>1, StationEvent, TypeOfDriver DEF Station
  <2> HIDE DEF up
  <2>3. QED
    BY <2>1, <2>2 DEF Sound
<1>2. Sound(down) /\ Same(down)
  <2>1. /\ down.ok = TRUE /\ down.drv \in DrvType /\ down.drv.link = "idle"
        /\ down.evs = <<"DISCONNECTED">> /\ Same(down)
    BY DrvLink, TypeOfDriver DEF Outcome
  <2>2. Faithful(down.drv, evq \o <<"DISCONNECTED">>)
    BY <2>1, StationEvent, TypeOfDriver DEF Station
  <2> HIDE DEF down
  <2>3. QED
    BY <2>1, <2>2 DEF Sound
<1>3. Sound(other) /\ Same(other)
  <2>1. /\ other.ok = TRUE /\ other.drv = drv /\ other.evs = <<"OTHER">>
    BY DEF Outcome
  <2>2. Faithful(drv, evq)
    BY NoEvent, TypeOfDriver DEF Up
  <2>3. "OTHER" \in Events /\ "OTHER" \notin Station
    BY DEF Events, Station
  <2>4. Faithful(drv, evq \o <<"OTHER">>)
    BY <2>2, <2>3, OtherEvent, TypeOfDriver
  <2> HIDE DEF other
  <2>5. QED
    BY <2>1, <2>4, TypeOfDriver DEF Sound
<1> HIDE DEF up, down, other
<1>4. drv.started /\ (Call(up) \/ Call(down) \/ Call(other))
  BY DEF Air, up, down, other
<1>5. QED
  BY <1>1, <1>2, <1>3, <1>4

LEMMA TypePserial ==
  ASSUME TypeOK, RpcArgs, PserialTask
  PROVE  TypeOK' /\ RpcArgs'
<1> USE DEF RpcArgs
<1>1. CASE TakeMsg
  <2>1. /\ Head(req_queue) \in Requests \cup {EventMsg}
        /\ req_queue' \in Seq(Requests \cup {EventMsg}) /\ Len(req_queue') <= ReqqSize
    <3> DEFINE M == Requests \cup {EventMsg}
    <3>1. req_queue \in Seq(M) /\ Len(req_queue) <= ReqqSize /\ req_queue # <<>>
          /\ req_queue' = Tail(req_queue)
      BY <1>1 DEF TypeOK, TakeMsg
    <3> HIDE DEF M
    <3>2. Head(req_queue) \in M /\ req_queue' \in Seq(M)
          /\ Len(req_queue') = Len(req_queue) - 1
      BY <3>1
    <3>3. ReqqSize \in Nat /\ Len(req_queue) \in Nat
      BY <3>1, ConstantsAssumption
    <3>4. QED
      BY <3>1, <3>2, <3>3 DEF M
  <2>2. HostOK'
    BY <1>1, <2>1, Parts DEF TakeMsg, HostOK
  <2>3. rpc' \in RpcType /\ RpcArgs'
    <3> DEFINE r == Head(req_queue)
    <3>1. CASE r = EventMsg
      BY <1>1, <3>1, RpcTypes DEF TakeMsg, RpcPcs
    <3>2. CASE r # EventMsg
      <4> DEFINE p == FirstPc(r.op)
      <4>1. /\ r \in Requests /\ p \in RpcPcs
            /\ r.arg \in StaCfgs \cup InitCfgs \cup {None}
            /\ p = "InitCheck" => r.arg \in InitCfgs
            /\ p = "GetConfig" => r.arg \in StaCfgs
            /\ p \notin {"ReinitStop", "ReinitDeinit", "RealInit", "Register", "SetConfig",
                         "StartPost"}
        BY <2>1, <3>2 DEF FirstPc, Requests, RpcPcs
      <4>2. rpc' = At(p, r.arg, 0)
        BY <1>1, <3>2 DEF TakeMsg
      <4> HIDE DEF p, r
      <4>3. rpc' \in RpcType /\ rpc'.pc = p /\ rpc'.arg = r.arg
        BY <4>1, <4>2, AtTypes
      <4>4. QED
        BY <4>1, <4>3
    <3>3. QED
      BY <3>1, <3>2
  <2>4. QED
    BY <1>1, <2>2, <2>3, Kept, Parts DEF TakeMsg, hostVars
<1>2. CASE InitCheck
  <2>1. rpc' \in RpcType /\ RpcArgs'
    <3>1. PICK b \in BOOLEAN, q \in {"RealInit", "ReinitStop", "Register"} :
            rpc' = [rpc EXCEPT !.changed = b, !.reinit = wifi_initialized, !.pc = q]
      BY <1>2 DEF InitCheck
    <3>2. /\ rpc \in RpcType /\ wifi_initialized \in BOOLEAN /\ rpc.arg \in InitCfgs
      BY <1>2, Parts DEF InitCheck, InitOK
    <3>3. q \in RpcPcs
      BY <3>1 DEF RpcPcs
    <3>4. QED
      BY <3>1, <3>2, <3>3 DEF RpcType
  <2>2. InitOK'
    BY <1>2, Parts DEF InitCheck, InitOK
  <2>3. QED
    BY <1>2, <2>1, <2>2, Kept, Parts DEF InitCheck
<1>3. CASE ReinitStop
  <2>1. DrvOK'
    BY <1>3, StopsSound, CallKeeps DEF ReinitStop
  <2>2. rpc' \in RpcType /\ RpcArgs'
    BY <1>3, RpcTypes DEF ReinitStop, RpcPcs
  <2>3. QED
    BY <1>3, <2>1, <2>2, Kept, Parts DEF ReinitStop
<1>4. CASE ReinitDeinit
  <2>1. DrvOK'
    BY <1>4, DeinitsSound, CallKeeps DEF ReinitDeinit
  <2>2. rpc' \in RpcType /\ RpcArgs'
    BY <1>4, RpcTypes DEF ReinitDeinit, RpcPcs
  <2>3. InitOK'
    BY <1>4, Parts DEF ReinitDeinit, InitOK
  <2>4. QED
    BY <1>4, <2>1, <2>2, <2>3, Kept, Parts DEF ReinitDeinit
<1>5. CASE CallRealInit
  <2>1. PICK r \in RealInit(rpc.arg) :
          /\ Call(r)
          /\ wifi_initialized' = (wifi_initialized \/ (r.ok /\ ~rpc.reinit))
          /\ rpc' = IF r.ok THEN [rpc EXCEPT !.pc = "Register"] ELSE Idle
    BY <1>5 DEF CallRealInit
  <2>2. rpc.arg \in InitCfgs
    BY <1>5 DEF CallRealInit
  <2>3. DrvOK'
    BY <2>1, <2>2, RealInitSound, CallKeeps
  <2>4. rpc' \in RpcType /\ RpcArgs'
    BY <2>1, <2>2, RpcTypes DEF RpcPcs
  <2>5. InitOK'
    BY <1>5, <2>1, Parts DEF CallRealInit, InitOK
  <2>6. QED
    BY <1>5, <2>3, <2>4, <2>5, Kept, Parts DEF CallRealInit
<1>6. CASE Register
  <2>1. rpc' \in RpcType /\ RpcArgs'
    BY <1>6, RpcTypes DEF Register, RpcPcs
  <2>2. InitOK'
    BY <1>6, Parts DEF Register, InitOK
  <2>3. QED
    BY <1>6, <2>1, <2>2, Kept, Parts DEF Register
<1>7. CASE PlainCall
  <2>1. DrvOK'
    BY <1>7, DeinitsSound, StopsSound, DisconnectsSound, CallKeeps DEF PlainCall
  <2>2. rpc' \in RpcType /\ RpcArgs'
    BY <1>7, RpcTypes DEF PlainCall, RpcPcs
  <2>3. QED
    BY <1>7, <2>1, <2>2, Kept, Parts DEF PlainCall
<1>8. CASE StartCall
  <2>1. PICK r \in Starts :
          /\ Call(r)
          /\ rpc' = IF r.ok THEN At("StartPost", None, Len(Ifs("sta", "ap"))) ELSE Idle
    BY <1>8 DEF StartCall
  <2>2. DrvOK'
    BY <2>1, StartsSound, CallKeeps
  <2>3. rpc' \in RpcType /\ RpcArgs'
    <3>1. Len(Ifs("sta", "ap")) \in 1..2
      BY Parts, ConstantsAssumption DEF DrvOK, Ifs, HasSta, HasAp
    <3> DEFINE n == Len(Ifs("sta", "ap"))
    <3> HIDE DEF n
    <3>2. n \in 1..2 /\ rpc' = IF r.ok THEN At("StartPost", None, n) ELSE Idle
      BY <2>1, <3>1 DEF n
    <3>3. QED
      <4>1. "StartPost" \in RpcPcs /\ "idle" \in RpcPcs
        BY DEF RpcPcs
      <4>2. CASE rpc' = Idle
        BY <4>1, <4>2, RpcTypes
      <4>3. CASE rpc' = At("StartPost", None, n)
        BY <3>2, <4>1, <4>3, AtTypes
      <4>4. QED
        BY <3>2, <4>2, <4>3
  <2>4. QED
    BY <1>8, <2>2, <2>3, Kept, Parts DEF StartCall
<1>9. CASE StartPost
  <2>1. rpc' \in RpcType /\ RpcArgs'
    <3>1. rpc \in RpcType /\ rpc.pc = "StartPost" /\ rpc.left \in 1..2 /\ "idle" \in RpcPcs
      BY <1>9, Parts DEF StartPost, RpcType, RpcPcs
    <3>2. CASE rpc.left = 1
      BY <1>9, <3>1, <3>2, RpcTypes DEF StartPost
    <3>3. CASE rpc.left = 2
      <4>1. rpc' = [rpc EXCEPT !.left = 1]
        BY <1>9, <3>3 DEF StartPost
      <4>2. QED
        BY <3>1, <4>1 DEF RpcType
    <3>4. QED
      BY <3>1, <3>2, <3>3
  <2>2. HostOK'
    BY <1>9, PostTypes, Parts DEF StartPost, HostOK
  <2>3. QED
    BY <1>9, <2>1, <2>2, Kept, Parts DEF StartPost
<1>10. ASSUME NEW c \in StaCfgs, NEW current, Store(c, current)
       PROVE  CfgOK' /\ StaOK' /\ rpc' \in RpcType /\ RpcArgs'
  <2>1. rpc' \in RpcType /\ RpcArgs'
    BY <1>10, RpcTypes DEF Store, RpcPcs
  <2>2. CfgOK'
    BY <1>10, Parts DEF Store, CfgOK
  <2>3. StaOK'
    BY <1>10, Parts DEF Store, StaOK
  <2>4. QED
    BY <2>1, <2>2, <2>3
<1>11. CASE GetConfig
  <2>1. rpc.arg \in StaCfgs
    BY <1>11 DEF GetConfig
  <2>2. CASE Store(rpc.arg, drv.cfg)
    BY <1>10, <1>11, <2>1, <2>2, Kept, Parts DEF GetConfig
  <2>3. CASE rpc' = [rpc EXCEPT !.pc = "SetConfig"] /\ UNCHANGED <<cfgVars, staVars>>
    <3>1. rpc' \in RpcType /\ RpcArgs'
      BY <2>1, <2>3, RpcTypes DEF RpcPcs
    <3>2. QED
      BY <1>11, <2>3, <3>1, Kept, Parts DEF GetConfig
  <2>4. QED
    BY <1>11, <2>2, <2>3 DEF GetConfig
<1>12. CASE SetConfig
  <2>1. rpc.arg \in StaCfgs
    BY <1>12 DEF SetConfig
  <2>2. DrvOK'
    BY <1>12, <2>1, SetConfigsSound, CallKeeps DEF SetConfig
  <2>3. QED
    BY <1>10, <1>12, <2>1, <2>2, Kept, Parts DEF SetConfig
<1>13. CASE ConnectCheck
  <2>1. rpc' \in RpcType /\ RpcArgs'
    BY <1>13, RpcTypes DEF ConnectCheck, RpcPcs
  <2>2. UNCHANGED hostVars \/ Post("up")
    BY <1>13 DEF ConnectCheck
  <2>3. HostOK'
    BY <2>2, PostTypes, Kept, Parts DEF HostOK
  <2>4. QED
    BY <1>13, <2>1, <2>3, Kept, Parts DEF ConnectCheck
<1>14. CASE ConnectCall
  <2>1. PICK r \in Connects : Call(r) /\ station_connecting' = (station_connecting /\ r.ok)
    BY <1>14 DEF ConnectCall
  <2>2. DrvOK'
    BY <2>1, ConnectsSound, CallKeeps
  <2>3. rpc' \in RpcType /\ RpcArgs'
    BY <1>14, RpcTypes DEF ConnectCall, RpcPcs
  <2>4. StaOK'
    BY <1>14, <2>1, Parts DEF ConnectCall, StaOK
  <2>5. QED
    BY <1>14, <2>2, <2>3, <2>4, Kept, Parts DEF ConnectCall
<1>15. QED
  BY <1>1, <1>2, <1>3, <1>4, <1>5, <1>6, <1>7, <1>8, <1>9, <1>11, <1>12, <1>13, <1>14
     DEF PserialTask

LEMMA EvtMoves ==
  ASSUME TypeOK, EventTask
  PROVE  evt' \in EvtPcs
<1>1. CASE TakeEvent
  BY <1>1 DEF TakeEvent, HandlerPc, EvtPcs
<1>2. CASE ConnCheck \/ ConnDrop \/ ConnTell \/ ConnMark
  BY <1>2 DEF ConnCheck, ConnDrop, ConnTell, ConnMark, EvtPcs, Applies, Clears
<1>3. CASE DiscMark \/ DiscReset \/ DiscTell
  BY <1>3 DEF DiscMark, DiscReset, DiscTell, EvtPcs, Applies, Clears
<1>4. CASE Apply("ConnApply", "ConnClear", "ConnDrop") \/ Apply("DiscApply", "DiscClear", "DiscReset")
  BY <1>4 DEF Apply, EvtPcs, Applies, Clears
<1>5. CASE Clear("ConnClear", "ConnDrop") \/ Clear("DiscClear", "DiscReset")
  BY <1>5 DEF Clear, EvtPcs
<1>6. CASE StaStart \/ StaConnect \/ StaStop
  BY <1>6 DEF StaStart, StaConnect, StaStop, EvtPcs
<1>7. CASE ApChange \/ Forward
  BY <1>7 DEF ApChange, Forward, EvtPcs
<1>8. QED
  BY <1>1, <1>2, <1>3, <1>4, <1>5, <1>6, <1>7 DEF EventTask

LEMMA TypeEvent ==
  ASSUME TypeOK, RpcArgs, EventTask
  PROVE  TypeOK' /\ RpcArgs'
<1>1. evt' \in EvtPcs
  BY EvtMoves
<1>2. CASE TakeEvent
  <2>1. evq \in Seq(Events) /\ evq # <<>>
    BY <1>2 DEF TakeEvent, TypeOK
  <2>2. DrvOK'
    BY <1>2, <2>1, Parts DEF TakeEvent, DrvOK
  <2>3. QED
    BY <1>1, <1>2, <2>2, Kept, Parts DEF TakeEvent
<1>3. ASSUME NEW v \in {"up", "down"}, Post(v), UNCHANGED <<drvVars, initVars, cfgVars, staVars, rpc, air>>
      PROVE  TypeOK' /\ RpcArgs'
  <2>1. HostOK'
    BY <1>3, PostTypes, Parts DEF HostOK
  <2>2. QED
    BY <1>1, <1>3, <2>1, Kept, Parts
<1>4. CASE ConnTell \/ DiscTell \/ Forward
  BY <1>3, <1>4, Parts DEF ConnTell, DiscTell, Forward, HostOK
<1>5. ASSUME NEW r, Sound(r), Call(r), UNCHANGED <<initVars, cfgVars, staVars, hostVars, rpc, air>>
      PROVE  TypeOK' /\ RpcArgs'
  BY <1>1, <1>5, CallKeeps, Kept, Parts
<1>6. ASSUME NEW from, NEW cleared, NEW kept, Apply(from, cleared, kept)
      PROVE  TypeOK' /\ RpcArgs'
  <2>1. new_wifi_config \in StaCfgs \cup {None}
    BY DEF TypeOK
  <2>2. QED
    BY <1>5, <1>6, <2>1, SetConfigsSound DEF Apply
<1>7. CASE ConnDrop
  BY <1>5, <1>7, DisconnectsSound DEF ConnDrop
<1>8. CASE StaConnect
  BY <1>5, <1>8, ConnectsSound DEF StaConnect
<1>9. ASSUME NEW from, NEW next, Clear(from, next)
      PROVE  TypeOK' /\ RpcArgs'
  <2>1. CfgOK'
    BY <1>9, Parts DEF Clear, CfgOK
  <2>2. QED
    BY <1>1, <1>9, <2>1, Kept, Parts DEF Clear
<1>10. ASSUME StaOK', UNCHANGED <<drvVars, initVars, cfgVars, hostVars, rpc, air>>
       PROVE  TypeOK' /\ RpcArgs'
  BY <1>1, <1>10, Kept, Parts
<1>11. CASE ConnCheck \/ ConnMark
  <2>1. StaOK'
    BY <1>11, Parts DEF ConnCheck, ConnMark, StaOK
  <2>2. QED
    BY <1>10, <1>11, <2>1 DEF ConnCheck, ConnMark
<1>12. CASE DiscMark \/ DiscReset
  <2>1. StaOK'
    BY <1>12, Parts DEF DiscMark, DiscReset, StaOK
  <2>2. QED
    BY <1>10, <1>12, <2>1 DEF DiscMark, DiscReset
<1>13. CASE StaStart \/ StaStop \/ ApChange
  <2>1. StaOK'
    BY <1>13, Parts DEF StaStart, StaStop, ApChange, StaOK
  <2>2. QED
    BY <1>10, <1>13, <2>1 DEF StaStart, StaStop, ApChange
<1>14. QED
  BY <1>2, <1>4, <1>6, <1>7, <1>8, <1>9, <1>11, <1>12, <1>13 DEF EventTask

LEMMA TypeStep ==
  ASSUME TypeOK, RpcArgs, [Next]_vars
  PROVE  TypeOK' /\ RpcArgs'
<1>1. CASE HostRequest
  <2>1. PICK m \in Requests \cup {EventMsg} : req_queue' = Append(req_queue, m)
    BY <1>1 DEF HostRequest
  <2>2. Len(req_queue) < ReqqSize /\ reqs' \in 0..MaxReqs /\ told' \in {"up", "down"}
    BY <1>1, ConstantsAssumption DEF HostRequest, TypeOK
  <2>3. HostOK'
    BY <2>1, <2>2, QueueTypes DEF HostOK
  <2>4. QED
    BY <1>1, <2>3, Kept, Parts DEF HostRequest
<1>2. CASE Air
  <2>1. DrvOK'
    BY <1>2, AirSound, CallKeeps
  <2>2. AirOK'
    BY <1>2, Parts, ConstantsAssumption DEF Air, AirOK
  <2>3. QED
    BY <1>2, <2>1, <2>2, Kept, Parts DEF Air
<1>3. CASE UNCHANGED vars
  BY <1>3, Kept, Parts DEF vars
<1>4. QED
  BY <1>1, <1>2, <1>3, TypePserial, TypeEvent DEF Next

\* Type correctness: no handler stores a value of the wrong kind, and
\* req_queue never holds more than its capacity.
THEOREM TypeCorrect == Spec => []TypeOK
<1>1. TypeOK /\ RpcArgs /\ [Next]_vars => (TypeOK /\ RpcArgs)'
  BY TypeStep
<1>2. QED
  BY TypeInit, <1>1, PTL DEF Spec

-----------------------------------------------------------------------------
(***************************************************************************)
(* The driver and the handler: nothing happens to the station before the   *)
(* handler is registered, so that no event of the station is lost.         *)
(***************************************************************************)
DrvLaw == (drv.started => Inited) /\ (~drv.started => drv.link = "idle")

RegInv ==
  /\ DrvLaw
  /\ ~registered => ~drv.started /\ evq = <<>> /\ evt = "idle"
  /\ Inited => registered \/ rpc.pc = "Register"

\* What a call leaves: the law, and nothing before Wi-Fi is initialised.
Lawful(r) ==
  /\ r.drv.started => r.drv.initCfg # None
  /\ ~r.drv.started => r.drv.link = "idle"
  /\ ~Inited => ~r.drv.started /\ r.evs = <<>>

AllCalls == Starts \cup Stops \cup Connects \cup Disconnects \cup Deinits
              \cup UNION {SetConfigs(c) : c \in StaCfgs \cup {None}}

LEMMA SameLawful ==
  ASSUME TypeOK, DrvLaw, NEW ok \in BOOLEAN
  PROVE  LET r == Outcome(ok, drv, <<>>) IN
         Lawful(r) /\ r.drv.initCfg = drv.initCfg /\ r.drv.cfg = drv.cfg
BY TypeOfDriver DEF Lawful, Outcome, DrvLaw, Inited, DrvType

LEMMA CallsLawful ==
  ASSUME TypeOK, DrvLaw, NEW r \in AllCalls
  PROVE  Lawful(r) /\ (r.drv.initCfg # None => Inited)
<1>1. CASE \E ok \in BOOLEAN : r = Outcome(ok, drv, <<>>)
  BY <1>1, SameLawful DEF Inited
<1>2. CASE r \in Starts
  <2>1. CASE Inited /\ r = Outcome(TRUE, [drv EXCEPT !.started = TRUE], Ifs("STA_START", "AP_START"))
    BY <2>1, DrvStarted, TypeOfDriver DEF Outcome, Lawful, Inited
  <2>2. QED
    BY <1>1, <1>2, <2>1 DEF Starts, Refused, Inited
<1>3. CASE r \in Stops
  <2>1. CASE Inited /\ r = Outcome(TRUE, [drv EXCEPT !.started = FALSE, !.link = "idle"],
                                  Dropped \o Ifs("STA_STOP", "AP_STOP"))
    BY <2>1, DrvStopped, TypeOfDriver DEF Outcome, Lawful, Inited
  <2>2. QED
    BY <1>1, <1>3, <2>1 DEF Stops, Refused, Inited
<1>4. CASE r \in Connects
  <2> DEFINE d == [drv EXCEPT !.link = "connecting"]
  <2>1. ASSUME drv.started, NEW q, r = Outcome(TRUE, d, q)
        PROVE  Lawful(r) /\ (r.drv.initCfg # None => Inited)
    BY <2>1, DrvLink, TypeOfDriver DEF Outcome, Lawful, Inited, DrvLaw
  <2> HIDE DEF d
  <2>2. r = Outcome(FALSE, drv, <<>>) \/ (drv.started /\ \E q : r = Outcome(TRUE, d, q))
    BY <1>4, TypeOfDriver DEF Connects, Refused, HasSta, DrvType, d
  <2>3. QED
    BY <1>1, <2>1, <2>2
<1>5. CASE r \in Disconnects
  <2> DEFINE d == [drv EXCEPT !.link = "idle"]
  <2>1. ASSUME drv.started, NEW q, r = Outcome(TRUE, d, q)
        PROVE  Lawful(r) /\ (r.drv.initCfg # None => Inited)
    BY <2>1, DrvLink, TypeOfDriver DEF Outcome, Lawful, Inited, DrvLaw
  <2> HIDE DEF d
  <2>2. r = Outcome(FALSE, drv, <<>>) \/ (drv.started /\ \E q : r = Outcome(TRUE, d, q))
    BY <1>5 DEF Disconnects, Refused, d
  <2>3. QED
    BY <1>1, <2>1, <2>2
<1>6. CASE r \in Deinits
  <2>1. CASE Inited /\ ~drv.started /\ r = Outcome(TRUE, [drv EXCEPT !.initCfg = None], <<>>)
    BY <2>1, DrvInit, TypeOfDriver DEF Outcome, Lawful, Inited, DrvLaw
  <2>2. QED
    BY <1>1, <1>6, <2>1 DEF Deinits, Refused
<1>7. ASSUME NEW c \in StaCfgs \cup {None}, r \in SetConfigs(c)
      PROVE  Lawful(r) /\ (r.drv.initCfg # None => Inited)
  <2>1. CASE Inited /\ r = Outcome(TRUE, [drv EXCEPT !.cfg = c], <<>>)
    BY <2>1, DrvCfg, TypeOfDriver DEF Outcome, Lawful, Inited, DrvLaw
  <2>2. QED
    BY <1>1, <1>7, <2>1 DEF SetConfigs, Refused, Inited
<1>8. QED
  BY <1>2, <1>3, <1>4, <1>5, <1>6, <1>7 DEF AllCalls

\* A call keeps the invariant, with the handler registered or nothing to lose.
LEMMA CallReg ==
  ASSUME TypeOK, RegInv, NEW r, Sound(r), Lawful(r), Call(r), r.drv.initCfg # None => Inited,
         UNCHANGED registered, registered \/ evt' = evt, registered \/ rpc.pc # "Register"
  PROVE  RegInv'
<1>1. drv' = r.drv /\ evq' = evq \o r.evs /\ evq \in Seq(Events)
  BY DEF Call, TypeOK
<1>2. DrvLaw'
  BY <1>1 DEF DrvLaw, Lawful, Inited
<1>3. ASSUME ~registered PROVE ~drv'.started /\ evq' = <<>> /\ evt' = "idle"
  <2>1. ~Inited /\ evq = <<>> /\ evt = "idle"
    BY <1>3 DEF RegInv
  <2>2. <<>> \o <<>> = <<>>
    OBVIOUS
  <2>3. QED
    BY <1>1, <1>3, <2>1, <2>2 DEF Lawful
<1>4. ASSUME Inited' PROVE registered
  BY <1>1, <1>4 DEF Inited, RegInv
<1>5. QED
  BY <1>2, <1>3, <1>4 DEF RegInv

LEMMA RegStep ==
  ASSUME TypeOK, RpcArgs, RegInv, [Next]_vars
  PROVE  RegInv'
<1>1. ASSUME UNCHANGED <<drv, evq, registered>>, registered \/ evt' = evt,
             registered \/ rpc'.pc = rpc.pc \/ ~Inited
      PROVE  RegInv'
  <2>1. DrvLaw' /\ (Inited' <=> Inited)
    BY <1>1 DEF RegInv, DrvLaw, Inited
  <2>2. QED
    BY <1>1, <2>1 DEF RegInv
<1>2. ASSUME NEW r \in AllCalls, Sound(r), Call(r), UNCHANGED registered,
             registered \/ evt' = evt, registered \/ rpc.pc # "Register"
      PROVE  RegInv'
  BY <1>2, CallsLawful, CallReg DEF RegInv
<1>3. evt # "idle" => registered
  BY DEF RegInv
<1>4. rpc.pc # "Register" => registered \/ ~Inited
  BY DEF RegInv
<1>5. CASE HostRequest \/ UNCHANGED vars
  BY <1>1, <1>5 DEF HostRequest, vars, drvVars, initVars
<1>6. CASE Air
  <2>1. PICK r : /\ Sound(r) /\ Call(r) /\ drv.started /\ r.drv.started = drv.started
               /\ r.drv.cfg = drv.cfg /\ r.drv.initCfg = drv.initCfg
    BY <1>6, AirSound
  <2>2. Inited /\ registered
    BY <2>1 DEF RegInv, DrvLaw
  <2>3. Lawful(r) /\ (r.drv.initCfg # None => Inited)
    BY <2>1, <2>2 DEF Lawful, Inited
  <2>4. QED
    BY <1>6, <2>1, <2>2, <2>3, CallReg DEF Air, initVars
<1>7. CASE TakeMsg \/ InitCheck
  <2>1. rpc.pc # "Register" /\ UNCHANGED <<drv, evq, registered, evt>>
    BY <1>7 DEF TakeMsg, InitCheck, drvVars, initVars
  <2>2. QED
    BY <1>1, <1>4, <2>1
<1>8. CASE ReinitStop
  <2>1. PICK r \in Stops : Call(r)
    BY <1>8 DEF ReinitStop
  <2>2. QED
    BY <1>2, <1>8, <2>1, StopsSound DEF ReinitStop, initVars, AllCalls
<1>9. CASE ReinitDeinit
  <2>1. PICK r \in Deinits : Call(r)
    BY <1>9 DEF ReinitDeinit
  <2>2. QED
    BY <1>2, <1>9, <2>1, DeinitsSound DEF ReinitDeinit, AllCalls
<1>10. CASE CallRealInit
  <2>1. PICK r \in RealInit(rpc.arg) : Call(r) /\ (r.ok => rpc'.pc = "Register")
    BY <1>10, RpcTypes DEF CallRealInit, RpcPcs
  <2>2. /\ rpc.pc = "RealInit" /\ rpc.arg \in InitCfgs /\ UNCHANGED <<registered, evt>>
    BY <1>10 DEF CallRealInit, RpcArgs
  <2>3. /\ drv' = r.drv /\ evq' = evq /\ drv'.started = drv.started /\ drv'.link = drv.link
    <3>1. evq \o <<>> = evq
      BY DEF TypeOK
    <3>2. QED
      BY <2>1, <2>2, <3>1, RealInitSound DEF Call
  <2>4. (Inited => Inited') /\ (~Inited => ~Inited' \/ rpc'.pc = "Register")
    <3>1. CASE r = Outcome(FALSE, drv, <<>>)
      BY <2>3, <3>1 DEF Outcome, Inited
    <3>2. CASE r = Outcome(TRUE, drv, <<>>)
      BY <2>3, <3>2 DEF Outcome, Inited
    <3>3. CASE r = Outcome(TRUE, [drv EXCEPT !.initCfg = rpc.arg], <<>>)
      <4>1. r.ok = TRUE /\ r.drv.initCfg = rpc.arg
        BY <2>2, <3>3, DrvInit, TypeOfDriver DEF Outcome
      <4>2. QED
        BY <2>1, <2>2, <2>3, <4>1, ConstantsAssumption DEF Inited
    <3>4. QED
      BY <2>1, <3>1, <3>2, <3>3 DEF RealInit, Refused
  <2>5. registered \/ ~Inited
    BY <1>4, <2>2
  <2>6. DrvLaw'
    BY <2>3, <2>4 DEF RegInv, DrvLaw
  <2>7. QED
    BY <2>2, <2>3, <2>4, <2>5, <2>6 DEF RegInv
<1>11. CASE Register
  <2>1. UNCHANGED <<drv, evq>> /\ registered' = TRUE
    BY <1>11 DEF Register, drvVars
  <2>2. DrvLaw'
    BY <2>1 DEF RegInv, DrvLaw, Inited
  <2>3. QED
    BY <2>1, <2>2 DEF RegInv
<1>12. CASE PlainCall
  <2>1. PICK r \in AllCalls : Sound(r) /\ Call(r)
    BY <1>12, DeinitsSound, StopsSound, DisconnectsSound DEF PlainCall, AllCalls
  <2>2. rpc.pc # "Register" /\ UNCHANGED <<registered, evt>>
    BY <1>12 DEF PlainCall, initVars
  <2>3. QED
    BY <1>2, <2>1, <2>2
<1>13. CASE StartCall
  <2>1. PICK r \in Starts : Call(r)
    BY <1>13 DEF StartCall
  <2>2. rpc.pc # "Register" /\ UNCHANGED <<registered, evt>>
    BY <1>13 DEF StartCall, initVars
  <2>3. QED
    BY <1>2, <2>1, <2>2, StartsSound DEF AllCalls
<1>14. CASE StartPost \/ GetConfig \/ ConnectCheck
  <2>1. rpc.pc # "Register" /\ UNCHANGED <<drv, evq, registered, evt>>
    BY <1>14 DEF StartPost, GetConfig, ConnectCheck, drvVars, initVars
  <2>2. QED
    BY <1>1, <1>4, <2>1
<1>15. CASE SetConfig
  <2>1. PICK r \in SetConfigs(rpc.arg) : Call(r)
    BY <1>15 DEF SetConfig
  <2>2. rpc.pc # "Register" /\ rpc.arg \in StaCfgs /\ UNCHANGED <<registered, evt>>
    BY <1>15 DEF SetConfig, initVars, RpcArgs
  <2>3. QED
    BY <1>2, <2>1, <2>2, SetConfigsSound DEF AllCalls
<1>16. CASE ConnectCall
  <2>1. PICK r \in Connects : Call(r)
    BY <1>16 DEF ConnectCall
  <2>2. rpc.pc # "Register" /\ UNCHANGED <<registered, evt>>
    BY <1>16 DEF ConnectCall, initVars
  <2>3. QED
    BY <1>2, <2>1, <2>2, ConnectsSound DEF AllCalls
<1>17. ASSUME EventTask PROVE registered /\ UNCHANGED <<registered, rpc>>
  <2>1. evt # "idle" \/ evq # <<>>
    BY <1>17 DEF EventTask, TakeEvent, ConnCheck, Apply, Clear, ConnDrop, ConnTell, ConnMark,
         DiscMark, DiscReset, DiscTell, StaStart, StaConnect, StaStop, ApChange, Forward
  <2>2. UNCHANGED <<registered, rpc>>
    BY <1>17 DEF EventTask, TakeEvent, ConnCheck, Apply, Clear, ConnDrop, ConnTell, ConnMark,
         DiscMark, DiscReset, DiscTell, StaStart, StaConnect, StaStop, ApChange, Forward, initVars
  <2>3. QED
    BY <2>1, <2>2 DEF RegInv
<1>18. CASE EventTask
  <2>1. CASE TakeEvent
    <3>1. UNCHANGED drv
      BY <2>1 DEF TakeEvent
    <3>2. DrvLaw' /\ registered'
      BY <1>17, <1>18, <3>1 DEF RegInv, DrvLaw, Inited
    <3>3. QED
      BY <3>2 DEF RegInv
  <2>2. CASE \E r \in AllCalls : Sound(r) /\ Call(r)
    BY <1>2, <1>17, <1>18, <2>2
  <2>3. CASE UNCHANGED drvVars
    BY <1>1, <1>17, <1>18, <2>3 DEF drvVars
  <2>4. TakeEvent \/ (\E r \in AllCalls : Sound(r) /\ Call(r)) \/ UNCHANGED drvVars
    <3>1. new_wifi_config \in StaCfgs \cup {None}
      BY DEF TypeOK
    <3>2. ASSUME NEW from, NEW cleared, NEW kept, Apply(from, cleared, kept)
          PROVE  \E r \in AllCalls : Sound(r) /\ Call(r)
      BY <3>1, <3>2, SetConfigsSound DEF Apply, AllCalls
    <3>3. CASE ConnDrop
      BY <3>3, DisconnectsSound DEF ConnDrop, AllCalls
    <3>4. CASE StaConnect
      BY <3>4, ConnectsSound DEF StaConnect, AllCalls
    <3>5. QED
      BY <1>18, <3>2, <3>3, <3>4 DEF EventTask, ConnCheck, Clear, ConnTell, ConnMark,
         DiscMark, DiscReset, DiscTell, StaStart, StaStop, ApChange, Forward
  <2>5. QED
    BY <2>1, <2>2, <2>3, <2>4
<1>19. QED
  BY <1>5, <1>6, <1>7, <1>8, <1>9, <1>10, <1>11, <1>12, <1>13, <1>14, <1>15, <1>16, <1>18
     DEF Next, PserialTask

-----------------------------------------------------------------------------
(***************************************************************************)
(* The view of the host. The last station event still queued tells how the *)
(* station is; when none is, where the handler is tells it, and when the   *)
(* handler rests, what the host was told and station_connected do.         *)
(***************************************************************************)
UpPcs   == {"ConnCheck", "ConnApply", "ConnClear", "ConnDrop", "ConnTell"}
DownPcs == {"DiscMark", "DiscApply", "DiscClear", "DiscReset", "DiscTell"}
RestPcs == {"idle", "StaStart", "StaConnect", "StaStop", "ApStart", "ApStop", "Forward"}

Known ==
  /\ evt \in UpPcs     => Up
  /\ evt \in DownPcs   => ~Up
  /\ evt = "ConnMark"  => Up /\ told = "up"
  /\ evt \in RestPcs   => (told = "up" <=> Up) /\ (station_connected <=> Up)

ViewInv == ViewIs(evq, Known, Up)

\* station_connected and the callback change in the handler only.
FlagInv ==
  /\ evt \in {"DiscApply", "DiscClear", "DiscReset", "DiscTell"} => ~station_connected
  /\ evt \notin {"DiscApply", "DiscClear", "DiscReset"} => (rxcb <=> station_connected)

LEMMA CallView ==
  ASSUME ViewInv, NEW r, Sound(r), Call(r), (Up' <=> Up) => (Known => Known')
  PROVE  ViewInv'
<1>1. drv' = r.drv /\ evq' = evq \o r.evs
  BY DEF Call
<1>2. Known \in BOOLEAN /\ Known' \in BOOLEAN
  BY DEF Known
<1>3. Faithful(drv', evq')
  BY <1>1 DEF Sound
<1>4. Up' = (drv'.link = "up")
  BY DEF Up
<1>5. ((drv'.link = "up") <=> Up) => (Known => Known')
  BY <1>4
<1> DEFINE k == Known
           l == Known'
<1>6. k \in BOOLEAN /\ l \in BOOLEAN /\ ViewIs(evq, k, Up) /\ ((drv'.link = "up" <=> Up) => (k => l))
  BY <1>2, <1>5 DEF ViewInv
<1> HIDE DEF k, l
<1>7. ViewIs(evq', l, drv'.link = "up")
  BY <1>3, <1>6 DEF Faithful
<1>8. QED
  BY <1>7, <1>4 DEF ViewInv, l

LEMMA QuietView ==
  ASSUME ViewInv, UNCHANGED <<drv, evq>>, Known => Known'
  PROVE  ViewInv'
<1>1. Up' <=> Up
  BY DEF Up
<1>2. QED
  BY <1>1 DEF ViewInv, ViewIs

\* The steps that leave the handler, what the host was told and the flag alone.
LEMMA KnownKept ==
  ASSUME UNCHANGED <<evt, told, station_connected>>, Up' <=> Up
  PROVE  Known => Known'
BY DEF Known

LEMMA ViewStep ==
  ASSUME TypeOK, RpcArgs, RegInv, FlagInv, ViewInv, [Next]_vars
  PROVE  ViewInv'
<1>1. ASSUME NEW r, Sound(r), Call(r), UNCHANGED <<evt, told, station_connected>>
      PROVE  ViewInv'
  BY <1>1, KnownKept, CallView
<1>2. ASSUME UNCHANGED <<drv, evq, evt, told, station_connected>>
      PROVE  ViewInv'
  BY <1>2, KnownKept, QuietView DEF Up
<1>3. CASE HostRequest \/ UNCHANGED vars
  BY <1>2, <1>3 DEF HostRequest, vars, drvVars, staVars, hostVars
<1>4. CASE Air
  BY <1>1, <1>4, AirSound DEF Air, staVars, hostVars
<1>5. CASE PserialTask
  <2>1. CASE TakeMsg \/ InitCheck \/ Register \/ StartPost
    BY <1>2, <2>1 DEF TakeMsg, InitCheck, Register, StartPost, Post, drvVars, staVars, hostVars
  <2>2. CASE GetConfig
    BY <1>2, <2>2 DEF GetConfig, Store, drvVars, staVars, hostVars
  <2>3. CASE ReinitStop
    BY <1>1, <2>3, StopsSound DEF ReinitStop, staVars, hostVars
  <2>4. CASE ReinitDeinit
    BY <1>1, <2>4, DeinitsSound DEF ReinitDeinit, staVars, hostVars
  <2>5. CASE CallRealInit
    BY <1>1, <2>5, RealInitSound DEF CallRealInit, RpcArgs, staVars, hostVars
  <2>6. CASE PlainCall
    BY <1>1, <2>6, DeinitsSound, StopsSound, DisconnectsSound DEF PlainCall, staVars, hostVars
  <2>7. CASE StartCall
    BY <1>1, <2>7, StartsSound DEF StartCall, staVars, hostVars
  <2>8. CASE SetConfig
    BY <1>1, <2>8, SetConfigsSound DEF SetConfig, Store, RpcArgs, staVars, hostVars
  <2>9. CASE ConnectCall
    BY <1>1, <2>9, ConnectsSound DEF ConnectCall, staVars, hostVars
  <2>10. CASE ConnectCheck
    <3>1. UNCHANGED <<drv, evq, evt, station_connected>>
      BY <2>10 DEF ConnectCheck, drvVars, staVars
    <3>2. told' = told \/ (told' = "up" /\ station_connected)
      BY <2>10 DEF ConnectCheck, Post, hostVars, Provisioned
    <3>3. Known => Known'
      <4>1. Up' <=> Up
        BY <3>1 DEF Up
      <4>2. QED
        BY <3>1, <3>2, <4>1 DEF Known
    <3>4. QED
      BY <3>1, <3>3, QuietView
  <2>11. QED
    BY <1>5, <2>1, <2>2, <2>3, <2>4, <2>5, <2>6, <2>7, <2>8, <2>9, <2>10 DEF PserialTask
<1>6. CASE EventTask
  <2>1. CASE TakeEvent
    <3>1. /\ registered /\ evt = "idle" /\ evq # <<>> /\ evq \in Seq(Events)
          /\ evq' = Tail(evq) /\ evt' = HandlerPc(Head(evq))
          /\ UNCHANGED <<drv, told, station_connected>>
      BY <2>1 DEF TakeEvent, TypeOK, RegInv, staVars, hostVars
    <3>2. Up' <=> Up
      BY <3>1 DEF Up
    <3>3. Known \in BOOLEAN /\ Up \in BOOLEAN
      BY DEF Known, Up
    <3>4. /\ Head(evq) \in Events
          /\ Head(evq) \notin Station => ViewIs(Tail(evq), Known, Up)
          /\ Head(evq) \in Station => ViewIs(Tail(evq), (Head(evq) = "CONNECTED" <=> Up), Up)
      BY <3>1, <3>3, ViewTail DEF ViewInv
    <3>5. CASE Head(evq) \notin Station
      <4>1. evt' \in RestPcs /\ evt \in RestPcs
        BY <3>1, <3>4, <3>5 DEF HandlerPc, RestPcs, Station
      <4>2. Known => Known'
        BY <3>1, <3>2, <4>1 DEF Known, RestPcs, UpPcs, DownPcs
      <4>3. QED
        BY <3>1, <3>2, <3>4, <3>5, <4>2 DEF ViewInv, ViewIs
    <3>6. CASE Head(evq) = "CONNECTED"
      <4>1. evt' = "ConnCheck" /\ Head(evq) \in Station
        BY <3>1, <3>6 DEF HandlerPc, Station
      <4>2. Up => Known'
        BY <3>2, <4>1 DEF Known, UpPcs, DownPcs, RestPcs
      <4>3. QED
        BY <3>1, <3>2, <3>4, <3>6, <4>1, <4>2 DEF ViewInv, ViewIs
    <3>7. CASE Head(evq) = "DISCONNECTED"
      <4>1. evt' = "DiscMark" /\ Head(evq) \in Station
        BY <3>1, <3>7 DEF HandlerPc, Station
      <4>2. ~Up => Known'
        BY <3>2, <4>1 DEF Known, UpPcs, DownPcs, RestPcs
      <4>3. QED
        BY <3>1, <3>2, <3>4, <3>7, <4>1, <4>2 DEF ViewInv, ViewIs
    <3>8. QED
      BY <3>4, <3>5, <3>6, <3>7 DEF Station
  <2>2. ASSUME UNCHANGED <<drv, evq, told, station_connected>>,
               \/ evt \in UpPcs /\ evt' \in UpPcs
               \/ evt \in DownPcs /\ evt' \in DownPcs
               \/ evt \in RestPcs /\ evt' \in RestPcs
        PROVE  ViewInv'
    <3>1. Known => Known'
      BY <2>2 DEF Known, UpPcs, DownPcs, RestPcs, Up
    <3>2. QED
      BY <2>2, <3>1, QuietView
  <2>3. CASE ConnCheck
    BY <2>2, <2>3 DEF ConnCheck, drvVars, hostVars, UpPcs
  <2>4. CASE Clear("ConnClear", "ConnDrop") \/ Clear("DiscClear", "DiscReset")
    BY <2>2, <2>4 DEF Clear, drvVars, staVars, hostVars, UpPcs, DownPcs
  <2>5. CASE DiscReset
    BY <2>2, <2>5 DEF DiscReset, drvVars, hostVars, DownPcs
  <2>6. CASE StaStart \/ StaStop
    BY <2>2, <2>6 DEF StaStart, StaStop, drvVars, hostVars, RestPcs
  <2>7. CASE ApChange
    BY <2>2, <2>7 DEF ApChange, drvVars, hostVars, RestPcs
  <2>8. CASE Forward
    BY <2>2, <2>8 DEF Forward, Post, drvVars, staVars, RestPcs
  <2>9. ASSUME NEW from, NEW cleared, NEW kept, Apply(from, cleared, kept),
               \/ {from, cleared, kept} \subseteq UpPcs
               \/ {from, cleared, kept} \subseteq DownPcs
        PROVE  ViewInv'
    <3>1. PICK r \in SetConfigs(new_wifi_config) : Call(r)
      BY <2>9 DEF Apply
    <3>2. Sound(r)
      BY <3>1, SetConfigsSound DEF TypeOK
    <3>3. evt' \in {cleared, kept} /\ evt = from /\ UNCHANGED <<told, station_connected>>
      BY <2>9 DEF Apply, staVars, hostVars
    <3>4. (Up' <=> Up) => (Known => Known')
      BY <2>9, <3>3 DEF Known, UpPcs, DownPcs, RestPcs
    <3>5. QED
      BY <3>1, <3>2, <3>4, CallView
  <2>10. CASE Apply("ConnApply", "ConnClear", "ConnDrop") \/ Apply("DiscApply", "DiscClear", "DiscReset")
    BY <2>9, <2>10 DEF UpPcs, DownPcs
  <2>11. CASE ConnDrop
    <3>1. PICK r \in Disconnects : Call(r)
      BY <2>11 DEF ConnDrop
    <3>2. Sound(r) /\ r.drv.link = "idle"
      BY <3>1, DisconnectsSound DEF RegInv, DrvLaw
    <3>3. ~Up'
      BY <3>1, <3>2 DEF Call, Up
    <3>4. Known => Up
      BY <2>11 DEF ConnDrop, Known, UpPcs
    <3>5. QED
      BY <3>1, <3>2, <3>3, <3>4, CallView
  <2>12. CASE StaConnect
    <3>1. PICK r \in Connects : Call(r)
      BY <2>12 DEF StaConnect
    <3>2. (Up' <=> Up) => (Known => Known')
      BY <2>12 DEF StaConnect, staVars, hostVars, Known, UpPcs, DownPcs, RestPcs
    <3>3. QED
      BY <3>1, <3>2, ConnectsSound, CallView
  <2>13. CASE ConnTell
    <3>1. Known => Known'
      BY <2>13 DEF ConnTell, Post, drvVars, Known, UpPcs, DownPcs, RestPcs, Up
    <3>2. QED
      BY <2>13, <3>1, QuietView DEF ConnTell, drvVars
  <2>14. CASE ConnMark
    <3>1. Known => Known'
      BY <2>14 DEF ConnMark, drvVars, hostVars, Known, UpPcs, DownPcs, RestPcs, Up
    <3>2. QED
      BY <2>14, <3>1, QuietView DEF ConnMark, drvVars
  <2>15. CASE DiscMark
    <3>1. Known => Known'
      BY <2>15 DEF DiscMark, drvVars, hostVars, Known, UpPcs, DownPcs, RestPcs, Up
    <3>2. QED
      BY <2>15, <3>1, QuietView DEF DiscMark, drvVars
  <2>16. CASE DiscTell
    <3>1. Known => Known'
      BY <2>16 DEF DiscTell, Post, drvVars, staVars, FlagInv, Known, UpPcs, DownPcs, RestPcs, Up
    <3>2. QED
      BY <2>16, <3>1, QuietView DEF DiscTell, drvVars
  <2>17. QED
    BY <1>6, <2>1, <2>3, <2>4, <2>5, <2>6, <2>7, <2>8, <2>10, <2>11, <2>12, <2>13, <2>14,
       <2>15, <2>16 DEF EventTask
<1>7. QED
  BY <1>3, <1>4, <1>5, <1>6 DEF Next

LEMMA FlagStep ==
  ASSUME FlagInv, [Next]_vars
  PROVE  FlagInv'
<1>1. CASE UNCHANGED <<evt, station_connected, rxcb>>
  BY <1>1 DEF FlagInv
<1>2. CASE HostRequest \/ Air \/ UNCHANGED vars
  BY <1>1, <1>2 DEF HostRequest, Air, vars, staVars
<1>3. CASE PserialTask
  BY <1>1, <1>3 DEF PserialTask, TakeMsg, InitCheck, ReinitStop, ReinitDeinit, CallRealInit,
     Register, PlainCall, StartCall, StartPost, GetConfig, SetConfig, Store, ConnectCheck,
     ConnectCall, staVars
<1>4. CASE EventTask
  <2>1. CASE TakeEvent
    BY <2>1 DEF TakeEvent, HandlerPc, FlagInv, staVars
  <2>2. CASE ConnCheck \/ ConnDrop \/ ConnTell \/ ConnMark
    BY <2>2 DEF ConnCheck, ConnDrop, ConnTell, ConnMark, FlagInv, staVars
  <2>3. CASE Apply("ConnApply", "ConnClear", "ConnDrop") \/ Apply("DiscApply", "DiscClear", "DiscReset")
    BY <2>3 DEF Apply, FlagInv, staVars
  <2>4. CASE Clear("ConnClear", "ConnDrop") \/ Clear("DiscClear", "DiscReset")
    BY <2>4 DEF Clear, FlagInv, staVars
  <2>5. CASE DiscMark \/ DiscReset \/ DiscTell
    BY <2>5 DEF DiscMark, DiscReset, DiscTell, FlagInv, staVars
  <2>6. CASE StaStart \/ StaConnect \/ StaStop \/ ApChange \/ Forward
    BY <2>6 DEF StaStart, StaConnect, StaStop, ApChange, Forward, FlagInv, staVars
  <2>7. QED
    BY <1>4, <2>1, <2>2, <2>3, <2>4, <2>5, <2>6 DEF EventTask
<1>5. QED
  BY <1>2, <1>3, <1>4 DEF Next

-----------------------------------------------------------------------------
(***************************************************************************)
(* The accepted configuration. What is recorded is the last accepted; the  *)
(* handler has something to apply when it applies, and has applied it when *)
(* it clears the flag, unless another one was accepted in between and is   *)
(* lost by that.                                                           *)
(***************************************************************************)
InDriver == drv.cfg # None /\ is_wifi_config_equal(wanted, drv.cfg)

KeptInv ==
  /\ new_config_recvd => wanted # None /\ new_wifi_config = wanted
  /\ ~raced /\ evt \in Applies => new_config_recvd
  /\ ~raced /\ evt \in Clears => InDriver
  /\ AcceptedConfigKept

\* A configuration in the driver that is the one wanted, and one that counts
\* as the same.
LEMMA InDriverNext ==
  ASSUME drv'.cfg # None, wanted' = drv'.cfg \/ is_wifi_config_equal(wanted', drv'.cfg)
  PROVE  InDriver'
BY DEF InDriver, is_wifi_config_equal

LEMMA KeptStep ==
  ASSUME TypeOK, RpcArgs, KeptInv, [Next]_vars
  PROVE  KeptInv'
<1>1. ASSUME drv'.cfg = drv.cfg, UNCHANGED cfgVars,
             \/ evt' = evt
             \/ evt' \notin Applies \cup Clears
             \/ evt' \in Applies /\ new_config_recvd
      PROVE  KeptInv'
  <2>1. InDriver => InDriver'
    BY <1>1 DEF InDriver, is_wifi_config_equal, cfgVars
  <2>2. Applies \cap Clears = {}
    BY DEF Applies, Clears
  <2>3. AcceptedConfigKept'
    BY <1>1, <2>1 DEF KeptInv, AcceptedConfigKept, InDriver, cfgVars
  <2>4. QED
    BY <1>1, <2>1, <2>2, <2>3 DEF KeptInv, cfgVars
<1>2. CASE HostRequest \/ UNCHANGED vars
  BY <1>1, <1>2 DEF HostRequest, vars, drvVars
<1>3. CASE Air
  BY <1>1, <1>3, AirSound DEF Air, Call
<1>4. CASE PserialTask
  <2>1. CASE TakeMsg \/ InitCheck \/ Register \/ StartPost \/ ConnectCheck
    BY <1>1, <2>1 DEF TakeMsg, InitCheck, Register, StartPost, ConnectCheck, drvVars
  <2>2. CASE ReinitStop
    BY <1>1, <2>2, StopsSound DEF ReinitStop, Call
  <2>3. CASE ReinitDeinit
    BY <1>1, <2>3, DeinitsSound DEF ReinitDeinit, Call
  <2>4. CASE CallRealInit
    BY <1>1, <2>4, RealInitSound DEF CallRealInit, RpcArgs, Call
  <2>5. CASE PlainCall
    BY <1>1, <2>5, DeinitsSound, StopsSound, DisconnectsSound DEF PlainCall, Call
  <2>6. CASE StartCall
    BY <1>1, <2>6, StartsSound DEF StartCall, Call
  <2>7. CASE ConnectCall
    BY <1>1, <2>7, ConnectsSound DEF ConnectCall, Call
  <2>8. ASSUME NEW c \in StaCfgs, NEW current, Store(c, current), UNCHANGED evt,
               current = None \/ drv'.cfg = current
        PROVE  KeptInv'
    <3> DEFINE unchanged == current # None /\ is_wifi_config_equal(c, current)
    <3>1. /\ new_config_recvd' = ~unchanged /\ wanted' = c
          /\ raced' = (evt \in IF unchanged THEN Applies ELSE Clears)
          /\ ~unchanged => new_wifi_config' = c
      BY <2>8 DEF Store
    <3>2. unchanged => InDriver'
      BY <2>8, <3>1, InDriverNext
    <3> HIDE DEF unchanged
    <3>3. c # None
      BY ConstantsAssumption
    <3>4. AcceptedConfigKept'
      BY <3>1, <3>2 DEF AcceptedConfigKept, InDriver
    <3>5. CASE unchanged
      BY <2>8, <3>1, <3>2, <3>4, <3>5 DEF KeptInv
    <3>6. CASE ~unchanged
      BY <2>8, <3>1, <3>3, <3>4, <3>6 DEF KeptInv
    <3>7. QED
      BY <3>5, <3>6
  <2>9. CASE GetConfig
    <3>1. rpc.arg \in StaCfgs
      BY <2>9 DEF GetConfig, RpcArgs
    <3>2. CASE Store(rpc.arg, drv.cfg)
      BY <2>8, <2>9, <3>1, <3>2 DEF GetConfig, drvVars
    <3>3. CASE UNCHANGED cfgVars
      BY <1>1, <2>9, <3>3 DEF GetConfig, drvVars
    <3>4. QED
      BY <2>9, <3>2, <3>3 DEF GetConfig
  <2>10. CASE SetConfig
    <3>1. rpc.arg \in StaCfgs /\ rpc.arg # None
      BY <2>10, ConstantsAssumption DEF SetConfig, RpcArgs
    <3>2. QED
      BY <2>8, <2>10, <3>1 DEF SetConfig
  <2>11. QED
    BY <1>4, <2>1, <2>2, <2>3, <2>4, <2>5, <2>6, <2>7, <2>9, <2>10 DEF PserialTask
<1>5. CASE EventTask
  <2>1. CASE TakeEvent
    BY <1>1, <2>1 DEF TakeEvent, HandlerPc, Applies, Clears
  <2>2. CASE ConnCheck
    BY <1>1, <2>2 DEF ConnCheck, drvVars, Applies, Clears
  <2>3. CASE DiscMark
    BY <1>1, <2>3 DEF DiscMark, drvVars, Applies, Clears
  <2>4. CASE ConnDrop
    BY <1>1, <2>4, DisconnectsSound DEF ConnDrop, Call, Applies, Clears
  <2>5. CASE StaConnect
    BY <1>1, <2>5, ConnectsSound DEF StaConnect, Call, Applies, Clears
  <2>6. CASE ConnTell \/ ConnMark \/ DiscReset \/ DiscTell
    BY <1>1, <2>6 DEF ConnTell, ConnMark, DiscReset, DiscTell, drvVars, Applies, Clears
  <2>7. CASE StaStart \/ StaStop \/ ApChange \/ Forward
    BY <1>1, <2>7 DEF StaStart, StaStop, ApChange, Forward, drvVars, Applies, Clears
  <2>8. ASSUME NEW from \in {"ConnApply", "DiscApply"}, NEW cleared \in {"ConnClear", "DiscClear"},
               NEW kept \in {"ConnDrop", "DiscReset"}, Apply(from, cleared, kept)
        PROVE  KeptInv'
    <3>1. PICK r \in SetConfigs(new_wifi_config) :
            Call(r) /\ evt' = IF r.ok THEN cleared ELSE kept
      BY <2>8 DEF Apply
    <3>2. /\ evt = from /\ UNCHANGED cfgVars /\ drv' = r.drv
          /\ r.ok \in BOOLEAN
          /\ r.ok => r.drv.cfg = new_wifi_config
          /\ ~r.ok => r.drv = drv
      BY <2>8, <3>1, SetConfigsSound DEF Apply, Call, Sound, TypeOK
    <3>3. CASE ~r.ok
      BY <1>1, <3>1, <3>2, <3>3 DEF Applies, Clears
    <3>4. CASE r.ok
      <4>1. evt' \in Clears /\ evt' \notin Applies /\ evt \in Applies
        BY <2>8, <3>1, <3>2, <3>4 DEF Applies, Clears
      <4>2. /\ new_config_recvd' => wanted' # None /\ new_wifi_config' = wanted'
            /\ ~raced' => new_config_recvd'
        BY <3>2, <4>1 DEF KeptInv, cfgVars
      <4>3. ~raced' => InDriver'
        BY <3>2, <3>4, <4>2, InDriverNext DEF cfgVars
      <4>4. QED
        BY <4>1, <4>2, <4>3 DEF KeptInv, AcceptedConfigKept, InDriver
    <3>5. QED
      BY <3>2, <3>3, <3>4
  <2>9. ASSUME NEW from \in {"ConnClear", "DiscClear"}, NEW next \in {"ConnDrop", "DiscReset"},
               Clear(from, next)
        PROVE  KeptInv'
    <3>1. /\ evt \in Clears /\ evt' \notin Applies \cup Clears
          /\ UNCHANGED <<raced, wanted, drv>> /\ new_config_recvd' = FALSE
      BY <2>9 DEF Clear, Applies, Clears, drvVars
    <3>2. ~raced' => InDriver'
      BY <3>1 DEF KeptInv, InDriver, is_wifi_config_equal
    <3>3. QED
      BY <3>1, <3>2 DEF KeptInv, AcceptedConfigKept, InDriver
  <2>10. QED
    BY <1>5, <2>1, <2>2, <2>3, <2>4, <2>5, <2>6, <2>7, <2>8, <2>9 DEF EventTask
<1>6. QED
  BY <1>2, <1>3, <1>4, <1>5 DEF Next

-----------------------------------------------------------------------------
IInv == TypeOK /\ RpcArgs /\ RegInv /\ FlagInv /\ ViewInv /\ KeptInv

LEMMA IInvInit == Init => IInv
<1> SUFFICES ASSUME Init PROVE IInv
  OBVIOUS
<1>1. PICK s \in StaCfgs \cup {None} : NotStarted(s) \/ \E c \in InitCfgs : connect_sta(s, c)
  BY DEF Init
<1>2. /\ evt = "idle" /\ told = "down" /\ rpc.pc = "idle" /\ wanted = None
      /\ station_connected = FALSE /\ rxcb = FALSE /\ new_config_recvd = FALSE
  BY DEF Init, Idle, At
<1>3. /\ drv.link = "idle" /\ StaIn(evq) = {}
      /\ drv.started => Inited
      /\ ~registered => ~drv.started /\ evq = <<>>
      /\ Inited => registered
  <2>1. CASE NotStarted(s)
    BY <2>1 DEF NotStarted, StaIn, Inited
  <2>2. CASE \E c \in InitCfgs : connect_sta(s, c)
    BY <2>2, ConstantsAssumption DEF connect_sta, StaIn, Station, Inited
  <2>3. QED
    BY <1>1, <2>1, <2>2
<1>4. RegInv
  BY <1>2, <1>3 DEF RegInv, DrvLaw
<1>5. FlagInv
  BY <1>2 DEF FlagInv
<1>6. ViewInv
  BY <1>2, <1>3 DEF ViewInv, ViewIs, Known, Up, UpPcs, DownPcs, RestPcs
<1>7. KeptInv
  BY <1>2 DEF KeptInv, AcceptedConfigKept, Applies, Clears
<1>8. QED
  BY <1>4, <1>5, <1>6, <1>7, TypeInit DEF IInv

THEOREM InvariantHolds == Spec => []IInv
<1>1. IInv /\ [Next]_vars => IInv'
  BY TypeStep, RegStep, FlagStep, ViewStep, KeptStep DEF IInv
<1>2. QED
  BY IInvInit, <1>1, PTL DEF Spec

\* Whatever interleaving of requests and events: with no event left to handle,
\* the host was last told of the station what the driver has.
THEOREM HostViewHolds == Spec => []HostViewCorrect
<1>1. IInv => HostViewCorrect
  <2> SUFFICES ASSUME IInv, Quiet PROVE (told = "up") <=> (drv.link = "up")
    BY DEF HostViewCorrect
  <2>1. StaIn(evq) = {}
    BY DEF Quiet, StaIn
  <2>2. QED
    BY <2>1 DEF IInv, ViewInv, ViewIs, Known, Quiet, RestPcs, Up
<1>2. QED
  BY <1>1, InvariantHolds, PTL

\* And the data path is open exactly to a station that is connected.
THEOREM DataPathHolds == Spec => []DataPathCorrect
<1>1. IInv => DataPathCorrect
  <2> SUFFICES ASSUME IInv, Quiet
               PROVE  (station_connected <=> drv.link = "up") /\ (rxcb <=> station_connected)
    BY DEF DataPathCorrect
  <2>1. StaIn(evq) = {}
    BY DEF Quiet, StaIn
  <2>2. QED
    BY <2>1 DEF IInv, ViewInv, ViewIs, Known, FlagInv, Quiet, RestPcs, Up
<1>2. QED
  BY <1>1, InvariantHolds, PTL

\* The configuration last answered with success, or one that the code takes for
\* the same, is in the driver or recorded to be applied, but for the two
\* interleavings with the event handler that raced stands for. Nothing is said
\* of the fields the code does not compare: in them it may differ for good.
THEOREM AcceptedConfigHolds == Spec => []AcceptedConfigKept
<1>1. IInv => AcceptedConfigKept
  BY DEF IInv, KeptInv
<1>2. QED
  BY <1>1, InvariantHolds, PTL

-----------------------------------------------------------------------------
(***************************************************************************)
(* What is left when everything has come to rest: the safety part of       *)
(* RequestsReturn and of LossReported.                                     *)
(***************************************************************************)
\* Neither task can move.
AtRest ==
  /\ \/ rpc.pc = "idle" /\ req_queue = <<>>
     \/ rpc.pc = "Register" /\ evt # "idle"
     \/ rpc.pc = "StartPost" /\ QueueFull
     \/ rpc.pc = "ConnectAck"
  /\ Quiet \/ (evt \in {"ConnTell", "DiscTell", "Forward"} /\ QueueFull)

\* An acknowledgement waits in a full queue, which nobody else empties.
AckInv == rpc.pc = "ConnectAck" => QueueFull

\* The tasks come to rest only in one of the two hangs, or with all requests
\* and events handled and the station for the host, for its data path and for
\* the driver in the same state.
RestsWhenDone ==
  AtRest => \/ Hung
            \/ /\ rpc.pc = "idle" /\ req_queue = <<>> /\ Quiet
               /\ told = "up" <=> drv.link = "up"
               /\ station_connected <=> drv.link = "up"

\* With the queue full nobody adds to it, and pserial_task does not take from
\* it while it is at anything else.
LEMMA FullStays ==
  ASSUME TypeOK, [Next]_vars, QueueFull, rpc.pc # "idle"
  PROVE  UNCHANGED req_queue
<1>1. Len(req_queue) = ReqqSize /\ ReqqSize \in Nat
  BY ConstantsAssumption DEF QueueFull
<1>2. ~HostRequest /\ ~TakeMsg /\ \A view : ~Post(view)
  BY <1>1 DEF HostRequest, TakeMsg, Post
<1>3. CASE Air \/ UNCHANGED vars
  BY <1>3 DEF Air, vars, hostVars
<1>4. CASE PserialTask
  <2>1. CASE InitCheck \/ ReinitStop \/ ReinitDeinit \/ CallRealInit \/ Register
    BY <2>1 DEF InitCheck, ReinitStop, ReinitDeinit, CallRealInit, Register, hostVars
  <2>2. CASE PlainCall \/ StartCall \/ GetConfig \/ SetConfig \/ ConnectCall
    BY <2>2 DEF PlainCall, StartCall, GetConfig, SetConfig, ConnectCall, hostVars
  <2>3. CASE StartPost \/ ConnectCheck
    BY <1>1, <1>2, <2>3 DEF StartPost, ConnectCheck, hostVars
  <2>4. QED
    BY <1>2, <1>4, <2>1, <2>2, <2>3 DEF PserialTask
<1>5. CASE EventTask
  <2>1. ~ConnTell /\ ~DiscTell /\ ~Forward
    BY <1>2 DEF ConnTell, DiscTell, Forward
  <2>2. CASE TakeEvent \/ ConnCheck \/ ConnDrop \/ ConnMark \/ DiscMark \/ DiscReset
    BY <2>2 DEF TakeEvent, ConnCheck, ConnDrop, ConnMark, DiscMark, DiscReset, hostVars
  <2>3. CASE StaStart \/ StaConnect \/ StaStop \/ ApChange
    BY <2>3 DEF StaStart, StaConnect, StaStop, ApChange, hostVars
  <2>4. CASE \E f, c, k : Apply(f, c, k) \/ Clear(f, c)
    BY <2>4 DEF Apply, Clear, hostVars
  <2>5. QED
    BY <1>5, <2>1, <2>2, <2>3, <2>4 DEF EventTask
<1>6. QED
  BY <1>2, <1>3, <1>4, <1>5 DEF Next

LEMMA AckStep == TypeOK /\ AckInv /\ [Next]_vars => AckInv'
<1> SUFFICES ASSUME TypeOK, AckInv, [Next]_vars, rpc'.pc = "ConnectAck" PROVE QueueFull'
  BY DEF AckInv
<1>1. CASE rpc.pc = "ConnectAck"
  BY <1>1, FullStays DEF AckInv, QueueFull
<1>2. CASE rpc.pc # "ConnectAck"
  <2>1. ConnectCheck
    <3>1. rpc' # rpc
      BY <1>2
    <3>2. PserialTask
      BY <3>1 DEF Next, HostRequest, Air, EventTask, TakeEvent, ConnCheck, Apply, Clear,
                  ConnDrop, ConnTell, ConnMark, DiscMark, DiscReset, DiscTell, StaStart,
                  StaConnect, StaStop, ApChange, Forward, vars
    <3>3. ASSUME TakeMsg PROVE FALSE
      <4>1. \/ rpc'.pc = "idle"
            \/ \E r \in Requests \cup {EventMsg} : rpc' = At(FirstPc(r.op), r.arg, 0)
        <5>1. Head(req_queue) \in Requests \cup {EventMsg}
          BY <3>3 DEF TakeMsg, TypeOK
        <5>2. QED
          BY <3>3, <5>1 DEF TakeMsg, Idle, At
      <4>2. QED
        BY <4>1 DEF At, FirstPc, Requests, EventMsg
    <3>4. rpc'.pc # "ConnectAck" \/ TakeMsg \/ ConnectCheck
      <4>1. CASE InitCheck \/ ReinitStop \/ ReinitDeinit
        BY <4>1 DEF InitCheck, ReinitStop, ReinitDeinit, TypeOK
      <4>2. CASE CallRealInit \/ Register \/ PlainCall \/ ConnectCall
        BY <4>2 DEF CallRealInit, Register, PlainCall, ConnectCall, Idle, At, TypeOK
      <4>3. CASE StartCall \/ StartPost
        BY <4>3 DEF StartCall, StartPost, Idle, At, TypeOK
      <4>4. CASE GetConfig \/ SetConfig
        BY <4>4 DEF GetConfig, SetConfig, Store, Idle, At, TypeOK
      <4>5. QED
        BY <3>2, <4>1, <4>2, <4>3, <4>4 DEF PserialTask
    <3>5. QED
      BY <3>3, <3>4
  <2>2. QED
    BY <2>1, ConstantsAssumption DEF ConnectCheck, QueueFull, hostVars, TypeOK, Idle, At
<1>3. QED
  BY <1>1, <1>2

\* Requests and station events are handled to their end, with the host, the
\* data path and the driver of one mind, unless the co-processor hangs in one
\* of the two known ways.
THEOREM RestCorrect == Spec => []RestsWhenDone
<1>1. IInv /\ AckInv /\ HostViewCorrect /\ DataPathCorrect => RestsWhenDone
  <2> SUFFICES ASSUME IInv, AckInv, HostViewCorrect, DataPathCorrect, AtRest, ~Hung
               PROVE  /\ rpc.pc = "idle" /\ req_queue = <<>> /\ Quiet
                      /\ told = "up" <=> drv.link = "up"
                      /\ station_connected <=> drv.link = "up"
    BY DEF RestsWhenDone
  <2>1. rpc.pc = "idle" /\ req_queue = <<>>
    BY DEF AtRest, AckInv, Hung, PostsToItself, WaitsForLoop, Quiet
  <2>2. ~QueueFull
    BY <2>1, ConstantsAssumption DEF QueueFull
  <2>3. Quiet
    BY <2>2 DEF AtRest
  <2>4. QED
    BY <2>1, <2>3 DEF HostViewCorrect, DataPathCorrect
<1>2. Init => AckInv
  BY DEF Init, AckInv, Idle, At
<1>3. IInv => TypeOK
  BY DEF IInv
<1>4. QED
  BY <1>1, <1>2, <1>3, AckStep, InvariantHolds, HostViewHolds, DataPathHolds, PTL DEF Spec

\* Nothing gets the co-processor out of the two hangs.
THEOREM HangsForGood == Spec => [][Hung => Hung']_vars
<1>1. TypeOK /\ [Next]_vars => (Hung => Hung')
  <2> SUFFICES ASSUME TypeOK, [Next]_vars, Hung PROVE Hung'
    OBVIOUS
  <2>1. QueueFull /\ rpc.pc \in {"StartPost", "ConnectAck", "Register"}
    BY DEF Hung, PostsToItself, WaitsForLoop
  <2>2. UNCHANGED req_queue /\ QueueFull'
    <3>1. UNCHANGED req_queue
      BY <2>1, FullStays
    <3>2. QED
      BY <2>1, <3>1 DEF QueueFull
  <2>3. \A view : ~Post(view)
    BY <2>1, ConstantsAssumption DEF QueueFull, Post
  <2>4. UNCHANGED rpc
    <3>1. ~Register \/ rpc.pc # "Register"
      BY DEF Hung, PostsToItself, WaitsForLoop, Register
    <3>2. ~PserialTask
      BY <2>1, <2>3, <3>1 DEF PserialTask, TakeMsg, InitCheck, ReinitStop, ReinitDeinit,
             CallRealInit, Register, PlainCall, StartCall, StartPost, GetConfig, SetConfig,
             ConnectCheck, ConnectCall
    <3>3. QED
      BY <3>2 DEF Next, HostRequest, Air, EventTask, TakeEvent, ConnCheck, Apply, Clear,
                  ConnDrop, ConnTell, ConnMark, DiscMark, DiscReset, DiscTell, StaStart,
                  StaConnect, StaStop, ApChange, Forward, vars
  <2>5. CASE PostsToItself
    BY <2>2, <2>4, <2>5 DEF Hung, PostsToItself
  <2>6. CASE WaitsForLoop
    <3>1. evt \in {"ConnTell", "DiscTell", "Forward"}
      BY <2>6 DEF WaitsForLoop
    <3>2. ~EventTask
      BY <2>3, <3>1 DEF EventTask, TakeEvent, ConnCheck, Apply, Clear, ConnDrop, ConnTell,
             ConnMark, DiscMark, DiscReset, DiscTell, StaStart, StaConnect, StaStop, ApChange,
             Forward
    <3>3. UNCHANGED evt
      <4>1. PserialTask => UNCHANGED evt
        BY <2>1, <2>4 DEF PserialTask, TakeMsg, InitCheck, ReinitStop, ReinitDeinit,
               CallRealInit, Register, PlainCall, StartCall, StartPost, GetConfig, SetConfig,
               ConnectCheck, ConnectCall
      <4>2. QED
        BY <3>2, <4>1 DEF Next, HostRequest, Air, vars
    <3>4. QED
      BY <2>2, <2>4, <2>6, <3>3 DEF Hung, WaitsForLoop
  <2>7. QED
    BY <2>5, <2>6 DEF Hung
<1>2. QED
  BY <1>1, TypeCorrect, PTL DEF Spec
=============================================================================
