--------------------------- MODULE OutcomeProofs ----------------------------
(* Theorems about the outcomes of calls in TSC, for any number of calls: a *)
(* call is decided once, the window of the current call is kept, no        *)
(* transmitter is stranded on the traffic channel, the controller          *)
(* implements the service of CallService, and every call moves on.         *)
EXTENDS TSCProofs, FiniteSetTheorems, FunctionTheorems

(* The state is looked at through five values: the queue q, the window s   *)
(* about to open, the open window o, the call k carried, and the current   *)
(* call.                                                                   *)
NoneFor(q, c) == \A i \in DOMAIN q : ~Decisive(q[i], c)
OneFor(q, c) == \A i, j \in DOMAIN q : Decisive(q[i], c) /\ Decisive(q[j], c) => i = j
NoAhoy(q) == \A i \in DOMAIN q : q[i].cw # "AHY"

(* The outcome of call c is in one place at most.                          *)
Once(q, s, o, k, c) ==
  /\ OneFor(q, c)
  /\ Refers(s, c) \/ Refers(o, c) \/ k = c => NoneFor(q, c)
  /\ Refers(s, c) => ~Refers(o, c) /\ k # c
  /\ Refers(o, c) => k # c

(* The current call is behind the calls that were given up: no ahoy is     *)
(* queued behind its own, none at all once that is sent, and once it is    *)
(* decided every other outcome comes before its own.                       *)
Latest(q, s, o, k, c) ==
  /\ \A i, j \in DOMAIN q :
       Decisive(q[i], c) /\ q[i].cw = "AHY" /\ q[j].cw = "AHY" => j <= i
  /\ \A i \in DOMAIN q : Decisive(q[i], c) /\ q[i].cw # "AHY" =>
       /\ NoAhoy(q) /\ s = None /\ o = None
       /\ \A j \in DOMAIN q : \A d \in Calls : Decisive(q[j], d) => j <= i
  /\ Refers(s, c) \/ Refers(o, c) => NoAhoy(q)
  /\ Refers(o, c) => s = None
  /\ k = c => s = None /\ o = None /\ \A d \in Calls : NoneFor(q, d)

HasPlace(q, s, o, k, c) ==
  ~NoneFor(q, c) \/ Refers(s, c) \/ Refers(o, c) \/ k = c

(* What the handlers of tsc.py queue: an ahoy solicits a reply, nothing    *)
(* else does, and of the rest a grant leads to the traffic channel.        *)
OutcomeItem ==
  {item \in CallItem :
     /\ item.cw = "AHY" <=> item.rxlen > 0
     /\ item.cw = "AHY" \/ item.cw = "ACKV" => item.next = None
     /\ item.cw = "ACKV" \/ item.next = 2 => item.data \in Calls
     /\ item.next # 0}

ClearItem == {item \in TrafficItem : item.rxlen = 0 /\ item.cw \notin {"AHY", "ACKV"}}

Queued == txqueue \in Seq(OutcomeItem) /\ txtrafqueue \in Seq(ClearItem)

Outcomes == \A c \in Calls : Once(txqueue, txreserveditem, rxcomplete, carried, c)

Order ==
  call # None => Latest(txqueue, txreserveditem, rxcomplete, carried, call)

(* A call is carried exactly while the traffic channel is on the air.      *)
Carrying ==
  /\ carried # None <=> StateNow \in {2, 3}
  /\ pc = "morse" => carried = None

(* For every call given up whose outcome is still to come there is a CLEAR *)
(* that leads back, a different one for each.                              *)
GivenUp ==
  {c \in Calls : c # call /\ HasPlace(txqueue, txreserveditem, rxcomplete, carried, c)}
Covered == ExistsInjection(GivenUp, Restarts)

(* Only an ahoy has a window behind it.                                    *)
Rung == txreserveditem # None => lastcw = "AHY"

OutcomeInv == TSCInv /\ Queued /\ Outcomes /\ Order /\ Carrying /\ Covered /\ Rung

-----------------------------------------------------------------------------
(* Queues                                                                  *)

LEMMA Joined ==
  ASSUME NEW S, NEW q \in Seq(S), NEW b \in Seq(S)
  PROVE  /\ q \o b \in Seq(S)
         /\ Len(q \o b) = Len(q) + Len(b)
         /\ \A i \in DOMAIN (q \o b) :
              \/ i \in DOMAIN q /\ i <= Len(q) /\ (q \o b)[i] = q[i]
              \/ /\ i > Len(q) /\ i - Len(q) \in DOMAIN b
                 /\ (q \o b)[i] = b[i - Len(q)]
  OBVIOUS

LEMMA JoinedAt ==
  ASSUME NEW S, NEW q \in Seq(S), NEW b \in Seq(S), NEW n \in 1..Len(b)
  PROVE  /\ Len(q) + n \in DOMAIN (q \o b) /\ Len(q) + n \notin DOMAIN q
         /\ (q \o b)[Len(q) + n] = b[n]
  OBVIOUS

LEMMA Popped ==
  ASSUME NEW S, NEW q \in Seq(S), q # <<>>
  PROVE  /\ Head(q) \in S /\ Tail(q) \in Seq(S)
         /\ 1 \in DOMAIN q /\ q[1] = Head(q)
         /\ \A i \in DOMAIN Tail(q) : i \in Nat \ {0} /\ i + 1 \in DOMAIN q /\ Tail(q)[i] = q[i + 1]
  OBVIOUS

LEMMA JoinNone ==
  ASSUME NEW q \in Seq(Item), NEW b \in Seq(Item), NEW c, NoneFor(b, c)
  PROVE  /\ NoneFor(q, c) => NoneFor(q \o b, c)
         /\ OneFor(q, c) => OneFor(q \o b, c)
<1>1. \A i \in DOMAIN (q \o b) :
        Decisive((q \o b)[i], c) => i \in DOMAIN q /\ Decisive(q[i], c)
  BY Joined DEF NoneFor
<1> QED BY <1>1 DEF NoneFor, OneFor

LEMMA JoinOne ==
  ASSUME NEW q \in Seq(Item), NEW b \in Seq(Item), NEW c, NoneFor(q, c), OneFor(b, c)
  PROVE  OneFor(q \o b, c)
<1>1. \A i \in DOMAIN (q \o b) :
        Decisive((q \o b)[i], c)
          => i - Len(q) \in DOMAIN b /\ Decisive(b[i - Len(q)], c)
  BY Joined DEF NoneFor
<1>2. \A i \in DOMAIN (q \o b) : i \in Nat
  BY Joined
<1> QED BY <1>1, <1>2 DEF OneFor

LEMMA PopOne ==
  ASSUME NEW q \in Seq(Item), q # <<>>, NEW c
  PROVE  /\ NoneFor(q, c) => NoneFor(Tail(q), c) /\ ~Decisive(Head(q), c)
         /\ OneFor(q, c) => OneFor(Tail(q), c)
         /\ OneFor(q, c) /\ Decisive(Head(q), c) => NoneFor(Tail(q), c)
<1>1. /\ 1 \in DOMAIN q /\ q[1] = Head(q)
      /\ \A i \in DOMAIN Tail(q) : i \in Nat \ {0} /\ i + 1 \in DOMAIN q /\ Tail(q)[i] = q[i + 1]
  BY Popped
<1> QED BY <1>1 DEF NoneFor, OneFor

LEMMA JoinAhoy ==
  ASSUME NEW q \in Seq(Item), NEW b \in Seq(Item), NoAhoy(q), NoAhoy(b)
  PROVE  NoAhoy(q \o b)
BY Joined DEF NoAhoy

LEMMA PopAhoy ==
  ASSUME NEW q \in Seq(Item), q # <<>>, NoAhoy(q)
  PROVE  NoAhoy(Tail(q)) /\ Head(q).cw # "AHY"
BY Popped DEF NoAhoy
(* What the bursts of tsc.py decide.                                       *)
LEMMA CallsAreNotNone == None \notin Calls
BY ChannelAssumption DEF Calls

LEMMA BurstsDecide ==
  ASSUME NEW c \in Calls, NEW d \in Calls
  PROVE  /\ NoneFor(<<>>, c) /\ NoAhoy(<<>>)
         /\ NoneFor(Rejected, c) /\ NoAhoy(Rejected)
         /\ OneFor(Unavailable(d), c) /\ NoAhoy(Unavailable(d))
         /\ d # c => NoneFor(Unavailable(d), c)
         /\ OneFor(Grant(d), c) /\ NoAhoy(Grant(d))
         /\ d # c => NoneFor(Grant(d), c)
         /\ OneFor(Ahoy(d), c)
         /\ d # c => NoneFor(Ahoy(d), c)
<1> USE CallsAreNotNone, ChannelAssumption
    DEF NoneFor, OneFor, NoAhoy, Decisive, Refers, Message
<1>1. NoneFor(<<>>, c) /\ NoAhoy(<<>>)
  OBVIOUS
<1>2. NoneFor(Rejected, c) /\ NoAhoy(Rejected)
  BY DEF Rejected
<1>3. /\ OneFor(Unavailable(d), c) /\ NoAhoy(Unavailable(d))
      /\ d # c => NoneFor(Unavailable(d), c)
  BY DEF Unavailable
<1>4. /\ OneFor(Grant(d), c) /\ NoAhoy(Grant(d))
      /\ d # c => NoneFor(Grant(d), c)
  <2>1. /\ DOMAIN Grant(d) = {1, 2} /\ Grant(d)[1].cw = "GTC" /\ Grant(d)[1].next = None
        /\ Grant(d)[2].cw = "GTC" /\ Grant(d)[1].data = d /\ Grant(d)[2].data = d
    BY DEF Grant
  <2>2. None # 2
    OBVIOUS
  <2> QED BY <2>1, <2>2
<1>5. OneFor(Ahoy(d), c) /\ (d # c => NoneFor(Ahoy(d), c))
  BY DEF Ahoy
<1> QED BY <1>1, <1>2, <1>3, <1>4, <1>5

-----------------------------------------------------------------------------
(* One outcome: each thing that happens to a call leaves it in one place.  *)

(* A window stays as it is, but for its time, or goes.                     *)
Less(w2, w) == w2 # None => w # None /\ w2.data = w.data

LEMMA OnceLess ==
  ASSUME NEW q, NEW s, NEW o, NEW k, NEW s2, NEW o2, NEW k2, NEW c \in Calls,
         Less(s2, s), Less(o2, o), k2 \in {k, None}, Once(q, s, o, k, c)
  PROVE  Once(q, s2, o2, k2, c)
<1>1. Refers(s2, c) => Refers(s, c)
  BY DEF Less, Refers
<1>2. Refers(o2, c) => Refers(o, c)
  BY DEF Less, Refers
<1>3. k2 = c => k = c
  BY CallsAreNotNone
<1> QED BY <1>1, <1>2, <1>3 DEF Once

(* The reply or the time-out turns the open window into an item.           *)
LEMMA OnceDecided ==
  ASSUME NEW q \in Seq(Item), NEW s, NEW o, NEW k, NEW c \in Calls,
         o # None, o.data \in Calls, NEW b \in Seq(Item),
         b \in {Unavailable(o.data), Grant(o.data)}, Once(q, s, o, k, c)
  PROVE  Once(q \o b, s, None, k, c)
<1>1. OneFor(b, c) /\ (o.data # c => NoneFor(b, c))
  BY BurstsDecide
<1>2. CASE o.data = c
  <2>1. Refers(o, c)
    BY <1>2 DEF Refers
  <2>2. NoneFor(q, c) /\ ~Refers(s, c) /\ k # c
    BY <2>1 DEF Once
  <2>3. OneFor(q \o b, c)
    BY <1>1, <2>2, JoinOne
  <2> QED BY <2>2, <2>3 DEF Once, Refers
<1>3. CASE o.data # c
  BY <1>1, <1>3, JoinNone DEF Once, Refers
<1> QED BY <1>2, <1>3

LEMMA OnceAppended ==
  ASSUME NEW q \in Seq(Item), NEW s, NEW o, NEW k, NEW c \in Calls,
         NEW b \in Seq(Item), NoneFor(b, c), Once(q, s, o, k, c)
  PROVE  Once(q \o b, s, o, k, c)
BY JoinNone DEF Once

(* The window of the message just sent opens.                              *)
Opened(s, o) == IF s = None THEN o ELSE s

LEMMA OnceOpens ==
  ASSUME NEW q, NEW s, NEW o, NEW k, NEW c \in Calls, Once(q, s, o, k, c)
  PROVE  Once(q, None, Opened(s, o), k, c)
BY DEF Once, Opened, Refers

(* The first item goes on the air.                                         *)
WindowOf(item) == IF item.rxlen > 0 THEN NewWindow(item) ELSE None

CarriedBy(item, k) ==
  IF item.next = 2 THEN item.data ELSE IF item.next = 0 THEN None ELSE k

LEMMA SentRefers ==
  ASSUME NEW item \in OutcomeItem, NEW c \in Calls, NEW k
  PROVE  /\ Refers(WindowOf(item), c) => Decisive(item, c) /\ item.cw = "AHY"
         /\ CarriedBy(item, k) = c => k = c \/ (Decisive(item, c) /\ item.next = 2)
         /\ WindowOf(item) # None => item.cw = "AHY" /\ item.data \in Calls
         /\ WindowOf(item) # None => CarriedBy(item, k) = k
         /\ item.next = 2 => WindowOf(item) = None
<1> USE ChannelAssumption, CallsAreNotNone DEF OutcomeItem, CallItem, Item
<1>1. WindowOf(item) # None => item.rxlen > 0 /\ item.cw = "AHY" /\ item.data \in Calls /\ item.next = None
  BY DEF WindowOf
<1>2. item.rxlen > 0 => WindowOf(item).data = item.data
  BY DEF WindowOf, NewWindow
<1>3. item # None
  OBVIOUS
<1>4. item.next # 0 /\ None # 2 /\ None # 0
  OBVIOUS
<1> QED BY <1>1, <1>2, <1>3, <1>4 DEF Refers, Decisive, CarriedBy

LEMMA OncePops ==
  ASSUME NEW q \in Seq(OutcomeItem), q # <<>>, NEW o, NEW k, NEW c \in Calls,
         Once(q, None, o, k, c)
  PROVE  Once(Tail(q), WindowOf(Head(q)), o, CarriedBy(Head(q), k), c)
<1> DEFINE h == Head(q)
<1>1. q \in Seq(Item) /\ h \in OutcomeItem
  <2>1. OutcomeItem \subseteq Item
    BY DEF OutcomeItem, CallItem
  <2> QED BY <2>1, Popped
<1>2. /\ NoneFor(q, c) => NoneFor(Tail(q), c) /\ ~Decisive(h, c)
      /\ OneFor(Tail(q), c)
      /\ Decisive(h, c) => NoneFor(Tail(q), c)
  BY <1>1, PopOne DEF Once
<1> HIDE DEF h
<1>3. CASE Decisive(h, c)
  <2>1. ~Refers(o, c) /\ k # c
    BY <1>2, <1>3 DEF Once, h
  <2>2. CarriedBy(h, k) = c => WindowOf(h) = None
    BY <1>1, <2>1, SentRefers
  <2> QED BY <1>2, <1>3, <2>1, <2>2 DEF Once, Refers, h
<1>4. CASE ~Decisive(h, c)
  <2>1. ~Refers(WindowOf(h), c) /\ (CarriedBy(h, k) = c => k = c)
    BY <1>1, <1>4, SentRefers
  <2> QED BY <1>2, <2>1 DEF Once, h
<1> QED BY <1>3, <1>4

-----------------------------------------------------------------------------
(* The order of the current call and those given up                        *)

LEMMA LatestLess ==
  ASSUME NEW q, NEW s, NEW o, NEW k, NEW s2, NEW o2, NEW k2, NEW c \in Calls,
         Less(s2, s), Less(o2, o), k2 \in {k, None}, Latest(q, s, o, k, c)
  PROVE  Latest(q, s2, o2, k2, c)
<1>1. (Refers(s2, c) => Refers(s, c)) /\ (s = None => s2 = None)
  BY DEF Less, Refers
<1>2. (Refers(o2, c) => Refers(o, c)) /\ (o = None => o2 = None)
  BY DEF Less, Refers
<1>3. k2 = c => k = c
  BY CallsAreNotNone
<1> QED BY <1>1, <1>2, <1>3 DEF Latest

(* A burst without ahoys and outcomes changes nothing, wherever it stands. *)
LEMMA LatestAppended ==
  ASSUME NEW q \in Seq(Item), NEW s, NEW o, NEW k, NEW c \in Calls,
         NEW b \in Seq(Item), \A d \in Calls : NoneFor(b, d), NoAhoy(b),
         Latest(q, s, o, k, c)
  PROVE  Latest(q \o b, s, o, k, c)
<1>1. \A i \in DOMAIN (q \o b) :
        \/ i \in DOMAIN q /\ (q \o b)[i] = q[i]
        \/ (q \o b)[i].cw # "AHY" /\ \A d \in Calls : ~Decisive((q \o b)[i], d)
  BY Joined DEF NoneFor, NoAhoy
<1>2. NoAhoy(q) => NoAhoy(q \o b)
  BY <1>1 DEF NoAhoy
<1>3. \A d \in Calls : NoneFor(q, d) => NoneFor(q \o b, d)
  BY <1>1 DEF NoneFor
<1> QED BY <1>1, <1>2, <1>3 DEF Latest

LEMMA LatestDecided ==
  ASSUME NEW q \in Seq(Item), NEW s, NEW o, NEW k, NEW c \in Calls,
         o # None, o.data \in Calls, NEW b \in Seq(Item),
         b \in {Unavailable(o.data), Grant(o.data)},
         Once(q, s, o, k, c), Latest(q, s, o, k, c)
  PROVE  Latest(q \o b, s, None, k, c)
<1>1. NoAhoy(b)
  BY BurstsDecide
<1>2. \A i \in DOMAIN (q \o b) : i \in Nat
  BY Joined
<1>3. \A i \in DOMAIN (q \o b) :
        \/ i \in DOMAIN q /\ i <= Len(q) /\ (q \o b)[i] = q[i]
        \/ (q \o b)[i].cw # "AHY" /\ i > Len(q)
  BY <1>1, Joined DEF NoAhoy
<1>4. k # c
  BY DEF Latest
<1>5. NoAhoy(q) => NoAhoy(q \o b)
  BY <1>1, JoinAhoy
<1>6. CASE o.data = c
  <2>1. NoAhoy(q \o b) /\ s = None /\ NoneFor(q, c)
    BY <1>5, <1>6 DEF Latest, Once, Refers
  <2>2. \A i \in DOMAIN (q \o b) : Decisive((q \o b)[i], c) => i = Len(q) + Len(b)
    <3>1. \A n \in DOMAIN b : Decisive(b[n], c) => n = Len(b)
      <4> USE ChannelAssumption DEF Decisive, Refers, Message
      <4>1. Unavailable(o.data)[1].cw = "ACKV" /\ Len(Unavailable(o.data)) = 1
            /\ DOMAIN Unavailable(o.data) = {1}
        BY DEF Unavailable
      <4>2. /\ Len(Grant(o.data)) = 2 /\ DOMAIN Grant(o.data) = {1, 2}
            /\ Grant(o.data)[1].cw = "GTC" /\ Grant(o.data)[1].next = None
        BY DEF Grant
      <4>3. None # 2
        OBVIOUS
      <4> QED BY <4>1, <4>2, <4>3
    <3>2. \A i \in DOMAIN (q \o b) : Decisive((q \o b)[i], c) =>
             i - Len(q) \in DOMAIN b /\ Decisive(b[i - Len(q)], c)
      BY <2>1, Joined DEF NoneFor
    <3>3. Len(b) \in Nat /\ Len(q) \in Nat
      OBVIOUS
    <3>4. \A i \in DOMAIN (q \o b) : Decisive((q \o b)[i], c) => i - Len(q) = Len(b)
      BY <3>1, <3>2, Zenon
    <3>5. \A i \in DOMAIN (q \o b) : i - Len(q) = Len(b) => i = Len(q) + Len(b)
      BY <3>3, <1>2
    <3> QED BY <3>4, <3>5, Zenon
  <2>3. \A j \in DOMAIN (q \o b) : j <= Len(q) + Len(b)
    BY Joined
  <2> QED BY <1>4, <2>1, <2>2, <2>3 DEF Latest, Refers, NoAhoy
<1>7. CASE o.data # c
  <2>1. ~Refers(o, c) /\ NoneFor(b, c)
    BY <1>7, BurstsDecide DEF Refers
  <2>2. \A i \in DOMAIN (q \o b) :
          Decisive((q \o b)[i], c) => i \in DOMAIN q /\ (q \o b)[i] = q[i]
    BY <2>1, Joined DEF NoneFor
  <2>3. \A i \in DOMAIN q : Decisive(q[i], c) => q[i].cw = "AHY"
    BY DEF Latest
  <2> QED BY <1>3, <1>4, <1>5, <2>1, <2>2, <2>3 DEF Latest, Refers
<1> QED BY <1>6, <1>7

LEMMA LatestOpens ==
  ASSUME NEW q, NEW s, NEW o, NEW k, NEW c \in Calls, Latest(q, s, o, k, c)
  PROVE  Latest(q, None, Opened(s, o), k, c)
BY DEF Latest, Opened, Refers

LEMMA LatestPops ==
  ASSUME NEW q \in Seq(OutcomeItem), q # <<>>, NEW o, NEW k, NEW c \in Calls,
         Latest(q, None, o, k, c)
  PROVE  Latest(Tail(q), WindowOf(Head(q)), o, CarriedBy(Head(q), k), c)
<1> DEFINE h == Head(q)
           t == Tail(q)
           w == WindowOf(h)
           k2 == CarriedBy(h, k)
<1>1. /\ h \in OutcomeItem /\ 1 \in DOMAIN q /\ q[1] = h
      /\ \A i \in DOMAIN t : i \in Nat \ {0} /\ i + 1 \in DOMAIN q /\ t[i] = q[i + 1]
  BY Popped
<1>2. /\ Refers(w, c) => Decisive(h, c) /\ h.cw = "AHY"
      /\ k2 = c => k = c \/ (Decisive(h, c) /\ h.next = 2)
      /\ w # None => h.cw = "AHY" /\ h.data \in Calls
      /\ h.next = 2 => w = None
  BY <1>1, SentRefers
<1>3. /\ w # None => Decisive(h, h.data)
      /\ h.next = 2 => h.cw # "AHY"
  BY <1>1, <1>2, ChannelAssumption
  DEF OutcomeItem, CallItem, Decisive, Refers
<1> HIDE DEF h, t, w, k2
<1>4. /\ NoAhoy(q) => NoAhoy(t) /\ w = None
      /\ \A d \in Calls : NoneFor(q, d) => NoneFor(t, d)
  <2>1. NoAhoy(q) => NoAhoy(t) /\ h.cw # "AHY"
    BY <1>1 DEF NoAhoy
  <2>2. \A d \in Calls : NoneFor(q, d) => NoneFor(t, d)
    BY <1>1 DEF NoneFor
  <2> QED BY <1>2, <2>1, <2>2
<1>5. \A i, j \in DOMAIN t :
        Decisive(t[i], c) /\ t[i].cw = "AHY" /\ t[j].cw = "AHY" => j <= i
  <2> SUFFICES ASSUME NEW i \in DOMAIN t, NEW j \in DOMAIN t,
                      Decisive(t[i], c), t[i].cw = "AHY", t[j].cw = "AHY"
               PROVE  j <= i
    OBVIOUS
  <2>1. j + 1 <= i + 1
    BY <1>1 DEF Latest
  <2> QED BY <1>1, <2>1
<1>6. \A i \in DOMAIN t : Decisive(t[i], c) /\ t[i].cw # "AHY" =>
        /\ NoAhoy(t) /\ w = None /\ o = None
        /\ \A j \in DOMAIN t : \A d \in Calls : Decisive(t[j], d) => j <= i
  <2> SUFFICES ASSUME NEW i \in DOMAIN t, Decisive(t[i], c), t[i].cw # "AHY"
               PROVE  /\ NoAhoy(t) /\ w = None /\ o = None
                      /\ \A j \in DOMAIN t : \A d \in Calls : Decisive(t[j], d) => j <= i
    OBVIOUS
  <2>1. /\ i + 1 \in DOMAIN q /\ Decisive(q[i + 1], c) /\ q[i + 1].cw # "AHY"
    BY <1>1
  <2>2. /\ NoAhoy(q) /\ o = None
        /\ \A j \in DOMAIN q : \A d \in Calls : Decisive(q[j], d) => j <= i + 1
    BY <2>1 DEF Latest
  <2>3. ASSUME NEW j \in DOMAIN t, NEW d \in Calls, Decisive(t[j], d) PROVE j <= i
    <3>1. j + 1 <= i + 1
      BY <1>1, <2>2, <2>3
    <3> QED BY <1>1, <3>1
  <2> QED BY <1>4, <2>2, <2>3
<1>7. Refers(w, c) \/ Refers(o, c) => NoAhoy(t)
  <2>1. ASSUME Refers(w, c), NEW j \in DOMAIN t, t[j].cw = "AHY" PROVE FALSE
    <3>1. j + 1 <= 1
      BY <1>1, <1>2, <2>1 DEF Latest
    <3> QED BY <1>1, <3>1
  <2>2. Refers(w, c) => NoAhoy(t)
    BY <2>1 DEF NoAhoy
  <2>3. Refers(o, c) => NoAhoy(t)
    BY <1>4 DEF Latest
  <2> QED BY <2>2, <2>3
<1>8. Refers(o, c) => w = None
  BY <1>4 DEF Latest
<1>9. k2 = c => w = None /\ o = None /\ \A d \in Calls : NoneFor(t, d)
  <2>1. CASE k = c
    <3>1. o = None /\ \A d \in Calls : NoneFor(q, d)
      BY <2>1 DEF Latest
    <3>2. w = None
      BY <1>1, <1>2, <1>3, <3>1 DEF NoneFor
    <3> QED BY <1>4, <3>1, <3>2
  <2>2. CASE Decisive(h, c) /\ h.next = 2
    <3>1. o = None /\ \A j \in DOMAIN q : \A d \in Calls : Decisive(q[j], d) => j <= 1
      BY <1>1, <1>3, <2>2 DEF Latest
    <3>2. ASSUME NEW d \in Calls, NEW j \in DOMAIN t, Decisive(t[j], d) PROVE FALSE
      <4>1. j + 1 <= 1
        BY <1>1, <3>1, <3>2
      <4> QED BY <1>1, <4>1
    <3> QED BY <1>2, <2>2, <3>1, <3>2 DEF NoneFor
  <2> QED BY <1>2, <2>1, <2>2
<1>10. Latest(t, w, o, k2, c)
  BY <1>5, <1>6, <1>7, <1>8, <1>9 DEF Latest
<1> QED BY <1>10 DEF h, t, w, k2

(* A call that is created is the latest.                                   *)
LEMMA CreatedOnce ==
  ASSUME NEW q \in Seq(Item), NEW s, NEW o, NEW k, NEW c \in Calls, NEW d \in Calls,
         Ahoy(c) \in Seq(Item),
         ~HasPlace(q, s, o, k, c), Once(q, s, o, k, d)
  PROVE  Once(q \o Ahoy(c), s, o, k, d)
<1>1. OneFor(Ahoy(c), d) /\ (d # c => NoneFor(Ahoy(c), d))
  BY BurstsDecide
<1>2. CASE d # c
  BY <1>1, <1>2, OnceAppended
<1>3. CASE d = c
  <2>1. OneFor(q \o Ahoy(c), d)
    BY <1>1, <1>3, JoinOne DEF HasPlace
  <2> QED BY <1>3, <2>1 DEF Once, HasPlace
<1> QED BY <1>2, <1>3

LEMMA CreatedLatest ==
  ASSUME NEW q \in Seq(Item), NEW s, NEW o, NEW k, NEW c \in Calls,
         Ahoy(c) \in Seq(Item), ~HasPlace(q, s, o, k, c)
  PROVE  Latest(q \o Ahoy(c), s, o, k, c)
<1>1. Len(Ahoy(c)) = 1 /\ DOMAIN Ahoy(c) = {1} /\ Ahoy(c)[1].cw = "AHY"
  BY DEF Ahoy
<1>2. \A i \in DOMAIN (q \o Ahoy(c)) : Decisive((q \o Ahoy(c))[i], c) =>
        i = Len(q) + 1 /\ (q \o Ahoy(c))[i].cw = "AHY"
  <2> SUFFICES ASSUME NEW i \in DOMAIN (q \o Ahoy(c)), Decisive((q \o Ahoy(c))[i], c)
               PROVE  i = Len(q) + 1 /\ (q \o Ahoy(c))[i].cw = "AHY"
    OBVIOUS
  <2>1. i - Len(q) \in DOMAIN Ahoy(c) /\ (q \o Ahoy(c))[i] = Ahoy(c)[i - Len(q)]
    BY Joined DEF HasPlace, NoneFor
  <2>2. i \in Nat /\ Len(q) \in Nat
    BY Joined
  <2>3. i - Len(q) = 1
    BY <1>1, <2>1
  <2> QED BY <1>1, <2>1, <2>2, <2>3
<1>3. \A j \in DOMAIN (q \o Ahoy(c)) : j <= Len(q) + 1
  BY <1>1, Joined
<1> QED BY <1>2, <1>3 DEF Latest, HasPlace

-----------------------------------------------------------------------------
(* Outcomes come from somewhere: none of it gives a call a place that had  *)
(* none.                                                                   *)

LEMMA PlaceLess ==
  ASSUME NEW q, NEW s, NEW o, NEW k, NEW s2, NEW o2, NEW k2, NEW c \in Calls,
         Less(s2, s), Less(o2, o), k2 \in {k, None}, HasPlace(q, s2, o2, k2, c)
  PROVE  HasPlace(q, s, o, k, c)
BY CallsAreNotNone DEF HasPlace, Less, Refers

LEMMA PlaceAppended ==
  ASSUME NEW q \in Seq(Item), NEW s, NEW o, NEW k, NEW c \in Calls,
         NEW b \in Seq(Item), NoneFor(b, c), HasPlace(q \o b, s, o, k, c)
  PROVE  HasPlace(q, s, o, k, c)
BY JoinNone DEF HasPlace

LEMMA PlaceDecided ==
  ASSUME NEW q \in Seq(Item), NEW s, NEW o, NEW k, NEW c \in Calls,
         o # None, o.data \in Calls, NEW b \in Seq(Item),
         b \in {Unavailable(o.data), Grant(o.data)}, HasPlace(q \o b, s, None, k, c)
  PROVE  HasPlace(q, s, o, k, c)
<1>1. CASE o.data = c
  BY <1>1 DEF HasPlace, Refers
<1>2. CASE o.data # c
  <2>1. NoneFor(b, c)
    BY <1>2, BurstsDecide
  <2> QED BY <2>1, JoinNone DEF HasPlace, Refers
<1> QED BY <1>1, <1>2

LEMMA PlaceOpens ==
  ASSUME NEW q, NEW s, NEW o, NEW k, NEW c \in Calls,
         HasPlace(q, None, Opened(s, o), k, c)
  PROVE  HasPlace(q, s, o, k, c)
BY DEF HasPlace, Opened, Refers

LEMMA PlacePops ==
  ASSUME NEW q \in Seq(OutcomeItem), q # <<>>, NEW o, NEW k, NEW c \in Calls,
         HasPlace(Tail(q), WindowOf(Head(q)), o, CarriedBy(Head(q), k), c)
  PROVE  HasPlace(q, None, o, k, c)
<1>1. Head(q) \in OutcomeItem /\ 1 \in DOMAIN q /\ q[1] = Head(q)
  BY Popped
<1>2. Refers(WindowOf(Head(q)), c) => Decisive(Head(q), c)
  BY <1>1, SentRefers
<1>3. CarriedBy(Head(q), k) = c => k = c \/ Decisive(Head(q), c)
  BY <1>1, SentRefers
<1>4. NoneFor(q, c) => ~Decisive(Head(q), c)
  BY <1>1 DEF NoneFor
<1>5. NoneFor(q, c) => NoneFor(Tail(q), c)
  BY Popped DEF NoneFor
<1> QED BY <1>2, <1>3, <1>4, <1>5 DEF HasPlace

LEMMA CreatedPlace ==
  ASSUME NEW q \in Seq(Item), NEW s, NEW o, NEW k, NEW c \in Calls, NEW d \in Calls,
         Ahoy(c) \in Seq(Item), d # c, HasPlace(q \o Ahoy(c), s, o, k, d)
  PROVE  HasPlace(q, s, o, k, d)
BY BurstsDecide, PlaceAppended

-----------------------------------------------------------------------------
(* The steps of TSC in these terms.  A half slot lets time pass, opens the *)
(* window of the message just sent, and takes an item or none.             *)

LEMMA OutcomeBursts ==
  /\ Rejected \in Seq(OutcomeItem) /\ <<>> \in Seq(OutcomeItem)
  /\ ClearDown \in Seq(ClearItem) /\ <<>> \in Seq(ClearItem)
  /\ \A c \in Calls : /\ Ahoy(c) \in Seq(OutcomeItem)
                      /\ Unavailable(c) \in Seq(OutcomeItem)
                      /\ Grant(c) \in Seq(OutcomeItem)
<1> USE ChannelAssumption, TSCAssumption DEF Calls
<1>1. ASSUME NEW word \in {"ACKV", "GTC", "ACKX"}, NEW c \in Calls \cup {None},
             c \in Calls \/ word = "ACKX"
      PROVE  Message(word, c) \in OutcomeItem
  <2>1. Message(word, c) \in Item
    BY DEF Message, Item
  <2>2. /\ Message(word, c).rxlen = 0 /\ Message(word, c).next = None
        /\ Message(word, c).cw = word /\ word # "AHY" /\ (word = "ACKV" => c \in Calls)
        /\ Message(word, c).data = c
    BY <1>1 DEF Message
  <2>3. None # 2 /\ None # 0
    OBVIOUS
  <2> QED BY <2>1, <2>2, <2>3 DEF OutcomeItem, CallItem
<1>2. Rejected \in Seq(OutcomeItem)
  BY <1>1 DEF Rejected
<1>3. ASSUME NEW c \in Calls
      PROVE  /\ Ahoy(c) \in Seq(OutcomeItem)
             /\ Unavailable(c) \in Seq(OutcomeItem)
             /\ Grant(c) \in Seq(OutcomeItem)
  <2>1. [cw |-> "AHY", next |-> None, rxlen |-> 1, data |-> c] \in OutcomeItem
    <3>1. [cw |-> "AHY", next |-> None, rxlen |-> 1, data |-> c] \in Item
      BY DEF Item
    <3>2. None # 2 /\ None # 0
      OBVIOUS
    <3> QED BY <3>1, <3>2 DEF OutcomeItem, CallItem
  <2>2. [cw |-> "GTC", next |-> 2, rxlen |-> 0, data |-> c] \in OutcomeItem
    BY DEF OutcomeItem, CallItem, Item
  <2>3. Message("ACKV", c) \in OutcomeItem /\ Message("GTC", c) \in OutcomeItem
    BY <1>1
  <2>4. ASSUME NEW a \in OutcomeItem, NEW b \in OutcomeItem
        PROVE  <<a>> \in Seq(OutcomeItem) /\ <<a, b>> \in Seq(OutcomeItem)
    OBVIOUS
  <2> QED BY <2>1, <2>2, <2>3, <2>4 DEF Ahoy, Unavailable, Grant
<1>4. ClearDown \in Seq(ClearItem)
  <2>1. Clear \in ClearItem
    <3>1. Clear \in Item
      BY DEF Clear, Message, Item
    <3>2. None # 2
      OBVIOUS
    <3> QED BY <3>1, <3>2 DEF Clear, Message, ClearItem, TrafficItem, CallItem
  <2>2. LastClear \in ClearItem
    BY DEF LastClear, ClearItem, TrafficItem, CallItem, Item
  <2> QED BY <2>1, <2>2 DEF ClearDown
<1>5. <<>> \in Seq(OutcomeItem) /\ <<>> \in Seq(ClearItem)
  OBVIOUS
<1> QED BY <1>2, <1>3, <1>4, <1>5

(* What becomes of the open window o, and what is queued for it.           *)
Settled(b, o, o2) ==
  \/ /\ o # None /\ o.data \in Calls /\ o2 = None
     /\ b \in {Unavailable(o.data), Grant(o.data)}
  \/ b = <<>> /\ Less(o2, o)

LEMMA OutcomeItems == OutcomeItem \subseteq Item /\ Seq(OutcomeItem) \subseteq Seq(Item)
<1>1. OutcomeItem \subseteq Item
  BY DEF OutcomeItem, CallItem
<1> QED BY <1>1

LEMMA SettledKeeps ==
  ASSUME NEW q \in Seq(OutcomeItem), NEW s, NEW o, NEW o2, NEW k, NEW c \in Calls,
         NEW b \in Seq(OutcomeItem), Settled(b, o, o2)
  PROVE  /\ Once(q, s, o, k, c) => Once(q \o b, s, o2, k, c)
         /\ Once(q, s, o, k, c) /\ Latest(q, s, o, k, c) => Latest(q \o b, s, o2, k, c)
         /\ HasPlace(q \o b, s, o2, k, c) => HasPlace(q, s, o, k, c)
<1>1. q \in Seq(Item) /\ b \in Seq(Item)
  BY OutcomeItems
<1>2. CASE b = <<>> /\ Less(o2, o)
  <2>1. q \o b = q /\ Less(s, s)
    BY <1>2 DEF Less
  <2> QED BY <1>2, <2>1, OnceLess, LatestLess, PlaceLess
<1>3. CASE ~(b = <<>> /\ Less(o2, o))
  <2>1. /\ o # None /\ o.data \in Calls /\ o2 = None
        /\ b \in {Unavailable(o.data), Grant(o.data)}
    BY <1>3 DEF Settled
  <2> QED BY <1>1, <2>1, OnceDecided, LatestDecided, PlaceDecided
<1> QED BY <1>2, <1>3

LEMMA TickSettles ==
  ASSUME TSCInv
  PROVE  Settled(TimedOut, rxcomplete, Ticked) /\ TimedOut \in Seq(OutcomeItem)
<1>1. rxcomplete # None => rxcomplete \in Window /\ rxcomplete.data \in Calls
  BY DEF TSCInv, ChannelInv, TypeOK, WindowsHaveCalls
<1>2. CASE Expires
  BY <1>1, <1>2, OutcomeBursts DEF Expires, TimedOut, Ticked, Settled
<1>3. CASE ~Expires
  <2>1. Less(Ticked, rxcomplete)
    BY <1>1, <1>3 DEF Less, Ticked, Expires, Window
  <2> QED BY <1>3, <2>1, OutcomeBursts DEF TimedOut, Settled
<1> QED BY <1>2, <1>3

LEMMA AnswerSettles ==
  ASSUME TSCInv, NEW cw \in RxWords, Reply(cw)
  PROVE  \E b \in Seq(OutcomeItem) :
           /\ Settled(b, rxcomplete, rxcomplete')
           /\ txqueue' = txqueue \o b
<1>1. /\ rxcomplete # None /\ rxcomplete \in Window /\ rxcomplete.data \in Calls
      /\ txqueue \in Seq(CallItem)
  BY DEF Reply, TSCInv, ChannelInv, TypeOK, WindowsHaveCalls
<1>2. CASE RxRaises(cw)
  <2>1. Less(rxcomplete', rxcomplete) /\ UNCHANGED txqueue
    BY <1>1, <1>2 DEF RxRaises, Replied, Less, Window, queues
  <2>2. txqueue' = txqueue \o <<>>
    BY <1>1, <2>1
  <2> QED BY <2>1, <2>2, OutcomeBursts DEF Settled
<1>3. ASSUME NEW first, RxLast(Answered(first))
      PROVE  \E b \in Seq(OutcomeItem) :
               Settled(b, rxcomplete, rxcomplete') /\ txqueue' = txqueue \o b
  <2>1. Answered(first) \in {<<>>, Grant(rxcomplete.data)}
    BY DEF Answered
  <2>2. rxcomplete' = None /\ txqueue' = txqueue \o Answered(first)
    BY <1>3 DEF RxLast
  <2>3. Settled(Answered(first), rxcomplete, rxcomplete')
    BY <1>1, <2>1, <2>2 DEF Settled, Less
  <2> QED BY <1>1, <2>1, <2>2, <2>3, OutcomeBursts
<1> QED BY <1>2, <1>3 DEF Reply

HalfQueue == txqueue \o TimedOut

(* Nothing is taken; a word of the traffic channel is; an item is.         *)
TakesNone ==
  /\ txqueue' = HalfQueue /\ txreserveditem' = None /\ carried' = carried
  /\ UNCHANGED txtrafqueue
  /\ lastcw' \notin {"AHY", "ACKV"}
  /\ StateNow' \in {2, 3} <=> StateNow \in {2, 3}
  /\ pc' = "morse" => StateNow = 0

TakesClear ==
  /\ txtrafqueue # <<>> /\ txtrafqueue' = Tail(txtrafqueue)
  /\ txqueue' = HalfQueue /\ txreserveditem' = None
  /\ lastcw' = Head(txtrafqueue).cw
  /\ carried' = IF Head(txtrafqueue).next = 0 THEN None ELSE carried
  /\ StateNow = 3 /\ StateNow' = IF Head(txtrafqueue).next = 0 THEN 0 ELSE 2
  /\ pc' # "morse"

TakesItem ==
  /\ HalfQueue # <<>> /\ txqueue' = Tail(HalfQueue)
  /\ txreserveditem' = WindowOf(Head(HalfQueue))
  /\ lastcw' = Head(HalfQueue).cw
  /\ carried' = CarriedBy(Head(HalfQueue), carried)
  /\ UNCHANGED txtrafqueue
  /\ StateNow = 1 /\ StateNow' = IF Head(HalfQueue).next = 2 THEN 2 ELSE 0
  /\ pc' # "morse"

LEMMA HalfSlotTakes ==
  ASSUME TSCInv, Queued, HalfSlot
  PROVE  /\ HalfQueue \in Seq(OutcomeItem)
         /\ rxcomplete' = Opened(txreserveditem, Ticked)
         /\ TakesNone \/ TakesClear \/ TakesItem
<1> USE ChannelAssumption
<1>0. None # 0 /\ None # 2
  OBVIOUS
<1>1. HalfQueue \in Seq(OutcomeItem)
  BY TickSettles DEF Queued, HalfQueue
<1>2. TxCv(TimedOut) /\ Carry
  BY DEF HalfSlot
<1>3. rxcomplete' = Opened(txreserveditem, Ticked)
  <2>1. \E state : Begin(state, TimedOut)
    BY <1>2 DEF TxCv, TxSync, TxMorse, TxWithdrawn, TxQueued, TxAloha,
       TxTrafficIdle, TxTrafficSync, TxTrafficWord, TxIdent
  <2> QED BY <2>1 DEF Begin, Opened
<1>4. CASE TxQueued(TimedOut)
  <2>1. /\ HalfQueue # <<>> /\ Send(Head(HalfQueue)) /\ txqueue' = Tail(HalfQueue)
        /\ UNCHANGED txtrafqueue /\ StateNow = 1
        /\ txstate' = 0 /\ pc' # "morse"
    BY <1>4 DEF TxQueued, HalfQueue, Begin, identvars
  <2>2. /\ txcomplete' = Head(HalfQueue).next /\ txreserveditem' = WindowOf(Head(HalfQueue))
        /\ lastcw' = Head(HalfQueue).cw
    BY <2>1 DEF Send, WindowOf
  <2>3. carried' = CarriedBy(Head(HalfQueue), carried)
    <3> DEFINE h == Head(HalfQueue)
    <3>1. carried' = CASE h.next = 2 -> h.data
                       [] h.next = 0 -> None
                       [] OTHER -> carried
      BY <1>2, <2>2, Zenon DEF Carry, HalfQueue
    <3> HIDE DEF h
    <3>2. carried' = CarriedBy(h, carried)
      BY <3>1 DEF CarriedBy
    <3> QED BY <3>2 DEF h
  <2>4. Head(HalfQueue) \in OutcomeItem
    BY <1>1, <2>1, Popped
  <2>5. Head(HalfQueue).next \in {None, 2}
    BY <2>4 DEF OutcomeItem, CallItem, Item
  <2>6. StateNow' = IF Head(HalfQueue).next = 2 THEN 2 ELSE 0
    BY <1>0, <2>1, <2>2, <2>5 DEF StateNow
  <2> QED BY <1>1, <1>3, <2>1, <2>2, <2>3, <2>6 DEF TakesItem
<1>5. CASE TxTrafficWord(TimedOut)
  <2>1. /\ txtrafqueue # <<>> /\ Send(Head(txtrafqueue)) /\ txtrafqueue' = Tail(txtrafqueue)
        /\ txqueue' = HalfQueue /\ StateNow = 3
        /\ txstate' = 2 /\ pc' # "morse"
    BY <1>5 DEF TxTrafficWord, HalfQueue, Begin, identvars
  <2>2. Head(txtrafqueue) \in ClearItem
    BY <2>1 DEF Queued
  <2>3. /\ txcomplete' = Head(txtrafqueue).next /\ txcomplete' # 2 /\ txreserveditem' = None
        /\ lastcw' = Head(txtrafqueue).cw
    BY <2>1, <2>2 DEF Send, ClearItem, TrafficItem
  <2>4. carried' = IF Head(txtrafqueue).next = 0 THEN None ELSE carried
    BY <1>2, <2>3 DEF Carry
  <2>5. Head(txtrafqueue).next \in {None, 0}
    BY <2>2, <2>3 DEF ClearItem, TrafficItem, CallItem, Item
  <2>6. StateNow' = IF Head(txtrafqueue).next = 0 THEN 0 ELSE 2
    BY <1>0, <2>1, <2>3, <2>5 DEF StateNow
  <2> QED BY <1>1, <1>3, <2>1, <2>3, <2>4, <2>6 DEF TakesClear
<1>6. CASE ~TxQueued(TimedOut) /\ ~TxTrafficWord(TimedOut)
  <2>1. NoReservation /\ UNCHANGED txtrafqueue /\ txqueue' = HalfQueue
    <3>1. CASE TxAloha(TimedOut)
      <4>1. HalfQueue = <<>> /\ UNCHANGED txqueue
        BY <3>1 DEF TxAloha, HalfQueue, queues
      <4>2. Len(txqueue) + Len(TimedOut) = 0 /\ Len(txqueue) \in Nat /\ Len(TimedOut) \in Nat
        BY <4>1, TickSettles DEF HalfQueue, Queued
      <4>3. txqueue = <<>>
        BY <4>2 DEF Queued
      <4> QED BY <3>1, <4>1, <4>3 DEF TxAloha, queues
    <3>2. CASE ~TxAloha(TimedOut)
      BY <1>2, <1>6, <3>2 DEF TxCv, TxSync, TxMorse, TxWithdrawn,
         TxTrafficIdle, TxTrafficSync, TxIdent, HalfQueue
    <3> QED BY <3>1, <3>2
  <2>2. txcomplete' = None /\ txreserveditem' = None
    BY <2>1 DEF NoReservation
  <2>3. carried' = carried
    <3>1. None # 2 /\ None # 0
      OBVIOUS
    <3> QED BY <1>2, <2>2, <3>1 DEF Carry
  <2>4. /\ txstate' \in {2, 3} <=> StateNow \in {2, 3}
        /\ pc' = "morse" => StateNow = 0
    BY <1>2, <1>6 DEF TxCv, TxSync, TxMorse, TxWithdrawn, TxAloha,
       TxTrafficIdle, TxTrafficSync, TxIdent, Begin, identvars
  <2>5. StateNow' = txstate'
    BY <2>2 DEF StateNow
  <2>6. lastcw' \notin {"AHY", "ACKV"}
    <3>1. lastcw' \in OwnWords \cup {None}
      BY <1>2, <1>6 DEF TxCv, TxSync, TxMorse, TxWithdrawn, TxAloha,
         TxTrafficIdle, TxTrafficSync, TxIdent, OwnWords
    <3> QED BY <3>1, TSCAssumption DEF OwnWords
  <2> QED BY <1>1, <1>3, <2>1, <2>2, <2>3, <2>4, <2>5, <2>6 DEF TakesNone
<1> QED BY <1>4, <1>5, <1>6

LEMMA HalfSlotKeeps ==
  ASSUME TSCInv, Queued, HalfSlot, NEW c \in Calls
  PROVE  LET once == Once(txqueue, txreserveditem, rxcomplete, carried, c)
             latest == Latest(txqueue, txreserveditem, rxcomplete, carried, c)
             place == HasPlace(txqueue, txreserveditem, rxcomplete, carried, c)
         IN  /\ once => once'
             /\ once /\ latest => latest'
             /\ place' => place
             /\ once /\ carried = c /\ TakesClear /\ carried' = None => ~place'
<1> DEFINE o == Opened(txreserveditem, Ticked)
<1>1. /\ HalfQueue \in Seq(OutcomeItem) /\ rxcomplete' = o
      /\ TakesNone \/ TakesClear \/ TakesItem
  BY HalfSlotTakes
<1>2. LET s == txreserveditem k == carried IN
      /\ Once(txqueue, s, rxcomplete, k, c) => Once(HalfQueue, s, Ticked, k, c)
      /\ Once(txqueue, s, rxcomplete, k, c) /\ Latest(txqueue, s, rxcomplete, k, c)
           => Latest(HalfQueue, s, Ticked, k, c)
      /\ HasPlace(HalfQueue, s, Ticked, k, c) => HasPlace(txqueue, s, rxcomplete, k, c)
  BY TickSettles, SettledKeeps DEF HalfQueue, Queued
<1>3. LET s == txreserveditem k == carried IN
      /\ Once(txqueue, s, rxcomplete, k, c) => Once(HalfQueue, None, o, k, c)
      /\ Once(txqueue, s, rxcomplete, k, c) /\ Latest(txqueue, s, rxcomplete, k, c)
           => Latest(HalfQueue, None, o, k, c)
      /\ HasPlace(HalfQueue, None, o, k, c) => HasPlace(txqueue, s, rxcomplete, k, c)
  BY <1>2, OnceOpens, LatestOpens, PlaceOpens
<1> HIDE DEF o
<1>4. CASE TakesItem
  <2>1. HalfQueue # <<>> /\ txqueue' = Tail(HalfQueue)
        /\ txreserveditem' = WindowOf(Head(HalfQueue))
        /\ carried' = CarriedBy(Head(HalfQueue), carried)
    BY <1>4 DEF TakesItem
  <2>2. ~TakesClear
    BY <1>4 DEF TakesItem, TakesClear
  <2> QED BY <1>1, <1>3, <2>1, <2>2, OncePops, LatestPops, PlacePops
<1>5. CASE TakesNone \/ TakesClear
  <2>1. /\ txqueue' = HalfQueue /\ txreserveditem' = None
        /\ carried' \in {carried, None}
    BY <1>5 DEF TakesNone, TakesClear
  <2>2. Less(None, None) /\ Less(o, o)
    BY DEF Less
  <2>3. /\ Once(HalfQueue, None, o, carried, c) => Once(HalfQueue, None, o, carried', c)
        /\ Latest(HalfQueue, None, o, carried, c) => Latest(HalfQueue, None, o, carried', c)
        /\ HasPlace(HalfQueue, None, o, carried', c) => HasPlace(HalfQueue, None, o, carried, c)
    BY <2>1, <2>2, OnceLess, LatestLess, PlaceLess
  <2>4. Once(HalfQueue, None, o, c, c) => ~HasPlace(HalfQueue, None, o, None, c)
    BY CallsAreNotNone DEF Once, HasPlace, Refers
  <2> QED BY <1>1, <1>3, <2>1, <2>3, <2>4
<1> QED BY <1>1, <1>4, <1>5

-----------------------------------------------------------------------------
(* The steps of TSC, one conjunct of the invariant at a time               *)

LEMMA AccessQueues ==
  ASSUME Queued, NEW b \in Seq(OutcomeItem), NEW t \in Seq(ClearItem),
         RandomAccess(b, t)
  PROVE  /\ Queued' /\ txqueue' = txqueue \o b /\ txtrafqueue' = txtrafqueue \o t
         /\ UNCHANGED <<txvars, rxvars, identvars>>
BY DEF RandomAccess, Submit, Queued

LEMMA QueuedStep == TSCInv /\ Queued /\ [TSCNext]_allvars => Queued'
<1> SUFFICES ASSUME TSCInv, Queued, [TSCNext]_allvars PROVE Queued'
  OBVIOUS
<1>1. CASE HalfSlot
  <2>1. HalfQueue \in Seq(OutcomeItem) /\ (TakesNone \/ TakesClear \/ TakesItem)
    BY <1>1, HalfSlotTakes
  <2>2. txqueue' \in Seq(OutcomeItem)
    BY <2>1, Popped DEF TakesNone, TakesClear, TakesItem
  <2>3. txtrafqueue' \in Seq(ClearItem)
    <3>1. txtrafqueue \in Seq(ClearItem)
      BY DEF Queued
    <3>2. CASE TakesClear
      BY <3>1, <3>2, Popped DEF TakesClear
    <3>3. CASE UNCHANGED txtrafqueue
      BY <3>1, <3>3
    <3> QED BY <2>1, <3>2, <3>3 DEF TakesNone, TakesItem
  <2> QED BY <2>2, <2>3 DEF Queued
<1>2. ASSUME NEW cw \in RxWords, Reply(cw) PROVE Queued'
  <2>1. txqueue' \in Seq(OutcomeItem)
    BY <1>2, AnswerSettles, Joined DEF Queued
  <2>2. UNCHANGED txtrafqueue
    BY <1>2 DEF Reply, RxRaises, RxLast, queues
  <2> QED BY <2>1, <2>2 DEF Queued
<1>3. CASE MorseTaken \/ IdentSent \/ Operator \/ UNCHANGED allvars
  BY <1>3 DEF MorseTaken, IdentSent, Operator, TxMorseClear, MorseDone, SetMorse,
     allvars, chvars, queues, Queued
<1>4. ASSUME NEW b \in Seq(OutcomeItem), NEW t \in Seq(ClearItem), RandomAccess(b, t)
      PROVE  Queued'
  BY <1>4, AccessQueues
<1> QED
  BY <1>1, <1>2, <1>3, <1>4, OutcomeBursts
  DEF TSCNext, Transmitter, CreateCall, Busy, Refuse, Ignore, Presel, Disconnect

LEMMA CarryingStep == TSCInv /\ Queued /\ Carrying /\ [TSCNext]_allvars => Carrying'
<1> SUFFICES ASSUME TSCInv, Queued, Carrying, [TSCNext]_allvars PROVE Carrying'
  OBVIOUS
<1>1. CASE HalfSlot
  <2>1. HalfQueue \in Seq(OutcomeItem) /\ (TakesNone \/ TakesClear \/ TakesItem)
    BY <1>1, HalfSlotTakes
  <2>2. TakesItem => Head(HalfQueue).next # 0
                     /\ (Head(HalfQueue).next = 2 => Head(HalfQueue).data # None)
    BY <2>1, Popped, CallsAreNotNone DEF TakesItem, OutcomeItem
  <2>3. CASE TakesItem
    BY <2>2, <2>3 DEF TakesItem, CarriedBy, Carrying
  <2>4. CASE TakesClear
    BY <2>4 DEF TakesClear, Carrying
  <2>5. CASE TakesNone
    BY <2>5 DEF TakesNone, Carrying
  <2> QED BY <2>1, <2>3, <2>4, <2>5
<1>2. CASE MorseTaken
  <2>1. txcomplete = None /\ UNCHANGED txcomplete /\ txstate' = 4 /\ pc' = "idle"
    BY <1>2 DEF MorseTaken, TxMorseClear, TSCInv, ChannelInv, Aligned
  <2> QED BY <1>2, <2>1 DEF MorseTaken, TxMorseClear, tscvars, Carrying, StateNow
<1>3. CASE IdentSent
  <2>1. /\ txcomplete = None /\ UNCHANGED txcomplete /\ txstate = 4 /\ txstate' = 0
        /\ pc = "idle" /\ UNCHANGED pc
    <3>1. ident # None /\ pc = "idle" /\ txstate' = 0 /\ UNCHANGED <<pc, txcomplete>>
      BY <1>3 DEF IdentSent, MorseDone
    <3>2. txstate = 4
      BY <3>1 DEF TSCInv, ChannelInv, IdentExclusive
    <3> QED BY <3>1, <3>2 DEF TSCInv, ChannelInv, Aligned
  <2> QED BY <1>3, <2>1 DEF IdentSent, tscvars, Carrying, StateNow
<1>4. CASE UNCHANGED <<txcomplete, txstate, pc, carried>>
  BY <1>4 DEF Carrying, StateNow
<1>5. ASSUME NEW cw \in RxWords, Reply(cw) PROVE Carrying'
  BY <1>4, <1>5 DEF Reply, RxRaises, RxLast, txvars, identvars, tscvars
<1>6. ASSUME NEW b, NEW t, RandomAccess(b, t), UNCHANGED carried PROVE Carrying'
  BY <1>4, <1>6 DEF RandomAccess, Submit, txvars, identvars
<1>7. CASE Operator \/ UNCHANGED allvars
  BY <1>4, <1>7 DEF Operator, SetMorse, allvars, chvars, txvars, identvars, tscvars
<1> QED
  BY <1>1, <1>2, <1>3, <1>5, <1>6, <1>7
  DEF TSCNext, Transmitter, CreateCall, Busy, Refuse, Ignore, Presel, Disconnect, tscvars

LEMMA RungStep == TSCInv /\ Queued /\ Rung /\ [TSCNext]_allvars => Rung'
<1> SUFFICES ASSUME TSCInv, Queued, Rung, [TSCNext]_allvars PROVE Rung'
  OBVIOUS
<1>1. CASE HalfSlot
  <2>1. HalfQueue \in Seq(OutcomeItem) /\ (TakesNone \/ TakesClear \/ TakesItem)
    BY <1>1, HalfSlotTakes
  <2>2. TakesItem /\ WindowOf(Head(HalfQueue)) # None => Head(HalfQueue).cw = "AHY"
    BY <2>1, Popped DEF TakesItem, OutcomeItem, WindowOf
  <2> QED BY <2>1, <2>2 DEF TakesNone, TakesClear, TakesItem, Rung
<1>2. CASE UNCHANGED <<txreserveditem, lastcw>>
  BY <1>2 DEF Rung
<1>3. ~HalfSlot => UNCHANGED <<txreserveditem, lastcw>>
  BY DEF TSCNext, Transmitter, MorseTaken, IdentSent, Reply, CreateCall, Busy, Refuse,
     Ignore, Presel, Disconnect, Operator, RandomAccess, Submit, TxMorseClear, MorseDone,
     RxRaises, RxLast, SetMorse, allvars, chvars, txvars
<1> QED BY <1>1, <1>2, <1>3

(* Random access that queues no more than a reject decides nothing.        *)
LEMMA QuietAccess ==
  ASSUME TSCInv, Queued, NEW b \in {Rejected, <<>>}, NEW t \in Seq(ClearItem),
         RandomAccess(b, t), UNCHANGED carried, NEW c \in Calls
  PROVE  LET once == Once(txqueue, txreserveditem, rxcomplete, carried, c)
             latest == Latest(txqueue, txreserveditem, rxcomplete, carried, c)
             place == HasPlace(txqueue, txreserveditem, rxcomplete, carried, c)
         IN  (once => once') /\ (latest => latest') /\ (place' => place)
<1>1. b \in Seq(OutcomeItem) /\ b \in Seq(Item) /\ txqueue \in Seq(Item)
  BY OutcomeBursts, OutcomeItems DEF Queued
<1>2. txqueue' = txqueue \o b /\ UNCHANGED <<txreserveditem, rxcomplete>>
  BY <1>1, AccessQueues DEF txvars, rxvars
<1>3. NoAhoy(b) /\ \A d \in Calls : NoneFor(b, d)
  BY BurstsDecide
<1> QED BY <1>1, <1>2, <1>3, OnceAppended, LatestAppended, PlaceAppended

(* A call that is created had no place, and gets one behind all others.    *)
LEMMA CreateCallKeeps ==
  ASSUME TSCInv, Queued, NEW c \in Calls, CreateCall(c)
  PROVE  LET once(d) == Once(txqueue, txreserveditem, rxcomplete, carried, d)
             place(d) == HasPlace(txqueue, txreserveditem, rxcomplete, carried, d)
         IN  /\ \A d \in Calls : once(d) => once(d)'
             /\ \A d \in Calls \ {c} : place(d)' => place(d)
             /\ Latest(txqueue, txreserveditem, rxcomplete, carried, c)'
<1>1. Ahoy(c) \in Seq(OutcomeItem) /\ Ahoy(c) \in Seq(Item) /\ txqueue \in Seq(Item)
  BY OutcomeBursts, OutcomeItems DEF Queued
<1>2. /\ txqueue' = txqueue \o Ahoy(c)
      /\ UNCHANGED <<txreserveditem, rxcomplete, carried>>
  BY <1>1, AccessQueues, OutcomeBursts DEF CreateCall, txvars, rxvars
<1>3. ~HasPlace(txqueue, txreserveditem, rxcomplete, carried, c)
  BY DEF CreateCall, Unused, HasPlace, NoneFor, Decisive
<1> QED BY <1>1, <1>2, <1>3, CreatedOnce, CreatedLatest, CreatedPlace

LEMMA ReplyKeeps ==
  ASSUME TSCInv, Queued, NEW cw \in RxWords, Reply(cw), NEW c \in Calls
  PROVE  LET once == Once(txqueue, txreserveditem, rxcomplete, carried, c)
             latest == Latest(txqueue, txreserveditem, rxcomplete, carried, c)
             place == HasPlace(txqueue, txreserveditem, rxcomplete, carried, c)
         IN  (once => once') /\ (once /\ latest => latest') /\ (place' => place)
<1>1. PICK b \in Seq(OutcomeItem) :
        Settled(b, rxcomplete, rxcomplete') /\ txqueue' = txqueue \o b
  BY AnswerSettles
<1>2. UNCHANGED <<txreserveditem, carried>>
  BY DEF Reply, RxRaises, RxLast, txvars, tscvars
<1> QED BY <1>1, <1>2, SettledKeeps DEF Queued

(* Nothing else moves an outcome.                                          *)
LEMMA OutcomesStep ==
  TSCInv /\ Queued /\ Outcomes /\ [TSCNext]_allvars => Outcomes'
<1> SUFFICES ASSUME TSCInv, Queued, Outcomes, [TSCNext]_allvars, NEW c \in Calls
             PROVE  Once(txqueue, txreserveditem, rxcomplete, carried, c)'
  BY DEF Outcomes
<1> DEFINE once == Once(txqueue, txreserveditem, rxcomplete, carried, c)
<1>0. once
  BY DEF Outcomes
<1>1. HalfSlot => once'
  BY <1>0, HalfSlotKeeps
<1>2. ASSUME NEW cw \in RxWords, Reply(cw) PROVE once'
  BY <1>0, <1>2, ReplyKeeps
<1>3. ASSUME NEW d \in Calls, CreateCall(d) PROVE once'
  BY <1>0, <1>3, CreateCallKeeps
<1>4. ASSUME NEW b \in {Rejected, <<>>}, NEW t \in Seq(ClearItem), RandomAccess(b, t),
             UNCHANGED carried
      PROVE  once'
  BY <1>0, <1>4, QuietAccess
<1>5. Busy \/ Refuse \/ Ignore \/ Disconnect \/ (\E on \in BOOLEAN : Presel(on)) => once'
  BY <1>4, OutcomeBursts DEF Busy, Refuse, Ignore, Presel, Disconnect, tscvars
<1>6. MorseTaken \/ IdentSent \/ Operator \/ UNCHANGED allvars => once'
  <2>1. MorseTaken \/ IdentSent \/ Operator \/ UNCHANGED allvars
          => UNCHANGED <<txqueue, txreserveditem, rxcomplete, carried>>
    BY DEF MorseTaken, IdentSent, Operator, TxMorseClear, MorseDone, SetMorse,
       allvars, chvars, queues, txvars, rxvars, tscvars
  <2> QED BY <1>0, <2>1
<1> HIDE DEF once
<1>7. once'
  BY <1>1, <1>2, <1>3, <1>5, <1>6 DEF TSCNext, Transmitter
<1> QED BY <1>7 DEF once

LEMMA OrderStep ==
  TSCInv /\ Queued /\ Outcomes /\ Order /\ [TSCNext]_allvars => Order'
<1> SUFFICES ASSUME TSCInv, Queued, Outcomes, Order, [TSCNext]_allvars, call' # None
             PROVE  Latest(txqueue, txreserveditem, rxcomplete, carried, call)'
  BY DEF Order
<1> DEFINE latest == Latest(txqueue, txreserveditem, rxcomplete, carried, call)
<1>0. call \in Calls \cup {None}
  BY DEF TSCInv, GlobalsOK
<1>1. ASSUME UNCHANGED call
      PROVE  /\ call \in Calls /\ latest
             /\ Once(txqueue, txreserveditem, rxcomplete, carried, call)
  BY <1>0, <1>1 DEF Order, Outcomes
<1>2. ASSUME HalfSlot PROVE latest'
  <2>1. UNCHANGED call
    BY <1>2 DEF HalfSlot
  <2> QED BY <1>1, <1>2, <2>1, HalfSlotKeeps
<1>3. ASSUME NEW cw \in RxWords, Reply(cw) PROVE latest'
  <2>1. UNCHANGED call
    BY <1>3 DEF Reply, tscvars
  <2> QED BY <1>1, <1>3, <2>1, ReplyKeeps
<1>4. ASSUME NEW d \in Calls, CreateCall(d) PROVE latest'
  <2>1. call' = d
    BY <1>4 DEF CreateCall
  <2> QED BY <1>4, <2>1, CreateCallKeeps
<1>5. ASSUME NEW b \in {Rejected, <<>>}, NEW t \in Seq(ClearItem), RandomAccess(b, t),
             UNCHANGED <<carried, call>>
      PROVE  latest'
  <2>1. call \in Calls /\ latest /\ UNCHANGED call
    BY <1>1, <1>5
  <2>2. Latest(txqueue, txreserveditem, rxcomplete, carried, call)
          => Latest(txqueue', txreserveditem', rxcomplete', carried', call)
    BY <1>5, <2>1, QuietAccess
  <2> QED BY <2>1, <2>2
<1>6. Busy \/ Refuse \/ Ignore \/ (\E on \in BOOLEAN : Presel(on)) => latest'
  BY <1>5, OutcomeBursts DEF Busy, Refuse, Ignore, Presel, tscvars
<1>7. ~Disconnect
  BY DEF Disconnect
<1>8. MorseTaken \/ IdentSent \/ Operator \/ UNCHANGED allvars => latest'
  <2>1. MorseTaken \/ IdentSent \/ Operator \/ UNCHANGED allvars
          => UNCHANGED <<txqueue, txreserveditem, rxcomplete, carried, call>>
    BY DEF MorseTaken, IdentSent, Operator, TxMorseClear, MorseDone, SetMorse,
       allvars, chvars, queues, txvars, rxvars, tscvars
  <2> QED BY <1>1, <2>1
<1> HIDE DEF latest
<1>9. latest'
  BY <1>2, <1>3, <1>4, <1>6, <1>7, <1>8 DEF TSCNext, Transmitter
<1> QED BY <1>9 DEF latest

-----------------------------------------------------------------------------
(* Enough CLEARs                                                           *)

LEMMA FewerToCover ==
  ASSUME NEW S, NEW T, NEW S2, NEW T2, ExistsInjection(S, T), S2 \subseteq S, T \subseteq T2
  PROVE  ExistsInjection(S2, T2)
<1>1. PICK f \in Injection(S, T) : TRUE
  BY Fun_ExistsInj
<1>2. f \in [S -> T] /\ \A a, b \in S : f[a] = f[b] => a = b
  BY <1>1, Fun_InjectionProperties
<1>3. [x \in S2 |-> f[x]] \in Injection(S2, T2)
  <2>1. [x \in S2 |-> f[x]] \in [S2 -> T2]
    BY <1>2
  <2> QED BY <1>2, <2>1, Fun_IsInj
<1> QED BY <1>3, Fun_ExistsInj

LEMMA OneMoreCovered ==
  ASSUME NEW S, NEW T, NEW x, NEW y, ExistsInjection(S, T), y \notin T
  PROVE  ExistsInjection(S \cup {x}, T \cup {y})
<1>1. PICK f \in Injection(S, T) : TRUE
  BY Fun_ExistsInj
<1>2. f \in [S -> T] /\ \A a, b \in S : f[a] = f[b] => a = b
  BY <1>1, Fun_InjectionProperties
<1> DEFINE g == [z \in S \cup {x} |-> IF z \in S THEN f[z] ELSE y]
<1>3. g \in [S \cup {x} -> T \cup {y}]
  BY <1>2
<1>4. \A a, b \in S \cup {x} : g[a] = g[b] => a = b
  BY <1>2
<1>5. g \in Injection(S \cup {x}, T \cup {y})
  BY <1>3, <1>4, Fun_IsInj
<1> QED BY <1>5, Fun_ExistsInj

(* What one of S is mapped to can be given up with it, whichever it is.    *)
LEMMA OneLessCovered ==
  ASSUME NEW S, NEW T, NEW S2, NEW e \in S, NEW y, ExistsInjection(S, T),
         S2 \subseteq S \ {e}
  PROVE  ExistsInjection(S2, T \ {y})
<1>1. PICK f \in Injection(S, T) : TRUE
  BY Fun_ExistsInj
<1>2. f \in [S -> T] /\ \A a, b \in S : f[a] = f[b] => a = b
  BY <1>1, Fun_InjectionProperties
<1> DEFINE g == [z \in S2 |-> IF f[z] = y THEN f[e] ELSE f[z]]
<1>3. g \in [S2 -> T \ {y}]
  BY <1>2
<1>4. \A a, b \in S2 : g[a] = g[b] => a = b
  BY <1>2
<1>5. g \in Injection(S2, T \ {y})
  BY <1>3, <1>4, Fun_IsInj
<1> QED BY <1>5, Fun_ExistsInj

LEMMA NoneToCover ==
  ASSUME NEW T PROVE ExistsInjection({}, T)
<1>1. [x \in {} |-> x] \in Injection({}, T)
  BY Fun_IsInj
<1> QED BY <1>1, Fun_ExistsInj

(* Taking the first word off the traffic queue moves the others up.        *)
LEMMA RestartsMoveUp ==
  ASSUME Queued, TakesClear
  PROVE  ExistsInjection(Restarts \ {1}, Restarts')
<1>1. /\ \A i \in Restarts : i \in DOMAIN txtrafqueue /\ txtrafqueue[i].next = 0
      /\ Restarts' = {i \in DOMAIN Tail(txtrafqueue) : Tail(txtrafqueue)[i].next = 0}
  BY DEF Restarts, TakesClear
<1>2. \A i \in DOMAIN txtrafqueue \ {1} :
        i \in Nat /\ i - 1 \in DOMAIN Tail(txtrafqueue) /\ Tail(txtrafqueue)[i - 1] = txtrafqueue[i]
  BY DEF Queued, TakesClear
<1>3. [i \in Restarts \ {1} |-> i - 1] \in [Restarts \ {1} -> Restarts']
  BY <1>1, <1>2
<1>4. \A i, j \in Restarts \ {1} : i - 1 = j - 1 => i = j
  BY <1>1, <1>2
<1>5. [i \in Restarts \ {1} |-> i - 1] \in Injection(Restarts \ {1}, Restarts')
  BY <1>3, <1>4, Fun_IsInj
<1> QED BY <1>5, Fun_ExistsInj

LEMMA CoveredStep ==
  OutcomeInv /\ [TSCNext]_allvars => Covered'
<1> SUFFICES ASSUME OutcomeInv, [TSCNext]_allvars PROVE Covered'
  OBVIOUS
<1> USE DEF OutcomeInv
<1>0. call \in Calls \cup {None} /\ carried \in Calls \cup {None}
  BY DEF TSCInv, GlobalsOK
<1> DEFINE place(c) == HasPlace(txqueue, txreserveditem, rxcomplete, carried, c)
<1>1. ASSUME UNCHANGED call, \A c \in Calls : place(c)' => place(c)
      PROVE  GivenUp' \subseteq GivenUp
  BY <1>1 DEF GivenUp
<1>2. ASSUME NEW t \in Seq(ClearItem), txtrafqueue' = txtrafqueue \o t
      PROVE  Restarts \subseteq Restarts'
  <2>1. txtrafqueue \in Seq(ClearItem)
    BY DEF Queued
  <2>2. \A i \in DOMAIN txtrafqueue :
          i \in DOMAIN (txtrafqueue \o t) /\ (txtrafqueue \o t)[i] = txtrafqueue[i]
    BY <2>1
  <2> QED BY <1>2, <2>2 DEF Restarts
<1>3. ASSUME GivenUp' \subseteq GivenUp, Restarts \subseteq Restarts' PROVE Covered'
  BY <1>3, FewerToCover DEF Covered
<1>4. ASSUME UNCHANGED txtrafqueue PROVE Restarts \subseteq Restarts'
  BY <1>4 DEF Restarts
<1>5. CASE HalfSlot
  <2>1. UNCHANGED call /\ \A c \in Calls : place(c)' => place(c)
    BY <1>5, HalfSlotKeeps DEF HalfSlot
  <2>2. GivenUp' \subseteq GivenUp
    BY <1>1, <2>1
  <2>3. CASE TakesNone \/ TakesItem
    BY <1>3, <1>4, <2>2, <2>3 DEF TakesNone, TakesItem
  <2>4. CASE TakesClear /\ Head(txtrafqueue).next # 0
    <3>1. 1 \notin Restarts
      BY <2>4, Popped DEF Queued, TakesClear, Restarts
    <3>2. ExistsInjection(Restarts, Restarts')
      BY <2>4, <3>1, RestartsMoveUp, FewerToCover
    <3>3. ExistsInjection(GivenUp, Restarts')
      BY <3>2, Fun_ExistsInjTransitive DEF Covered
    <3> QED BY <2>2, <3>3, FewerToCover DEF Covered
  <2>5. CASE TakesClear /\ Head(txtrafqueue).next = 0
    <3>1. PICK k \in Calls : carried = k /\ carried' = None
      BY <1>0, <2>5 DEF TakesClear, Carrying
    <3>2. ~place(k)' /\ place(k)
      BY <1>5, <2>5, <3>1, HalfSlotKeeps DEF Outcomes, HasPlace
    <3>3. CASE k = call
      <4>1. \A d \in Calls : place(d) => d = call
        BY <3>1, <3>3, CallsAreNotNone DEF Order, Latest, HasPlace, Refers
      <4>2. GivenUp' = {}
        BY <2>2, <4>1 DEF GivenUp
      <4> QED BY <4>2, NoneToCover DEF Covered
    <3>4. CASE k # call
      <4>1. k \in GivenUp
        BY <3>2, <3>4 DEF GivenUp
      <4>2. GivenUp' \subseteq GivenUp \ {k}
        BY <2>2, <3>2 DEF GivenUp
      <4>3. ExistsInjection(GivenUp', Restarts \ {1})
        BY <4>1, <4>2, OneLessCovered DEF Covered
      <4> QED BY <2>5, <4>3, RestartsMoveUp, Fun_ExistsInjTransitive DEF Covered
    <3> QED BY <3>3, <3>4
  <2> QED BY <1>5, HalfSlotTakes, <2>3, <2>4, <2>5
<1>6. ASSUME NEW cw \in RxWords, Reply(cw) PROVE Covered'
  <2>1. UNCHANGED <<call, txtrafqueue>>
    BY <1>6 DEF Reply, RxRaises, RxLast, tscvars, queues
  <2>2. \A c \in Calls : place(c)' => place(c)
    BY <1>6, ReplyKeeps
  <2> QED BY <1>1, <1>3, <1>4, <2>1, <2>2
<1>7. ASSUME NEW d \in Calls, CreateCall(d) PROVE Covered'
  <2>1. call = None /\ call' = d /\ \A c \in Calls \ {d} : place(c)' => place(c)
    BY <1>7, CreateCallKeeps DEF CreateCall
  <2>2. GivenUp' \subseteq GivenUp
    BY <2>1, CallsAreNotNone DEF GivenUp
  <2>3. txtrafqueue' = txtrafqueue \o <<>>
    BY <1>7, AccessQueues, OutcomeBursts DEF CreateCall
  <2> QED BY <1>2, <1>3, <2>2, <2>3, OutcomeBursts
<1>8. ASSUME NEW b \in {Rejected, <<>>}, RandomAccess(b, <<>>), UNCHANGED <<carried, call>>
      PROVE  Covered'
  <2>1. txtrafqueue' = txtrafqueue \o <<>>
    BY <1>8, AccessQueues, OutcomeBursts
  <2>2. \A c \in Calls : place(c)' => place(c)
    BY <1>8, QuietAccess, OutcomeBursts
  <2> QED BY <1>1, <1>2, <1>3, <1>8, <2>1, <2>2, OutcomeBursts
<1>9. Busy \/ Refuse \/ Ignore \/ (\E on \in BOOLEAN : Presel(on)) => Covered'
  BY <1>8 DEF Busy, Refuse, Ignore, Presel, tscvars
<1>10. CASE Disconnect
  <2>1. txtrafqueue \in Seq(ClearItem) /\ txtrafqueue' = txtrafqueue \o ClearDown
    BY <1>10, AccessQueues, OutcomeBursts DEF Disconnect, Queued
  <2>2. Restarts \subseteq Restarts'
    BY <1>2, <2>1, OutcomeBursts
  <2> DEFINE last == Len(txtrafqueue) + 3
  <2>3. last \in Restarts' /\ last \notin Restarts
    <3>1. Len(ClearDown) = 3 /\ ClearDown[3].next = 0
      BY DEF ClearDown, LastClear
    <3>2. ClearDown \in Seq(ClearItem) /\ 3 \in 1..Len(ClearDown)
      BY <3>1, OutcomeBursts
    <3>3. /\ last \in DOMAIN (txtrafqueue \o ClearDown) /\ last \notin DOMAIN txtrafqueue
          /\ (txtrafqueue \o ClearDown)[last] = ClearDown[3]
      BY <2>1, <3>2, JoinedAt
    <3> QED BY <2>1, <3>1, <3>3 DEF Restarts
  <2> HIDE DEF last
  <2>4. \A c \in Calls : place(c)' => place(c)
    BY <1>10, QuietAccess, OutcomeBursts DEF Disconnect
  <2>5. GivenUp' \subseteq GivenUp \cup {call}
    BY <2>4 DEF GivenUp
  <2>6. ExistsInjection(GivenUp, Restarts)
    BY DEF Covered
  <2>7. ExistsInjection(GivenUp', Restarts')
    <3>1. Restarts \cup {last} \subseteq Restarts'
      BY <2>2, <2>3
    <3>2. ExistsInjection(GivenUp \cup {call}, Restarts \cup {last})
      BY <2>3, <2>6, OneMoreCovered
    <3> QED BY <2>5, <3>1, <3>2, FewerToCover
  <2> QED BY <2>7 DEF Covered
<1>11. CASE MorseTaken \/ IdentSent \/ Operator \/ UNCHANGED allvars
  <2>1. UNCHANGED <<queues, txreserveditem, rxcomplete, carried, call>>
    BY <1>11 DEF MorseTaken, IdentSent, Operator, TxMorseClear, MorseDone, SetMorse,
       allvars, chvars, txvars, rxvars, tscvars
  <2> QED BY <2>1 DEF Covered, GivenUp, Restarts, queues
<1> HIDE DEF place
<1> QED
  BY <1>5, <1>6, <1>7, <1>9, <1>10, <1>11 DEF TSCNext, Transmitter

-----------------------------------------------------------------------------
LEMMA OutcomeInitInv == TSCInit => OutcomeInv
<1> SUFFICES ASSUME TSCInit PROVE OutcomeInv
  OBVIOUS
<1> USE DEF TSCInit, ChannelInit
<1>1. TSCInv /\ Queued
  BY TSCInitInv, OutcomeBursts DEF Queued
<1>2. /\ \A c \in Calls : Once(txqueue, txreserveditem, rxcomplete, carried, c)
      /\ \A c \in Calls : ~HasPlace(txqueue, txreserveditem, rxcomplete, carried, c)
  BY BurstsDecide, CallsAreNotNone DEF Once, OneFor, NoneFor, HasPlace, Refers
<1>3. Outcomes /\ Order /\ GivenUp = {}
  BY <1>2 DEF Outcomes, Order, GivenUp
<1>4. Carrying /\ Rung
  BY ChannelAssumption DEF Carrying, StateNow, Rung
<1> QED BY <1>1, <1>3, <1>4, NoneToCover DEF OutcomeInv, Covered

(* However the handlers of tsc.py and the channel interleave, the outcomes *)
(* of calls are where the invariant has them.                              *)
THEOREM OutcomesCorrect == TSCSpec => []OutcomeInv
<1>1. OutcomeInv /\ [TSCNext]_allvars => OutcomeInv'
  BY TSCStep, QueuedStep, OutcomesStep, OrderStep, CarryingStep, CoveredStep, RungStep
  DEF OutcomeInv
<1> QED BY <1>1, OutcomeInitInv, PTL DEF TSCSpec

(* A call is decided once: a reply and a time-out never both count, nor    *)
(* two replies, and a call is not granted again while it is being carried  *)
(* (addcw and tick, channel.py lines 61-75, with AHYUpdate in tsc.py).     *)
THEOREM OneOutcomeEach == TSCSpec => []OneOutcome
<1>1. OutcomeInv => OneOutcome
  <2> SUFFICES ASSUME OutcomeInv, NEW c \in Calls, NEW p \in Places(c), NEW q \in Places(c)
               PROVE  p = q
    BY DEF OneOutcome
  <2>1. Once(txqueue, txreserveditem, rxcomplete, carried, c)
    BY DEF OutcomeInv, Outcomes
  <2> QED BY <2>1 DEF Places, Once, OneFor, NoneFor
<1> QED BY <1>1, OutcomesCorrect, PTL

(* The window of the call being set up is not thrown away for another one  *)
(* (channel.py line 124).                                                  *)
THEOREM WindowIsKept == TSCSpec => []WindowKept
<1>1. OutcomeInv => WindowKept
  BY CallsAreNotNone
  DEF OutcomeInv, TSCInv, WindowsHaveCalls, Order, Latest, Refers, WindowKept
<1> QED BY <1>1, OutcomesCorrect, PTL

(* A transmitter on the traffic channel for a call that has been given up  *)
(* is led back: a CLEAR that restarts it is still queued (tsc.py lines     *)
(* 97-102), however many calls came and went meanwhile.                    *)
THEOREM NobodyStranded == TSCSpec => []NoStrandedTraffic
<1>1. OutcomeInv => NoStrandedTraffic
  <2> SUFFICES ASSUME OutcomeInv, carried # None, carried # call
               PROVE  \E i \in DOMAIN txtrafqueue : txtrafqueue[i].next = 0
    BY DEF NoStrandedTraffic
  <2>1. carried \in GivenUp
    BY DEF OutcomeInv, TSCInv, GlobalsOK, GivenUp, HasPlace
  <2>2. PICK f \in Injection(GivenUp, Restarts) : TRUE
    BY Fun_ExistsInj DEF OutcomeInv, Covered
  <2>3. f[carried] \in Restarts
    BY <2>1, <2>2, Fun_InjectionProperties
  <2> QED BY <2>3 DEF Restarts
<1> QED BY <1>1, OutcomesCorrect, PTL

-----------------------------------------------------------------------------
(* The call service.  How far a call has come is told by what is queued for*)
(* it, the two windows and the call carried.                               *)

Ringing(q, c) == \E i \in DOMAIN q : q[i].cw = "AHY" /\ Refers(q[i], c)
Refusing(q, c) == \E i \in DOMAIN q : q[i].cw = "ACKV" /\ Refers(q[i], c)
Granting(q, c) == \E i \in DOMAIN q : q[i].next = 2 /\ Refers(q[i], c)

StageIn(q, s, o, k, c) ==
  IF k = c THEN "carried"
  ELSE IF Granting(q, c) THEN "granted"
  ELSE IF Refusing(q, c) THEN "refused"
  ELSE IF Ringing(q, c) \/ Refers(s, c) \/ Refers(o, c) THEN "asked"
  ELSE "none"

LEMMA StageIsIn ==
  ASSUME NEW c
  PROVE  StageOf(c) = StageIn(txqueue, txreserveditem, rxcomplete, carried, c)
BY DEF StageOf, StageIn, Granted, Refused, Undecided, Ringing, Refusing, Granting

(* With one outcome each, none of these hides another.                     *)
LEMMA StagesApart ==
  ASSUME NEW q \in Seq(OutcomeItem), NEW s, NEW o, NEW k, NEW c \in Calls,
         Once(q, s, o, k, c)
  PROVE  LET stage == StageIn(q, s, o, k, c) IN
         /\ stage = "carried" <=> k = c
         /\ stage = "granted" <=> Granting(q, c)
         /\ stage = "refused" <=> Refusing(q, c)
         /\ stage = "asked" <=> Ringing(q, c) \/ Refers(s, c) \/ Refers(o, c)
         /\ stage = "none" <=> ~HasPlace(q, s, o, k, c)
<1>1. \A i \in DOMAIN q : q[i].cw \in {"AHY", "ACKV"} => q[i].next # 2
  BY ChannelAssumption DEF OutcomeItem
<1>2. ~NoneFor(q, c) <=> Ringing(q, c) \/ Refusing(q, c) \/ Granting(q, c)
  BY DEF NoneFor, Decisive, Ringing, Refusing, Granting
<1>3. /\ ~(Ringing(q, c) /\ Refusing(q, c))
      /\ ~(Ringing(q, c) /\ Granting(q, c))
      /\ ~(Refusing(q, c) /\ Granting(q, c))
  <2>1. \A i, j \in DOMAIN q : Decisive(q[i], c) /\ Decisive(q[j], c) => i = j
    BY DEF Once, OneFor
  <2> QED BY <1>1, <2>1 DEF Decisive, Ringing, Refusing, Granting
<1> QED BY <1>2, <1>3 DEF Once, StageIn, HasPlace

-----------------------------------------------------------------------------
(* What each thing that happens does to the stages                         *)

LEMMA MarksJoined ==
  ASSUME NEW q \in Seq(OutcomeItem), NEW b \in Seq(OutcomeItem), NEW c
  PROVE  /\ Ringing(q \o b, c) <=> Ringing(q, c) \/ Ringing(b, c)
         /\ Refusing(q \o b, c) <=> Refusing(q, c) \/ Refusing(b, c)
         /\ Granting(q \o b, c) <=> Granting(q, c) \/ Granting(b, c)
<1> DEFINE j == q \o b
           at(i) == Len(q) + i
<1>1. \A i \in DOMAIN j : \/ i \in DOMAIN q /\ j[i] = q[i]
                          \/ i - Len(q) \in DOMAIN b /\ j[i] = b[i - Len(q)]
  BY Joined
<1>2. \A i \in DOMAIN q : i \in DOMAIN j /\ j[i] = q[i]
  OBVIOUS
<1>3. \A i \in DOMAIN b : at(i) \in DOMAIN j /\ j[at(i)] = b[i]
  BY JoinedAt
<1> HIDE DEF j, at
<1>4. /\ Ringing(j, c) => Ringing(q, c) \/ Ringing(b, c)
      /\ Refusing(j, c) => Refusing(q, c) \/ Refusing(b, c)
      /\ Granting(j, c) => Granting(q, c) \/ Granting(b, c)
  BY <1>1 DEF Ringing, Refusing, Granting
<1>5. /\ Ringing(q, c) => Ringing(j, c)
      /\ Refusing(q, c) => Refusing(j, c)
      /\ Granting(q, c) => Granting(j, c)
  BY <1>2 DEF Ringing, Refusing, Granting
<1>6. /\ Ringing(b, c) => Ringing(j, c)
      /\ Refusing(b, c) => Refusing(j, c)
      /\ Granting(b, c) => Granting(j, c)
  BY <1>3 DEF Ringing, Refusing, Granting
<1> QED BY <1>4, <1>5, <1>6 DEF j

LEMMA BurstMarks ==
  ASSUME NEW c \in Calls, NEW d \in Calls
  PROVE  /\ ~Ringing(<<>>, c) /\ ~Refusing(<<>>, c) /\ ~Granting(<<>>, c)
         /\ ~Ringing(Rejected, c) /\ ~Refusing(Rejected, c) /\ ~Granting(Rejected, c)
         /\ ~Ringing(Unavailable(d), c) /\ ~Granting(Unavailable(d), c)
         /\ Refusing(Unavailable(d), c) <=> c = d
         /\ ~Ringing(Grant(d), c) /\ ~Refusing(Grant(d), c)
         /\ Granting(Grant(d), c) <=> c = d
         /\ ~Refusing(Ahoy(d), c) /\ ~Granting(Ahoy(d), c)
         /\ Ringing(Ahoy(d), c) <=> c = d
<1>1. None # 2 /\ None \notin OutcomeItem
  BY OutcomeItems, ChannelAssumption
<1>2. /\ \A i \in DOMAIN Unavailable(d) : Unavailable(d)[i] \in OutcomeItem
      /\ \A i \in DOMAIN Grant(d) : Grant(d)[i] \in OutcomeItem
      /\ \A i \in DOMAIN Ahoy(d) : Ahoy(d)[i] \in OutcomeItem
  <2>1. \A b \in Seq(OutcomeItem) : \A i \in DOMAIN b : b[i] \in OutcomeItem
    OBVIOUS
  <2> QED BY <2>1, OutcomeBursts
<1>3. /\ DOMAIN Rejected = {1} /\ Rejected[1].data = None
      /\ DOMAIN Unavailable(d) = {1} /\ Unavailable(d)[1].cw = "ACKV"
      /\ Unavailable(d)[1].next = None /\ Unavailable(d)[1].data = d
      /\ DOMAIN Ahoy(d) = {1} /\ Ahoy(d)[1].cw = "AHY"
      /\ Ahoy(d)[1].next = None /\ Ahoy(d)[1].data = d
  BY DEF Rejected, Unavailable, Ahoy, Message
<1>4. /\ DOMAIN Grant(d) = {1, 2}
      /\ Grant(d)[1].cw = "GTC" /\ Grant(d)[1].next = None
      /\ Grant(d)[2].cw = "GTC" /\ Grant(d)[2].next = 2 /\ Grant(d)[2].data = d
  BY DEF Grant, Message
<1> USE DEF Ringing, Refusing, Granting, Refers
<1>5. ~Ringing(<<>>, c) /\ ~Refusing(<<>>, c) /\ ~Granting(<<>>, c)
  OBVIOUS
<1>6. ~Ringing(Rejected, c) /\ ~Refusing(Rejected, c) /\ ~Granting(Rejected, c)
  BY <1>3, CallsAreNotNone
<1>7. /\ ~Ringing(Unavailable(d), c) /\ ~Granting(Unavailable(d), c)
      /\ Refusing(Unavailable(d), c) <=> c = d
  BY <1>1, <1>2, <1>3
<1>8. /\ ~Ringing(Grant(d), c) /\ ~Refusing(Grant(d), c)
      /\ Granting(Grant(d), c) <=> c = d
  BY <1>1, <1>2, <1>4
<1>9. /\ ~Refusing(Ahoy(d), c) /\ ~Granting(Ahoy(d), c)
      /\ Ringing(Ahoy(d), c) <=> c = d
  BY <1>1, <1>2, <1>3
<1> QED BY <1>5, <1>6, <1>7, <1>8, <1>9

(* Nothing but the stage of the call that was waited for changes when its  *)
(* window closes.                                                          *)
LEMMA StageSettled ==
  ASSUME NEW q \in Seq(OutcomeItem), NEW s, NEW o, NEW k, NEW b \in Seq(OutcomeItem),
         o # None, o.data \in Calls, b \in {<<>>, Unavailable(o.data), Grant(o.data)},
         NEW c \in Calls, Once(q, s, o, k, c), Once(q \o b, s, None, k, c)
  PROVE  /\ c # o.data => StageIn(q \o b, s, None, k, c) = StageIn(q, s, o, k, c)
         /\ c = o.data =>
              /\ StageIn(q, s, o, k, c) = "asked"
              /\ b = <<>> => StageIn(q \o b, s, None, k, c) = "none"
              /\ b = Unavailable(o.data) => StageIn(q \o b, s, None, k, c) = "refused"
              /\ b = Grant(o.data) => StageIn(q \o b, s, None, k, c) = "granted"
<1>1. /\ Ringing(q \o b, c) <=> Ringing(q, c) \/ Ringing(b, c)
      /\ Refusing(q \o b, c) <=> Refusing(q, c) \/ Refusing(b, c)
      /\ Granting(q \o b, c) <=> Granting(q, c) \/ Granting(b, c)
  BY MarksJoined
<1>2. CASE c # o.data
  <2>1. ~Ringing(b, c) /\ ~Refusing(b, c) /\ ~Granting(b, c) /\ ~Refers(o, c) /\ ~Refers(None, c)
    BY <1>2, BurstMarks DEF Refers
  <2> QED BY <1>1, <1>2, <2>1 DEF StageIn
<1>3. CASE c = o.data
  <2>1. Refers(o, c)
    BY <1>3 DEF Refers
  <2>2. StageIn(q, s, o, k, c) = "asked"
    BY <2>1, StagesApart
  <2>3. q \o b \in Seq(OutcomeItem)
    OBVIOUS
  <2>4. b = <<>> => StageIn(q \o b, s, None, k, c) = "none"
    <3>1. NoneFor(q, c) /\ ~Refers(s, c) /\ k # c
      BY <2>1 DEF Once
    <3>2. b = <<>> => q \o b = q
      OBVIOUS
    <3>3. b = <<>> => ~HasPlace(q \o b, s, None, k, c)
      BY <3>1, <3>2 DEF HasPlace, Refers
    <3> QED BY <2>3, <3>3, StagesApart
  <2>5. /\ StageIn(q \o b, s, None, k, c) = "refused" <=> Refusing(q \o b, c)
        /\ StageIn(q \o b, s, None, k, c) = "granted" <=> Granting(q \o b, c)
    BY <2>3, StagesApart
  <2>6. /\ b = Unavailable(o.data) => Refusing(b, c)
        /\ b = Grant(o.data) => Granting(b, c)
    BY <1>3, BurstMarks
  <2> QED BY <1>1, <1>3, <2>2, <2>4, <2>5, <2>6
<1> QED BY <1>2, <1>3

(* A window that stays, with less time, changes nothing.                   *)
LEMMA StageLess ==
  ASSUME NEW q, NEW s, NEW o, NEW o2, NEW k, NEW c,
         o = None <=> o2 = None, o # None => o2.data = o.data
  PROVE  StageIn(q, s, o2, k, c) = StageIn(q, s, o, k, c)
BY DEF StageIn, Refers

(* The window about to open replaces the open one.                         *)
LEMMA StageOpens ==
  ASSUME NEW q \in Seq(OutcomeItem), NEW s, NEW o, NEW k, NEW c \in Calls, Once(q, s, o, k, c)
  PROVE  IF s # None /\ Refers(o, c)
         THEN /\ StageIn(q, s, o, k, c) = "asked"
              /\ StageIn(q, None, Opened(s, o), k, c) = "none"
         ELSE StageIn(q, None, Opened(s, o), k, c) = StageIn(q, s, o, k, c)
<1>1. CASE s # None /\ Refers(o, c)
  <2>1. StageIn(q, s, o, k, c) = "asked"
    BY <1>1, StagesApart
  <2>2. NoneFor(q, c) /\ ~Refers(s, c) /\ k # c
    BY <1>1 DEF Once
  <2>3. ~HasPlace(q, None, Opened(s, o), k, c)
    BY <1>1, <2>2 DEF HasPlace, Opened, Refers
  <2>4. Once(q, None, Opened(s, o), k, c)
    BY OnceOpens
  <2> QED BY <1>1, <2>1, <2>3, <2>4, StagesApart
<1>2. CASE ~(s # None /\ Refers(o, c))
  BY <1>2 DEF StageIn, Opened, Refers
<1> QED BY <1>1, <1>2

LEMMA MarksPopped ==
  ASSUME NEW q \in Seq(OutcomeItem), q # <<>>, NEW c
  PROVE  LET h == Head(q) IN
         /\ Ringing(q, c) <=> (h.cw = "AHY" /\ Refers(h, c)) \/ Ringing(Tail(q), c)
         /\ Refusing(q, c) <=> (h.cw = "ACKV" /\ Refers(h, c)) \/ Refusing(Tail(q), c)
         /\ Granting(q, c) <=> (h.next = 2 /\ Refers(h, c)) \/ Granting(Tail(q), c)
<1> DEFINE h == Head(q)
           t == Tail(q)
<1>1. /\ 1 \in DOMAIN q /\ q[1] = h
      /\ \A i \in DOMAIN t : i + 1 \in DOMAIN q /\ t[i] = q[i + 1]
  BY Popped
<1>2. \A i \in DOMAIN q : i = 1 \/ (i - 1 \in DOMAIN t /\ t[i - 1] = q[i])
  OBVIOUS
<1> HIDE DEF h, t
<1>3. /\ Ringing(q, c) <=> (h.cw = "AHY" /\ Refers(h, c)) \/ Ringing(t, c)
      /\ Refusing(q, c) <=> (h.cw = "ACKV" /\ Refers(h, c)) \/ Refusing(t, c)
      /\ Granting(q, c) <=> (h.next = 2 /\ Refers(h, c)) \/ Granting(t, c)
  BY <1>1, <1>2 DEF Ringing, Refusing, Granting
<1> QED BY <1>3 DEF h, t

(* Taking an item moves its call on, if the item decides it.               *)
LEMMA StagePops ==
  ASSUME NEW q \in Seq(OutcomeItem), q # <<>>, NEW o, NEW c \in Calls,
         Once(q, None, o, None, c)
  PROVE  LET h == Head(q)
             before == StageIn(q, None, o, None, c)
             after == StageIn(Tail(q), WindowOf(h), o, CarriedBy(h, None), c)
         IN  IF Refers(h, c) /\ h.cw = "ACKV" THEN before = "refused" /\ after = "none"
             ELSE IF Refers(h, c) /\ h.next = 2 THEN before = "granted" /\ after = "carried"
             ELSE /\ after = before
                  /\ Refers(h, c) /\ h.cw = "AHY" => before = "asked"
<1> DEFINE h == Head(q)
           t == Tail(q)
           w == WindowOf(h)
           k == CarriedBy(h, None)
           before == StageIn(q, None, o, None, c)
           after == StageIn(t, w, o, k, c)
<1>1. /\ Ringing(q, c) <=> (h.cw = "AHY" /\ Refers(h, c)) \/ Ringing(t, c)
      /\ Refusing(q, c) <=> (h.cw = "ACKV" /\ Refers(h, c)) \/ Refusing(t, c)
      /\ Granting(q, c) <=> (h.next = 2 /\ Refers(h, c)) \/ Granting(t, c)
  BY MarksPopped
<1>2. h \in OutcomeItem /\ t \in Seq(OutcomeItem)
  BY Popped
<1>3. Once(t, w, o, k, c)
  BY OncePops
<1>4. /\ Refers(w, c) <=> h.cw = "AHY" /\ Refers(h, c)
      /\ k = c <=> h.next = 2 /\ Refers(h, c)
      /\ h.cw \in {"AHY", "ACKV"} => h.next # 2
      /\ ~Refers(None, c)
  <2>1. h.cw = "AHY" <=> h.rxlen > 0
    BY <1>2 DEF OutcomeItem
  <2>2. h # None
    BY <1>2, OutcomeItems, ChannelAssumption
  <2>3. h.cw = "AHY" => w = NewWindow(h) /\ w # None /\ w.data = h.data
    <3>1. h.cw = "AHY" => w = NewWindow(h) /\ w.data = h.data
      BY <2>1 DEF WindowOf, NewWindow
    <3>2. NewWindow(h) # None
      <4>1. h \in Item
        BY <1>2, OutcomeItems
      <4>2. NewWindow(h) \in Window
        BY <4>1, ChannelAssumption DEF NewWindow, Window, Item
      <4> QED BY <4>2, ChannelAssumption
    <3> QED BY <3>1, <3>2
  <2>4. h.cw # "AHY" => w = None
    BY <1>2, <2>1 DEF WindowOf
  <2>5. h.next # 0 /\ None # 2
    BY <1>2, ChannelAssumption DEF OutcomeItem
  <2>6. h.cw \in {"AHY", "ACKV"} => h.next # 2
    BY <1>2, <2>5 DEF OutcomeItem
  <2>7. k = c <=> h.next = 2 /\ Refers(h, c)
    BY <2>2, <2>5, CallsAreNotNone DEF CarriedBy, Refers
  <2> QED BY <2>2, <2>3, <2>4, <2>6, <2>7 DEF Refers
<1>5. /\ before = "carried" <=> FALSE
      /\ before = "granted" <=> Granting(q, c)
      /\ before = "refused" <=> Refusing(q, c)
      /\ before = "asked" <=> Ringing(q, c) \/ Refers(None, c) \/ Refers(o, c)
      /\ before = "none" <=> ~HasPlace(q, None, o, None, c)
  BY StagesApart, CallsAreNotNone
<1>6. /\ after = "carried" <=> k = c
      /\ after = "granted" <=> Granting(t, c)
      /\ after = "refused" <=> Refusing(t, c)
      /\ after = "asked" <=> Ringing(t, c) \/ Refers(w, c) \/ Refers(o, c)
      /\ after = "none" <=> ~HasPlace(t, w, o, k, c)
  BY <1>2, <1>3, StagesApart
<1>7. /\ NoneFor(t, c) <=> ~(Ringing(t, c) \/ Refusing(t, c) \/ Granting(t, c))
      /\ NoneFor(q, c) <=> ~(Ringing(q, c) \/ Refusing(q, c) \/ Granting(q, c))
  BY DEF NoneFor, Decisive, Ringing, Refusing, Granting
<1>8. Decisive(h, c) => NoneFor(t, c) /\ ~Refers(o, c)
  <2>1. q \in Seq(Item)
    BY OutcomeItems
  <2>2. OneFor(q, c) /\ Decisive(h, c) => NoneFor(t, c)
    BY <2>1, PopOne
  <2>3. Decisive(h, c) => ~NoneFor(q, c)
    BY Popped DEF NoneFor
  <2> QED BY <2>2, <2>3 DEF Once
<1>9. Decisive(h, c) <=> Refers(h, c) /\ (h.cw \in {"AHY", "ACKV"} \/ h.next = 2)
  BY DEF Decisive
<1> HIDE DEF h, t, w, k, before, after
<1>10. IF Refers(h, c) /\ h.cw = "ACKV" THEN before = "refused" /\ after = "none"
       ELSE IF Refers(h, c) /\ h.next = 2 THEN before = "granted" /\ after = "carried"
       ELSE /\ after = before
            /\ Refers(h, c) /\ h.cw = "AHY" => before = "asked"
  <2>1. CASE Refers(h, c) /\ h.cw = "ACKV"
    BY <1>1, <1>4, <1>5, <1>6, <1>7, <1>8, <1>9, <2>1 DEF HasPlace
  <2>2. CASE Refers(h, c) /\ h.cw # "ACKV" /\ h.next = 2
    BY <1>1, <1>4, <1>5, <1>6, <2>2
  <2>3. CASE Refers(h, c) /\ h.cw = "AHY"
    BY <1>1, <1>4, <1>5, <1>6, <2>3
  <2>4. CASE ~Decisive(h, c)
    <3>1. ~Refers(w, c) /\ k # c
      BY <1>4, <1>9, <2>4
    <3>2. after = before
      BY <1>1, <1>4, <1>9, <2>4, <3>1, CallsAreNotNone DEF before, after, StageIn
    <3> QED BY <1>9, <2>4, <3>2
  <2> QED BY <1>9, <2>1, <2>2, <2>3, <2>4
<1> QED BY <1>10 DEF h, t, w, k, before, after

-----------------------------------------------------------------------------
(* The steps of TSC as steps of the call service                           *)

StagesIn(q, s, o, k) == [c \in Calls |-> StageIn(q, s, o, k, c)]

LEMMA StagesInAre ==
  ASSUME NEW q, NEW s, NEW o, NEW k
  PROVE  /\ StagesIn(q, s, o, k) \in [Calls -> Service!Stage]
         /\ \A c \in Calls : StagesIn(q, s, o, k)[c] = StageIn(q, s, o, k, c)
BY DEF StagesIn, StageIn, Service!Stage

LEMMA StagesAre ==
  /\ Stages = StagesIn(txqueue, txreserveditem, rxcomplete, carried)
  /\ Stages' = StagesIn(txqueue', txreserveditem', rxcomplete', carried')
<1>1. Stages = StagesIn(txqueue, txreserveditem, rxcomplete, carried)
  BY StageIsIn DEF Stages, StagesIn
<1>2. Stages' = StagesIn(txqueue', txreserveditem', rxcomplete', carried')
  BY DEF Stages, StagesIn, StageOf, StageIn, Granted, Refused, Undecided,
     Ringing, Refusing, Granting
<1> QED BY <1>1, <1>2

LEMMA StageMoves ==
  ASSUME NEW f \in [Calls -> Service!Stage], NEW g \in [Calls -> Service!Stage],
         NEW c \in Calls, \A d \in Calls \ {c} : g[d] = f[d]
  PROVE  Service!Moves(c, f[c], g[c], f, g)
<1>1. g = [f EXCEPT ![c] = g[c]]
  OBVIOUS
<1> QED BY <1>1 DEF Service!Moves

LEMMA StagesStay ==
  ASSUME NEW f \in [Calls -> Service!Stage], NEW g \in [Calls -> Service!Stage],
         \A d \in Calls : g[d] = f[d]
  PROVE  g = f
  OBVIOUS

LEMMA OnAirStays ==
  ASSUME Carrying, Carrying', UNCHANGED carried
  PROVE  UNCHANGED OnAir
BY DEF Carrying, OnAir

LEMMA RestStays ==
  /\ UNCHANGED <<txcomplete, txstate>> => UNCHANGED OnAir
  /\ UNCHANGED lastcw => UNCHANGED Said
  /\ UNCHANGED txtrafqueue => UNCHANGED Restarts
BY DEF OnAir, StateNow, Said, Restarts

LEMMA RestartsFinite ==
  ASSUME Queued PROVE IsFiniteSet(Restarts) /\ Cardinality(Restarts) \in Nat
<1>1. DOMAIN txtrafqueue = 1..Len(txtrafqueue) /\ Len(txtrafqueue) \in Nat
  BY DEF Queued
<1>2. IsFiniteSet(1..Len(txtrafqueue))
  BY <1>1, FS_Interval
<1>3. Restarts \subseteq 1..Len(txtrafqueue)
  BY <1>1 DEF Restarts
<1> QED BY <1>2, <1>3, FS_Subset, FS_CardinalityType

(* The reply to an ahoy decides the call it rang for.                      *)
LEMMA ReplyServes ==
  ASSUME OutcomeInv, OutcomeInv', NEW cw \in RxWords, Reply(cw)
  PROVE  Service!Next \/ UNCHANGED Service!servicevars
<1> DEFINE before(c) == StageIn(txqueue, txreserveditem, rxcomplete, carried, c)
           after(c) == StageIn(txqueue', txreserveditem', rxcomplete', carried', c)
<1>1. UNCHANGED <<call, OnAir, Said, Restarts>>
  BY RestStays DEF Reply, RxRaises, RxLast, txvars, queues, tscvars
<1>2. /\ Stages \in [Calls -> Service!Stage] /\ Stages' \in [Calls -> Service!Stage]
      /\ \A c \in Calls : Stages[c] = before(c) /\ Stages'[c] = after(c)
  BY StagesAre, StagesInAre
<1>3. /\ rxcomplete # None /\ rxcomplete \in Window /\ rxcomplete.data \in Calls
      /\ txqueue \in Seq(OutcomeItem)
      /\ UNCHANGED <<txreserveditem, carried>>
  BY DEF Reply, RxRaises, RxLast, txvars, tscvars,
     OutcomeInv, Queued, TSCInv, ChannelInv, TypeOK, WindowsHaveCalls
<1>4. CASE RxRaises(cw)
  <2>1. UNCHANGED txqueue /\ rxcomplete' # None /\ rxcomplete'.data = rxcomplete.data
    <3>1. rxcomplete' = Replied(cw) /\ UNCHANGED txqueue
      BY <1>4 DEF RxRaises, queues
    <3>2. rxcomplete' \in Window
      BY <1>3, <3>1, RepliedType DEF OutcomeInv, TSCInv, ChannelInv
    <3> QED BY <1>3, <3>1, <3>2, ChannelAssumption DEF Replied, Window
  <2>2. \A c \in Calls : after(c) = before(c)
    BY <1>3, <2>1, StageLess
  <2>3. UNCHANGED Stages
    BY <1>2, <2>2, StagesStay
  <2> QED BY <1>1, <2>3 DEF Service!servicevars
<1>5. ASSUME NEW first, RxLast(Answered(first))
      PROVE  Service!Next
  <2> DEFINE b == Answered(first)
             d == rxcomplete.data
  <2>1. b \in {<<>>, Grant(d)} /\ b \in Seq(OutcomeItem)
    BY <1>3, OutcomeBursts DEF Answered
  <2>2. rxcomplete' = None /\ txqueue' = txqueue \o b
    BY <1>5 DEF RxLast
  <2>3. \A c \in Calls : Once(txqueue, txreserveditem, rxcomplete, carried, c)
                         /\ Once(txqueue \o b, txreserveditem, None, carried, c)
    BY <1>3, <2>2 DEF OutcomeInv, Outcomes
  <2> HIDE DEF b
  <2>4. /\ \A c \in Calls \ {d} : after(c) = before(c)
        /\ before(d) = "asked" /\ after(d) \in {"none", "granted"}
    BY <1>3, <2>1, <2>2, <2>3, StageSettled
  <2>5. \E to \in {"granted", "none"} : Service!Moves(d, "asked", to, Stages, Stages')
    BY <1>2, <1>3, <2>4, StageMoves
  <2>6. Service!Answer(d)
    BY <1>1, <2>5 DEF Service!Answer
  <2> QED BY <1>3, <2>6 DEF Service!Next
<1> QED BY <1>4, <1>5 DEF Reply

(* Random access starts a call, or ends one, or leaves the calls alone.    *)
LEMMA CreateCallServes ==
  ASSUME OutcomeInv, OutcomeInv', NEW c \in Calls, CreateCall(c)
  PROVE  Service!Request(c)
<1> DEFINE before(d) == StageIn(txqueue, txreserveditem, rxcomplete, carried, d)
           after(d) == StageIn(txqueue', txreserveditem', rxcomplete', carried', d)
<1>1. /\ txqueue \in Seq(OutcomeItem) /\ txqueue' \in Seq(OutcomeItem)
      /\ Ahoy(c) \in Seq(OutcomeItem)
  BY OutcomeBursts DEF OutcomeInv, Queued
<1>2. /\ txqueue' = txqueue \o Ahoy(c)
      /\ UNCHANGED <<txreserveditem, rxcomplete, carried, txcomplete, txstate, lastcw>>
      /\ txtrafqueue' = txtrafqueue \o <<>>
      /\ call = None /\ call' = c
  BY <1>1, AccessQueues, OutcomeBursts DEF CreateCall, txvars, rxvars, OutcomeInv
<1>3. UNCHANGED <<OnAir, Said, Restarts>>
  <2>1. UNCHANGED txtrafqueue
    BY <1>2 DEF OutcomeInv, Queued
  <2> QED BY <1>2, <2>1, RestStays
<1>4. /\ Stages \in [Calls -> Service!Stage] /\ Stages' \in [Calls -> Service!Stage]
      /\ \A d \in Calls : Stages[d] = before(d) /\ Stages'[d] = after(d)
  BY StagesAre, StagesInAre
<1>5. \A d \in Calls :
        /\ Ringing(txqueue', d) <=> Ringing(txqueue, d) \/ d = c
        /\ Refusing(txqueue', d) <=> Refusing(txqueue, d)
        /\ Granting(txqueue', d) <=> Granting(txqueue, d)
  BY <1>1, <1>2, MarksJoined, BurstMarks
<1>6. \A d \in Calls \ {c} : after(d) = before(d)
  BY <1>2, <1>5 DEF StageIn
<1>7. before(c) = "none" /\ after(c) = "asked"
  <2>1. ~HasPlace(txqueue, txreserveditem, rxcomplete, carried, c)
    BY DEF CreateCall, Unused, HasPlace, NoneFor, Decisive
  <2>2. /\ Once(txqueue, txreserveditem, rxcomplete, carried, c)
        /\ Once(txqueue', txreserveditem', rxcomplete', carried', c)
    BY DEF OutcomeInv, Outcomes
  <2>3. before(c) = "none"
    BY <1>1, <2>1, <2>2, StagesApart
  <2>4. Ringing(txqueue', c)
    BY <1>5
  <2>5. after(c) = "asked"
    BY <1>1, <2>2, <2>4, StagesApart
  <2> QED BY <2>3, <2>5
<1>8. Service!Moves(c, "none", "asked", Stages, Stages')
  BY <1>4, <1>6, <1>7, StageMoves
<1> QED BY <1>2, <1>3, <1>8 DEF Service!Request

LEMMA QuietAccessServes ==
  ASSUME OutcomeInv, NEW b \in {Rejected, <<>>}, NEW t \in Seq(ClearItem),
         RandomAccess(b, t), UNCHANGED carried
  PROVE  UNCHANGED <<Stages, OnAir, Said>>
<1> DEFINE before(d) == StageIn(txqueue, txreserveditem, rxcomplete, carried, d)
           after(d) == StageIn(txqueue', txreserveditem', rxcomplete', carried', d)
<1>1. txqueue \in Seq(OutcomeItem) /\ b \in Seq(OutcomeItem)
  BY OutcomeBursts DEF OutcomeInv, Queued
<1>2. /\ txqueue' = txqueue \o b
      /\ UNCHANGED <<txreserveditem, rxcomplete, txcomplete, txstate, lastcw>>
  BY <1>1, AccessQueues DEF txvars, rxvars, OutcomeInv
<1>3. \A d \in Calls :
        /\ Ringing(txqueue', d) <=> Ringing(txqueue, d)
        /\ Refusing(txqueue', d) <=> Refusing(txqueue, d)
        /\ Granting(txqueue', d) <=> Granting(txqueue, d)
  BY <1>1, <1>2, MarksJoined, BurstMarks
<1>4. \A d \in Calls : after(d) = before(d)
  BY <1>2, <1>3 DEF StageIn
<1>5. /\ Stages \in [Calls -> Service!Stage] /\ Stages' \in [Calls -> Service!Stage]
      /\ \A d \in Calls : Stages[d] = before(d) /\ Stages'[d] = after(d)
  BY StagesAre, StagesInAre
<1> QED BY <1>2, <1>4, <1>5, StagesStay, RestStays

(* A hang-up queues one CLEAR that leads back.                             *)
LEMMA DisconnectServes ==
  ASSUME OutcomeInv, OutcomeInv', Disconnect
  PROVE  Service!HangUp
<1>1. UNCHANGED <<Stages, OnAir, Said>> /\ call # None /\ call' = None
  BY QuietAccessServes, OutcomeBursts DEF Disconnect
<1>2. txtrafqueue \in Seq(ClearItem) /\ txtrafqueue' = txtrafqueue \o ClearDown
  BY AccessQueues, OutcomeBursts DEF Disconnect, OutcomeInv, Queued
<1> DEFINE last == Len(txtrafqueue) + 3
<1>3. /\ ClearDown \in Seq(ClearItem) /\ Len(ClearDown) = 3 /\ DOMAIN ClearDown = {1, 2, 3}
      /\ ClearDown[1].next # 0 /\ ClearDown[2].next # 0 /\ ClearDown[3].next = 0
  BY OutcomeBursts, ChannelAssumption DEF ClearDown, Clear, Message, LastClear
<1>4. Restarts' = Restarts \cup {last} /\ last \notin Restarts
  <2> DEFINE j == txtrafqueue \o ClearDown
  <2>1. \A i \in DOMAIN j :
          \/ i \in DOMAIN txtrafqueue /\ j[i] = txtrafqueue[i]
          \/ i - Len(txtrafqueue) \in DOMAIN ClearDown /\ j[i] = ClearDown[i - Len(txtrafqueue)]
    BY <1>2, <1>3, Joined
  <2>2. \A i \in DOMAIN txtrafqueue : i \in DOMAIN j /\ j[i] = txtrafqueue[i]
    BY <1>2, <1>3
  <2>3. last \in DOMAIN j /\ last \notin DOMAIN txtrafqueue /\ j[last] = ClearDown[3]
    BY <1>2, <1>3, JoinedAt
  <2>4. \A i \in DOMAIN j : i \in Nat
    BY <1>2, <1>3
  <2>5. Len(txtrafqueue) \in Nat
    BY <1>2
  <2>6. \A i \in DOMAIN j : i - Len(txtrafqueue) = 3 => i = last
    BY <2>4, <2>5
  <2> HIDE DEF j, last
  <2>7. \A i \in DOMAIN j : j[i].next = 0 => i = last \/ (i \in DOMAIN txtrafqueue /\ txtrafqueue[i].next = 0)
    BY <1>3, <2>1, <2>6
  <2>8. Restarts' = {i \in DOMAIN j : j[i].next = 0}
    BY <1>2 DEF Restarts, j
  <2> QED BY <1>3, <2>2, <2>3, <2>7, <2>8 DEF Restarts
<1> HIDE DEF last
<1>5. Cardinality(Restarts)' = Cardinality(Restarts) + 1
  BY <1>4, RestartsFinite, FS_AddElement DEF OutcomeInv
<1> QED BY <1>1, <1>5 DEF Service!HangUp

(* A half slot.  First, the window may close unanswered; and the window    *)
(* about to open replaces it.                                              *)
StagesBetween == StagesIn(HalfQueue, None, Opened(txreserveditem, Ticked), carried)

LEMMA TimeServes ==
  ASSUME OutcomeInv
  PROVE  Service!Waits(StagesBetween)
<1> DEFINE s == txreserveditem
           o == Opened(s, Ticked)
           before(c) == StageIn(txqueue, s, rxcomplete, carried, c)
           settled(c) == StageIn(HalfQueue, s, Ticked, carried, c)
           between(c) == StageIn(HalfQueue, None, o, carried, c)
<1>1. /\ Stages \in [Calls -> Service!Stage] /\ StagesBetween \in [Calls -> Service!Stage]
      /\ \A c \in Calls : Stages[c] = before(c) /\ StagesBetween[c] = between(c)
  BY StagesAre, StagesInAre DEF StagesBetween
<1>2. /\ txqueue \in Seq(OutcomeItem) /\ TimedOut \in Seq(OutcomeItem)
      /\ HalfQueue \in Seq(OutcomeItem)
      /\ rxcomplete # None => rxcomplete \in Window /\ rxcomplete.data \in Calls
  <2>1. txqueue \in Seq(OutcomeItem) /\ TimedOut \in Seq(OutcomeItem)
    BY TickSettles DEF OutcomeInv, Queued
  <2> QED BY <2>1 DEF HalfQueue, OutcomeInv, TSCInv, ChannelInv, TypeOK, WindowsHaveCalls
<1>3. \A c \in Calls : /\ Once(txqueue, s, rxcomplete, carried, c)
                       /\ Once(HalfQueue, s, Ticked, carried, c)
  BY <1>2, TickSettles, SettledKeeps DEF OutcomeInv, Outcomes, HalfQueue
<1>4. \A c \in Calls :
        IF s # None /\ Refers(Ticked, c)
        THEN settled(c) = "asked" /\ between(c) = "none"
        ELSE between(c) = settled(c)
  BY <1>2, <1>3, StageOpens
<1>5. CASE Expires
  <2> DEFINE d == rxcomplete.data
  <2>1. /\ Ticked = None /\ TimedOut = Unavailable(d) /\ d \in Calls /\ rxcomplete # None
    BY <1>2, <1>5 DEF Expires, Ticked, TimedOut
  <2>2. /\ \A c \in Calls \ {d} : settled(c) = before(c)
        /\ before(d) = "asked" /\ settled(d) = "refused"
    BY <1>2, <1>3, <2>1, StageSettled DEF HalfQueue
  <2>3. \A c \in Calls : between(c) = settled(c)
    BY <1>4, <2>1 DEF Refers
  <2>4. Service!Moves(d, "asked", "refused", Stages, StagesBetween)
    BY <1>1, <2>1, <2>2, <2>3, StageMoves
  <2> QED BY <2>1, <2>4 DEF Service!Waits
<1>6. CASE ~Expires
  <2>1. HalfQueue = txqueue
    BY <1>2, <1>6 DEF HalfQueue, TimedOut
  <2>2. /\ rxcomplete = None <=> Ticked = None
        /\ rxcomplete # None => Ticked.data = rxcomplete.data
    <3>1. ASSUME rxcomplete # None
          PROVE  Ticked \in Window /\ Ticked.data = rxcomplete.data
      <4>1. /\ rxcomplete \in Window /\ rxcomplete.slottimeout # 1
            /\ Ticked = [rxcomplete EXCEPT !.slottimeout = @ - 1]
        BY <1>2, <1>6, <3>1 DEF Expires, Ticked
      <4>2. rxcomplete.slottimeout - 1 \in 1..SlotTimeout
        BY <4>1, ChannelAssumption DEF Window
      <4> QED BY <4>1, <4>2 DEF Window
    <3>2. rxcomplete = None => Ticked = None
      BY DEF Ticked
    <3> QED BY <3>1, <3>2, ChannelAssumption
  <2>3. \A c \in Calls : settled(c) = before(c)
    BY <2>1, <2>2, StageLess
  <2>4. CASE s = None \/ rxcomplete = None
    <3>1. \A c \in Calls : between(c) = before(c)
      BY <1>4, <2>2, <2>3, <2>4 DEF Refers
    <3>2. StagesBetween = Stages
      BY <1>1, <3>1, StagesStay
    <3> QED BY <3>2 DEF Service!Waits
  <2>5. CASE s # None /\ rxcomplete # None
    <3> DEFINE d == rxcomplete.data
    <3>1. d \in Calls /\ \A c \in Calls : Refers(Ticked, c) <=> c = d
      BY <1>2, <2>2, <2>5 DEF Refers
    <3>2. /\ \A c \in Calls \ {d} : between(c) = before(c)
          /\ before(d) = "asked" /\ between(d) = "none"
      BY <1>4, <2>3, <2>5, <3>1
    <3>3. d # call
      BY <2>5, <3>1, CallsAreNotNone DEF OutcomeInv, Order, Latest, Refers
    <3>4. Said = "ahoy"
      BY <2>5 DEF OutcomeInv, Rung, Said
    <3>5. Service!Moves(d, "asked", "none", Stages, StagesBetween)
      BY <1>1, <3>1, <3>2, StageMoves
    <3> QED BY <3>1, <3>3, <3>4, <3>5 DEF Service!Waits
  <2> QED BY <2>4, <2>5
<1> QED BY <1>5, <1>6

(* Taking the first word off the traffic queue leaves the CLEARs that lead *)
(* back behind it.                                                         *)
LEMMA RestartsLeft ==
  ASSUME Queued, TakesClear
  PROVE  Cardinality(Restarts') = Cardinality(Restarts)
                                    - (IF Head(txtrafqueue).next = 0 THEN 1 ELSE 0)
<1>1. /\ txtrafqueue \in Seq(ClearItem) /\ txtrafqueue # <<>>
      /\ Restarts' = {i \in DOMAIN Tail(txtrafqueue) : Tail(txtrafqueue)[i].next = 0}
  BY DEF Queued, TakesClear, Restarts
<1>2. /\ \A i \in Restarts \ {1} : i \in Nat /\ i - 1 \in Restarts'
      /\ \A i \in Restarts' : i \in Nat /\ i + 1 \in Restarts \ {1}
      /\ 1 \in Restarts <=> Head(txtrafqueue).next = 0
  <2>1. \A i \in DOMAIN txtrafqueue \ {1} :
          i \in Nat /\ i - 1 \in DOMAIN Tail(txtrafqueue) /\ Tail(txtrafqueue)[i - 1] = txtrafqueue[i]
    BY <1>1
  <2>2. /\ 1 \in DOMAIN txtrafqueue /\ txtrafqueue[1] = Head(txtrafqueue)
        /\ \A i \in DOMAIN Tail(txtrafqueue) :
             i \in Nat \ {0} /\ i + 1 \in DOMAIN txtrafqueue /\ Tail(txtrafqueue)[i] = txtrafqueue[i + 1]
    BY <1>1, Popped
  <2> QED BY <1>1, <2>1, <2>2 DEF Restarts
<1> DEFINE f == [i \in Restarts \ {1} |-> i - 1]
<1>3. f \in Bijection(Restarts \ {1}, Restarts')
  <2>1. f \in [Restarts \ {1} -> Restarts']
    BY <1>2
  <2>2. \A i, j \in Restarts \ {1} : f[i] = f[j] => i = j
    BY <1>2
  <2>3. \A i \in Restarts' : \E j \in Restarts \ {1} : f[j] = i
    <3> SUFFICES ASSUME NEW i \in Restarts' PROVE \E j \in Restarts \ {1} : f[j] = i
      OBVIOUS
    <3>1. i + 1 \in Restarts \ {1} /\ f[i + 1] = i
      BY <1>2
    <3> QED BY <3>1
  <2> QED BY <2>1, <2>2, <2>3, Fun_IsBij
<1>4. IsFiniteSet(Restarts) /\ Cardinality(Restarts) \in Nat
  BY RestartsFinite
<1>5. Cardinality(Restarts') = Cardinality(Restarts \ {1})
  <2>1. IsFiniteSet(Restarts \ {1})
    BY <1>4, FS_Subset
  <2>2. ExistsBijection(Restarts \ {1}, Restarts')
    BY <1>3, Fun_ExistsBij
  <2> QED BY <2>1, <2>2, FS_Bijection
<1>6. 1 \in Restarts => Cardinality(Restarts \ {1}) = Cardinality(Restarts) - 1
  BY <1>4, FS_RemoveElement
<1>7. 1 \notin Restarts => Cardinality(Restarts \ {1}) = Cardinality(Restarts)
  <2>1. 1 \notin Restarts => Restarts \ {1} = Restarts
    OBVIOUS
  <2> QED BY <2>1
<1> HIDE DEF f
<1>8. CASE Head(txtrafqueue).next = 0
  BY <1>2, <1>5, <1>6, <1>8
<1>9. CASE Head(txtrafqueue).next # 0
  BY <1>2, <1>4, <1>5, <1>7, <1>9
<1> QED BY <1>8, <1>9

(* Then an item is taken, or a word of the traffic channel, or nothing.    *)
LEMMA HalfSlotServes ==
  ASSUME OutcomeInv, HalfSlot
  PROVE  Service!HalfSlot
<1> DEFINE o == Opened(txreserveditem, Ticked)
           between(c) == StageIn(HalfQueue, None, o, carried, c)
           after(c) == StageIn(txqueue', txreserveditem', o, carried', c)
<1>1. /\ HalfQueue \in Seq(OutcomeItem) /\ rxcomplete' = o
      /\ TakesNone \/ TakesClear \/ TakesItem
  BY HalfSlotTakes DEF OutcomeInv
<1>2. UNCHANGED call
  BY DEF HalfSlot
<1>3. /\ StagesBetween \in [Calls -> Service!Stage] /\ Stages' \in [Calls -> Service!Stage]
      /\ \A c \in Calls : StagesBetween[c] = between(c) /\ Stages'[c] = after(c)
  BY <1>1, StagesAre, StagesInAre DEF StagesBetween
<1>4. /\ \A c \in Calls : Once(HalfQueue, None, o, carried, c)
      /\ call # None => Latest(HalfQueue, None, o, carried, call)
  <2>1. \A c \in Calls :
          LET s == txreserveditem k == carried IN
          /\ Once(txqueue, s, rxcomplete, k, c) => Once(HalfQueue, s, Ticked, k, c)
          /\ Once(txqueue, s, rxcomplete, k, c) /\ Latest(txqueue, s, rxcomplete, k, c)
               => Latest(HalfQueue, s, Ticked, k, c)
    BY TickSettles, SettledKeeps DEF OutcomeInv, Queued, HalfQueue
  <2>2. call \in Calls \cup {None}
    BY DEF OutcomeInv, TSCInv, GlobalsOK
  <2> QED BY <2>1, <2>2, OnceOpens, LatestOpens DEF OutcomeInv, Outcomes, Order
<1>5. Service!Waits(StagesBetween)
  BY TimeServes
<1>6. /\ carried \in Calls \cup {None}
      /\ carried # None <=> StateNow \in {2, 3}
  BY DEF OutcomeInv, TSCInv, GlobalsOK, Carrying
<1> HIDE DEF o
<1>7. CASE TakesNone
  <2>1. \A c \in Calls : after(c) = between(c)
    BY <1>7 DEF TakesNone
  <2>2. Stages' = StagesBetween
    BY <1>3, <2>1, StagesStay
  <2>3. Said' = "other" /\ UNCHANGED <<OnAir, Restarts>>
    BY <1>7, RestStays DEF TakesNone, Said, OnAir
  <2>4. Service!Pass(StagesBetween)
    BY <2>2, <2>3 DEF Service!Pass
  <2> QED BY <1>2, <1>3, <1>5, <2>4 DEF Service!HalfSlot
<1>8. CASE TakesClear
  <2>1. Said' = "other"
    <3>1. Head(txtrafqueue) \in ClearItem
      BY <1>8 DEF TakesClear, OutcomeInv, Queued
    <3> QED BY <1>8, <3>1 DEF TakesClear, ClearItem, Said
  <2>2. CASE Head(txtrafqueue).next # 0
    <3>1. \A c \in Calls : after(c) = between(c)
      BY <1>8, <2>2 DEF TakesClear
    <3>2. Stages' = StagesBetween
      BY <1>3, <3>1, StagesStay
    <3>3. UNCHANGED OnAir
      BY <1>8, <2>2 DEF TakesClear, OnAir
    <3>4. UNCHANGED Cardinality(Restarts)
      <4>1. Cardinality(Restarts) \in Nat
        BY RestartsFinite DEF OutcomeInv
      <4> QED BY <1>8, <2>2, <4>1, RestartsLeft DEF OutcomeInv
    <3>5. Service!Pass(StagesBetween)
      BY <2>1, <3>2, <3>3, <3>4 DEF Service!Pass
    <3> QED BY <1>2, <1>3, <1>5, <3>5 DEF Service!HalfSlot
  <2>3. CASE Head(txtrafqueue).next = 0
    <3>1. carried \in Calls /\ OnAir = "traffic" /\ OnAir' = "control"
      BY <1>6, <1>8, <2>3 DEF TakesClear, OnAir
    <3>2. \A c \in Calls \ {carried} : after(c) = between(c)
      BY <1>8, <2>3, CallsAreNotNone DEF TakesClear, StageIn
    <3>3. between(carried) = "carried" /\ after(carried) = "none"
      <4>1. ~HasPlace(HalfQueue, None, o, None, carried)
        BY <1>4, <3>1, CallsAreNotNone DEF Once, HasPlace, Refers
      <4>2. Once(HalfQueue, None, o, None, carried)
        BY <1>4, <3>1, OnceLess DEF Less
      <4>3. after(carried) = "none"
        BY <1>1, <1>8, <2>3, <3>1, <4>1, <4>2, StagesApart DEF TakesClear
      <4> QED BY <4>3 DEF StageIn
    <3>4. Service!Moves(carried, "carried", "none", StagesBetween, Stages')
      BY <1>3, <3>1, <3>2, <3>3, StageMoves
    <3>5. Cardinality(Restarts) > 0 /\ Cardinality(Restarts)' = Cardinality(Restarts) - 1
      <4>1. Cardinality(Restarts') = Cardinality(Restarts) - 1
        BY <1>8, <2>3, RestartsLeft DEF OutcomeInv
      <4>2. IsFiniteSet(Restarts) /\ Cardinality(Restarts) \in Nat
        BY RestartsFinite DEF OutcomeInv
      <4>3. 1 \in Restarts
        BY <1>8, <2>3, Popped DEF TakesClear, Restarts, OutcomeInv, Queued
      <4> QED BY <4>1, <4>2, <4>3, FS_EmptySet
    <3>6. Service!Restart(carried, StagesBetween)
      BY <2>1, <3>1, <3>4, <3>5 DEF Service!Restart
    <3> QED BY <1>2, <1>3, <1>5, <3>1, <3>6 DEF Service!HalfSlot
  <2> QED BY <2>2, <2>3
<1>9. CASE TakesItem
  <2> DEFINE h == Head(HalfQueue)
  <2>1. /\ HalfQueue # <<>> /\ h \in OutcomeItem
        /\ carried = None /\ OnAir = "control"
        /\ 1 \in DOMAIN HalfQueue /\ HalfQueue[1] = h
    BY <1>1, <1>6, <1>9, Popped DEF TakesItem, OnAir
  <2>2. /\ Said' = IF h.cw = "AHY" THEN "ahoy"
                   ELSE IF h.cw = "ACKV" THEN "refusal" ELSE "other"
        /\ OnAir' = IF h.next = 2 THEN "traffic" ELSE "control"
        /\ UNCHANGED Restarts
    BY <1>9, RestStays DEF TakesItem, Said, OnAir
  <2>3. \A c \in Calls :
          IF Refers(h, c) /\ h.cw = "ACKV" THEN between(c) = "refused" /\ after(c) = "none"
          ELSE IF Refers(h, c) /\ h.next = 2 THEN between(c) = "granted" /\ after(c) = "carried"
          ELSE /\ after(c) = between(c)
               /\ Refers(h, c) /\ h.cw = "AHY" => between(c) = "asked"
    BY <1>1, <1>4, <1>9, <2>1, StagePops DEF TakesItem
  <2>4. /\ h # None
        /\ h.cw \in {"AHY", "ACKV"} \/ h.next = 2 => h.data \in Calls
        /\ h.cw \in {"AHY", "ACKV"} => h.next # 2
        /\ \A c : Refers(h, c) <=> c = h.data
    <3>1. h # None
      BY <2>1, OutcomeItems, ChannelAssumption
    <3>2. h.cw \in {"AHY", "ACKV"} => h.next # 2
      BY <2>1, ChannelAssumption DEF OutcomeItem
    <3>3. h.cw \in {"AHY", "ACKV"} \/ h.next = 2 => h.data \in Calls
      BY <2>1 DEF OutcomeItem, CallItem
    <3> QED BY <3>1, <3>2, <3>3 DEF Refers
  <2> HIDE DEF h
  <2>5. CASE h.cw = "AHY"
    <3>1. \A c \in Calls : after(c) = between(c)
      BY <2>3, <2>4, <2>5
    <3>2. Stages' = StagesBetween
      BY <1>3, <3>1, StagesStay
    <3>3. h.data \in Calls /\ StagesBetween[h.data] = "asked"
      BY <1>3, <2>3, <2>4, <2>5
    <3>4. Service!Ring(h.data, StagesBetween)
      BY <2>1, <2>2, <2>4, <2>5, <3>2, <3>3 DEF Service!Ring
    <3> QED BY <1>2, <1>3, <1>5, <3>3, <3>4 DEF Service!HalfSlot
  <2>6. CASE h.cw = "ACKV"
    <3>1. h.data \in Calls /\ \A c \in Calls \ {h.data} : after(c) = between(c)
      BY <2>3, <2>4, <2>6
    <3>2. between(h.data) = "refused" /\ after(h.data) = "none"
      BY <2>3, <2>4, <2>6
    <3>3. Service!Moves(h.data, "refused", "none", StagesBetween, Stages')
      BY <1>3, <3>1, <3>2, StageMoves
    <3>4. Service!Refuse(h.data, StagesBetween)
      BY <2>1, <2>2, <2>4, <2>6, <3>3 DEF Service!Refuse
    <3> QED BY <1>2, <1>3, <1>5, <3>1, <3>4 DEF Service!HalfSlot
  <2>7. CASE h.next = 2
    <3>1. h.data \in Calls /\ h.cw \notin {"AHY", "ACKV"}
      BY <2>4, <2>7
    <3>2. \A c \in Calls \ {h.data} : after(c) = between(c)
      BY <2>3, <2>4, <2>7
    <3>3. between(h.data) = "granted" /\ after(h.data) = "carried"
      BY <2>3, <2>4, <2>7, <3>1
    <3>4. Service!Moves(h.data, "granted", "carried", StagesBetween, Stages')
      BY <1>3, <3>1, <3>2, <3>3, StageMoves
    <3>5. ASSUME h.data = call, NEW d \in Calls \ {h.data}
          PROVE  StagesBetween[d] = "none"
      <4>1. Decisive(h, call)
        BY <2>4, <2>7, <3>5 DEF Decisive
      <4>2. /\ o = None
            /\ \A j \in DOMAIN HalfQueue : Decisive(HalfQueue[j], d) => j <= 1
        BY <1>4, <2>1, <3>1, <3>5, <4>1, CallsAreNotNone DEF Latest
      <4>3. NoneFor(HalfQueue, d)
        <5>1. \A j \in DOMAIN HalfQueue : j \in Nat \ {0}
          BY <1>1
        <5>2. \A j \in DOMAIN HalfQueue : j <= 1 => j = 1
          BY <5>1
        <5> QED BY <2>1, <2>4, <4>2, <5>2 DEF NoneFor, Decisive
      <4>4. ~HasPlace(HalfQueue, None, o, carried, d)
        BY <2>1, <4>2, <4>3, CallsAreNotNone DEF HasPlace, Refers
      <4>5. between(d) = "none"
        BY <1>1, <1>4, <4>4, StagesApart
      <4> QED BY <1>3, <4>5
    <3>6. Service!Carry(h.data, StagesBetween)
      BY <2>1, <2>2, <2>7, <3>1, <3>4, <3>5 DEF Service!Carry
    <3> QED BY <1>2, <1>3, <1>5, <3>1, <3>6 DEF Service!HalfSlot
  <2>8. CASE h.cw \notin {"AHY", "ACKV"} /\ h.next # 2
    <3>1. \A c \in Calls : after(c) = between(c)
      BY <2>3, <2>8
    <3>2. Stages' = StagesBetween
      BY <1>3, <3>1, StagesStay
    <3>3. Service!Pass(StagesBetween)
      BY <2>1, <2>2, <2>8, <3>2 DEF Service!Pass
    <3> QED BY <1>2, <1>3, <1>5, <3>3 DEF Service!HalfSlot
  <2> QED BY <2>5, <2>6, <2>7, <2>8
<1> QED BY <1>1, <1>7, <1>8, <1>9

LEMMA ServiceInit == TSCInit => Service!Init
<1> SUFFICES ASSUME TSCInit PROVE Service!Init
  OBVIOUS
<1> USE ChannelAssumption DEF TSCInit, ChannelInit
<1>1. Stages = [c \in Calls |-> "none"]
  BY CallsAreNotNone DEF Stages, StageOf, Granted, Refused, Undecided, Refers
<1>2. OnAir = "control" /\ Said = "other"
  BY TSCAssumption DEF OnAir, StateNow, Said
<1>3. Restarts = {}
  BY DEF Restarts
<1> QED BY <1>1, <1>2, <1>3, FS_EmptySet DEF Service!Init

LEMMA ServiceStep ==
  OutcomeInv /\ OutcomeInv' /\ [TSCNext]_allvars
    => [Service!Next]_(Service!servicevars)
<1> SUFFICES ASSUME OutcomeInv, OutcomeInv', [TSCNext]_allvars
             PROVE  Service!Next \/ UNCHANGED Service!servicevars
  OBVIOUS
<1>1. CASE HalfSlot
  BY <1>1, HalfSlotServes DEF Service!Next
<1>2. ASSUME NEW cw \in RxWords, Reply(cw)
      PROVE  Service!Next \/ UNCHANGED Service!servicevars
  BY <1>2, ReplyServes
<1>3. ASSUME NEW c \in Calls, CreateCall(c) PROVE Service!Next
  BY <1>3, CreateCallServes DEF Service!Next
<1>4. ASSUME NEW b \in {Rejected, <<>>}, RandomAccess(b, <<>>), UNCHANGED <<carried, call>>
      PROVE  UNCHANGED Service!servicevars
  <2>1. <<>> \in Seq(ClearItem) /\ b \in Seq(OutcomeItem)
    BY OutcomeBursts
  <2>2. UNCHANGED <<Stages, OnAir, Said>>
    BY <1>4, <2>1, QuietAccessServes
  <2>3. txtrafqueue' = txtrafqueue \o <<>> /\ txtrafqueue \in Seq(ClearItem)
    BY <1>4, <2>1, AccessQueues DEF OutcomeInv, Queued
  <2>4. UNCHANGED Restarts
    BY <2>3, RestStays
  <2> QED BY <1>4, <2>2, <2>4 DEF Service!servicevars
<1>5. Busy \/ Refuse \/ Ignore \/ (\E on \in BOOLEAN : Presel(on))
        => UNCHANGED Service!servicevars
  BY <1>4 DEF Busy, Refuse, Ignore, Presel, tscvars
<1>6. CASE Disconnect
  BY <1>6, DisconnectServes DEF Service!Next
<1>7. CASE MorseTaken \/ IdentSent \/ Operator \/ UNCHANGED allvars
  <2>1. UNCHANGED <<queues, txreserveditem, rxcomplete, lastcw, carried, call>>
    BY <1>7 DEF MorseTaken, IdentSent, Operator, TxMorseClear, MorseDone, SetMorse,
       allvars, chvars, txvars, rxvars, tscvars
  <2>2. UNCHANGED Stages
    BY <2>1, StagesAre DEF queues
  <2>3. UNCHANGED OnAir
    BY <2>1, OnAirStays DEF OutcomeInv
  <2> QED BY <2>1, <2>2, <2>3, RestStays DEF Service!servicevars, queues
<1> QED
  BY <1>1, <1>2, <1>3, <1>5, <1>6, <1>7 DEF TSCNext, Transmitter

(* The controller gives the service that its parties rely on (tsc.py lines *)
(* 29-102): a call goes from stage to stage and never back, fails with a   *)
(* word to the caller, is carried alone, behind those given up, and ends by*)
(* the CLEARs of a hang-up, which end no second one.                       *)
THEOREM ImplementsService == TSCSpec => ServiceSpec
<1>1. TSCSpec => Service!Init /\ [][Service!Next]_(Service!servicevars)
  BY ServiceInit, ServiceStep, OutcomesCorrect, PTL DEF TSCSpec
<1> QED BY <1>1 DEF ServiceSpec, Service!Spec

-----------------------------------------------------------------------------
(* Nobody is kept waiting.  No message of tsc.py solicits more than one    *)
(* codeword, so no slot behind it is withdrawn.                            *)

BriefItem == {item \in Item : item.rxlen <= 1}

Brief == txreserved <= 1 /\ txqueue \in Seq(BriefItem)

(* What is waited for, of the three places where a call may be waiting.    *)
Due(item) == IF item.cw = "AHY" THEN SlotTimeout + 1 ELSE 0

Behind(n, q, c) == \E i \in DOMAIN q : Decisive(q[i], c) /\ n = i + Due(q[i])

WaitIn(n, q, s, o, c) ==
  \/ Behind(n, q, c)
  \/ Refers(s, c) /\ n = SlotTimeout + 1
  \/ Refers(o, c) /\ n = o.slottimeout

LEMMA WaitsAre ==
  ASSUME NEW c
  PROVE  /\ \A n : n \in Waits(c) <=> WaitIn(n, txqueue, txreserveditem, rxcomplete, c)
         /\ \A n : n \in Waits(c)'
                     <=> WaitIn(n, txqueue', txreserveditem', rxcomplete', c)
<1>1. \A n : n \in Waits(c) <=> WaitIn(n, txqueue, txreserveditem, rxcomplete, c)
  BY DEF Waits, WaitIn, Behind, Due
<1>2. \A n : n \in Waits(c)' <=> WaitIn(n, txqueue', txreserveditem', rxcomplete', c)
  BY DEF Waits, WaitIn, Behind, Due, Decisive, Refers
<1> QED BY <1>1, <1>2

LEMMA BehindJoined ==
  ASSUME NEW q \in Seq(Item), NEW b \in Seq(Item), NEW c, NoneFor(b, c)
  PROVE  \A n : Behind(n, q \o b, c) => Behind(n, q, c)
<1>1. \A i \in DOMAIN (q \o b) :
        Decisive((q \o b)[i], c) => i \in DOMAIN q /\ (q \o b)[i] = q[i]
  BY Joined DEF NoneFor
<1> QED BY <1>1 DEF Behind

LEMMA BehindPopped ==
  ASSUME NEW q \in Seq(Item), q # <<>>, NEW c
  PROVE  /\ \A n : Behind(n, Tail(q), c) => \E m : Behind(m, q, c) /\ n < m
         /\ Decisive(Head(q), c) => Behind(1 + Due(Head(q)), q, c)
<1>1. /\ 1 \in DOMAIN q /\ q[1] = Head(q)
      /\ \A i \in DOMAIN Tail(q) :
           i \in Nat \ {0} /\ i + 1 \in DOMAIN q /\ Tail(q)[i] = q[i + 1]
  BY Popped
<1>2. \A item : Due(item) \in Nat
  BY ChannelAssumption DEF Due
<1>3. ASSUME NEW n, Behind(n, Tail(q), c) PROVE \E m : Behind(m, q, c) /\ n < m
  <2>1. PICK i \in DOMAIN Tail(q) : Decisive(Tail(q)[i], c) /\ n = i + Due(Tail(q)[i])
    BY <1>3 DEF Behind
  <2>2. i \in Nat /\ i + 1 \in DOMAIN q /\ Tail(q)[i] = q[i + 1]
    BY <1>1
  <2>3. Behind((i + 1) + Due(q[i + 1]), q, c)
    BY <2>1, <2>2 DEF Behind
  <2>4. n < (i + 1) + Due(q[i + 1])
    BY <1>2, <2>1, <2>2
  <2> QED BY <2>3, <2>4
<1>4. Decisive(Head(q), c) => Behind(1 + Due(Head(q)), q, c)
  BY <1>1 DEF Behind
<1> QED BY <1>3, <1>4

LEMMA BriefBursts ==
  /\ Rejected \in Seq(BriefItem) /\ <<>> \in Seq(BriefItem)
  /\ \A c \in Calls : /\ Ahoy(c) \in Seq(BriefItem)
                      /\ Unavailable(c) \in Seq(BriefItem)
                      /\ Grant(c) \in Seq(BriefItem)
<1>1. ASSUME NEW b \in Seq(OutcomeItem), \A i \in DOMAIN b : b[i].rxlen <= 1
      PROVE  b \in Seq(BriefItem)
  <2>1. b \in Seq(Item)
    BY OutcomeItems
  <2> QED BY <1>1, <2>1 DEF BriefItem
<1>2. \A i \in DOMAIN Rejected : Rejected[i].rxlen <= 1
  BY DEF Rejected, Message
<1>3. ASSUME NEW c \in Calls
      PROVE  /\ \A i \in DOMAIN Ahoy(c) : Ahoy(c)[i].rxlen <= 1
             /\ \A i \in DOMAIN Unavailable(c) : Unavailable(c)[i].rxlen <= 1
             /\ \A i \in DOMAIN Grant(c) : Grant(c)[i].rxlen <= 1
  <2>1. \A i \in DOMAIN Ahoy(c) : Ahoy(c)[i].rxlen <= 1
    BY DEF Ahoy
  <2>2. \A i \in DOMAIN Unavailable(c) : Unavailable(c)[i].rxlen <= 1
    BY DEF Unavailable, Message
  <2>3. \A i \in DOMAIN Grant(c) : Grant(c)[i].rxlen <= 1
    <3>1. DOMAIN Grant(c) = {1, 2} /\ Grant(c)[1].rxlen = 0 /\ Grant(c)[2].rxlen = 0
      BY DEF Grant, Message
    <3> QED BY <3>1
  <2> QED BY <2>1, <2>2, <2>3
<1>4. \A c \in Calls : /\ Ahoy(c) \in Seq(BriefItem)
                      /\ Unavailable(c) \in Seq(BriefItem)
                      /\ Grant(c) \in Seq(BriefItem)
  BY <1>1, <1>3, OutcomeBursts
<1>5. Rejected \in Seq(BriefItem) /\ <<>> \in Seq(BriefItem)
  BY <1>1, <1>2, OutcomeBursts
<1> QED BY <1>4, <1>5

LEMMA BriefQueue ==
  ASSUME NEW q \in Seq(BriefItem), NEW b \in Seq(BriefItem)
  PROVE  /\ q \o b \in Seq(BriefItem)
         /\ q # <<>> => Head(q) \in BriefItem /\ Tail(q) \in Seq(BriefItem)
OBVIOUS

LEMMA BriefStep == TSCInv /\ Queued /\ Brief /\ [TSCNext]_allvars => Brief'
<1> SUFFICES ASSUME TSCInv, Queued, Brief, [TSCNext]_allvars PROVE Brief'
  OBVIOUS
<1>1. CASE HalfSlot
  <2>1. TimedOut \in Seq(BriefItem) /\ TxCv(TimedOut)
    <3>1. Expires => rxcomplete.data \in Calls
      BY DEF Expires, TSCInv, WindowsHaveCalls
    <3> QED BY <1>1, <3>1, BriefBursts DEF TimedOut, HalfSlot
  <2>2. /\ HalfQueue \in Seq(BriefItem)
        /\ HalfQueue # <<>> =>
             Head(HalfQueue) \in BriefItem /\ Tail(HalfQueue) \in Seq(BriefItem)
    <3>1. HalfQueue \in Seq(BriefItem)
      BY <2>1, BriefQueue DEF Brief, HalfQueue
    <3> QED BY <2>1, <3>1, BriefQueue
  <2>3. txqueue' \in Seq(BriefItem)
    BY <1>1, <2>2, HalfSlotTakes DEF TakesNone, TakesClear, TakesItem
  <2>4. txreserved \in Nat /\ txreserved <= 1
    BY ChannelAssumption DEF TSCInv, ChannelInv, TypeOK, Brief
  <2>5. CASE TxQueued(TimedOut)
    <3>1. txreserved' = Head(HalfQueue).rxlen /\ HalfQueue # <<>>
      BY <2>5 DEF TxQueued, Send, HalfQueue
    <3> QED BY <2>2, <2>3, <3>1 DEF Brief, BriefItem
  <2>6. CASE TxTrafficWord(TimedOut)
    <3>1. Head(txtrafqueue) \in ClearItem /\ txreserved' = Head(txtrafqueue).rxlen
      BY <2>6 DEF TxTrafficWord, Send, Queued
    <3> QED BY <2>3, <3>1 DEF Brief, ClearItem
  <2>7. CASE ~TxQueued(TimedOut) /\ ~TxTrafficWord(TimedOut)
    <3>1. txreserved' \in {txreserved, Unreserved, 0}
      BY <2>1, <2>7 DEF TxCv, TxSync, TxMorse, TxWithdrawn, TxAloha,
         TxTrafficIdle, TxTrafficSync, TxIdent
    <3>2. Unreserved <= 1
      BY <2>4 DEF Unreserved
    <3> QED BY <2>3, <2>4, <3>1, <3>2 DEF Brief
  <2> QED BY <2>5, <2>6, <2>7
<1>2. ASSUME NEW cw \in RxWords, Reply(cw) PROVE Brief'
  <2>1. UNCHANGED txreserved
    BY <1>2 DEF Reply, RxRaises, RxLast, txvars
  <2>2. CASE RxRaises(cw)
    BY <2>1, <2>2 DEF RxRaises, queues, Brief
  <2>3. ASSUME NEW first, RxLast(Answered(first)) PROVE Brief'
    <3>1. rxcomplete.data \in Calls
      BY <1>2 DEF Reply, TSCInv, WindowsHaveCalls
    <3>2. Answered(first) \in Seq(BriefItem)
      BY <3>1, BriefBursts DEF Answered
    <3> QED BY <2>1, <2>3, <3>2, BriefQueue DEF RxLast, Brief
  <2> QED BY <1>2, <2>2, <2>3 DEF Reply
<1>3. CASE MorseTaken \/ IdentSent \/ Operator \/ UNCHANGED allvars
  BY <1>3 DEF MorseTaken, IdentSent, Operator, TxMorseClear, MorseDone, SetMorse,
     allvars, chvars, txvars, queues, Brief
<1>4. ASSUME NEW b \in Seq(BriefItem), NEW t, RandomAccess(b, t) PROVE Brief'
  BY <1>4, BriefQueue DEF RandomAccess, Submit, txvars, Brief
<1> QED
  BY <1>1, <1>2, <1>3, <1>4, BriefBursts
  DEF TSCNext, Transmitter, CreateCall, Busy, Refuse, Ignore, Presel, Disconnect

LEMMA AlwaysBrief == TSCSpec => []Brief
<1>1. TSCInit => Brief
  BY BriefBursts DEF TSCInit, ChannelInit, Brief
<1>2. TSCInv /\ Queued /\ Brief /\ [TSCNext]_allvars => Brief'
  BY BriefStep
<1>3. TSCSpec => [](TSCInv /\ Queued)
  <2>1. OutcomeInv => TSCInv /\ Queued
    BY DEF OutcomeInv
  <2> QED BY <2>1, OutcomesCorrect, PTL
<1> QED BY <1>1, <1>2, <1>3, PTL DEF TSCSpec

LEMMA TailDiffers ==
  ASSUME NEW S, NEW q \in Seq(S), q # <<>>
  PROVE  Tail(q) # q
<1>1. Len(Tail(q)) # Len(q)
  OBVIOUS
<1> QED BY <1>1, Zenon

(* With no slot withdrawn, a control slot takes the first item queued.     *)
LEMMA SlotTakesItem ==
  ASSUME TSCInv, Queued, Brief, HalfSlot, StateNow = 1, HalfQueue # <<>>
  PROVE  TakesItem
<1>1. Unreserved = 0
  BY ChannelAssumption DEF Unreserved, Brief, TSCInv, ChannelInv, TypeOK
<1>2. TxQueued(TimedOut)
  BY <1>1 DEF HalfSlot, TxCv, TxSync, TxMorse, TxWithdrawn, TxAloha,
     TxTrafficIdle, TxTrafficSync, TxTrafficWord, TxIdent, Begin, HalfQueue
<1>3. HalfQueue \in Seq(OutcomeItem) /\ (TakesNone \/ TakesClear \/ TakesItem)
  BY HalfSlotTakes
<1>4. txqueue' = Tail(HalfQueue)
  BY <1>2 DEF TxQueued, HalfQueue
<1>5. ~TakesNone
  <2>1. Tail(HalfQueue) # HalfQueue
    BY <1>3, TailDiffers
  <2> QED BY <1>4, <2>1 DEF TakesNone
<1>6. ~TakesClear
  BY DEF TakesClear
<1> QED BY <1>3, <1>5, <1>6

(* A time-out moves its call on to its refusal.                            *)
LEMMA TimeOutRefuses ==
  ASSUME OutcomeInv, HalfSlot, Expires, NEW c \in Calls, Refers(rxcomplete, c)
  PROVE  StageOf(c) = "asked" /\ StageOf(c)' # "asked"
<1> DEFINE after == StageIn(txqueue', txreserveditem', rxcomplete', carried', c)
<1>1. /\ Once(txqueue, txreserveditem, rxcomplete, carried, c)
      /\ txqueue \in Seq(OutcomeItem)
  BY DEF OutcomeInv, Outcomes, Queued
<1>2. StageOf(c) = "asked"
  BY <1>1, StageIsIn, StagesApart
<1>3. NoneFor(txqueue, c) /\ ~Refers(txreserveditem, c)
  BY <1>1 DEF Once
<1>4. /\ HalfQueue \in Seq(OutcomeItem) /\ rxcomplete' = Opened(txreserveditem, Ticked)
      /\ TakesNone \/ TakesClear \/ TakesItem
  BY HalfSlotTakes DEF OutcomeInv
<1>5. TimedOut = Unavailable(c) /\ Ticked = None
  BY DEF TimedOut, Ticked, Refers
<1>6. ~Refers(rxcomplete', c)
  BY <1>3, <1>4, <1>5 DEF Opened, Refers
<1>7. ~Ringing(HalfQueue, c)
  <2>1. ~Ringing(txqueue, c)
    BY <1>3 DEF NoneFor, Decisive, Ringing
  <2> QED BY <1>1, <1>5, <2>1, MarksJoined, BurstMarks, OutcomeBursts DEF HalfQueue
<1>8. ~Ringing(txqueue', c) /\ ~Refers(txreserveditem', c)
  <2>1. CASE TakesItem
    <3>1. HalfQueue # <<>> /\ Head(HalfQueue) \in OutcomeItem
      BY <1>4, <2>1, Popped DEF TakesItem
    <3>2. ~Ringing(Tail(HalfQueue), c)
          /\ ~(Head(HalfQueue).cw = "AHY" /\ Refers(Head(HalfQueue), c))
      BY <1>4, <1>7, <3>1, MarksPopped
    <3>3. ~Refers(WindowOf(Head(HalfQueue)), c)
      BY <3>1, <3>2, SentRefers DEF Decisive
    <3> QED BY <2>1, <3>2, <3>3 DEF TakesItem
  <2>2. CASE ~TakesItem
    BY <1>4, <1>7, <2>2 DEF TakesNone, TakesClear, Refers
  <2> QED BY <2>1, <2>2
<1>9. StageOf(c)' = after
  BY DEF StageOf, StageIn, Granted, Refused, Undecided, Ringing, Refusing, Granting, Refers
<1>10. after # "asked"
  BY <1>6, <1>8 DEF StageIn
<1> HIDE DEF after
<1> QED BY <1>2, <1>9, <1>10

(* A time-out leaves what other calls wait for where it is.                *)
LEMMA HalfSlotQueue ==
  ASSUME OutcomeInv, HalfSlot, NEW c \in Calls, StageOf(c)' = StageOf(c)
  PROVE  \A m : Behind(m, HalfQueue, c) => Behind(m, txqueue, c)
<1>1. txqueue \in Seq(Item) /\ TimedOut \in Seq(Item)
  BY TickSettles, OutcomeItems DEF OutcomeInv, Queued
<1>2. NoneFor(TimedOut, c)
  <2>1. CASE Expires
    <3>1. ~Refers(rxcomplete, c) /\ rxcomplete.data \in Calls
      BY <2>1, TimeOutRefuses DEF OutcomeInv, TSCInv, WindowsHaveCalls, Expires
    <3> QED BY <2>1, <3>1, BurstsDecide DEF TimedOut, Refers, Expires
  <2>2. CASE ~Expires
    BY <2>2, BurstsDecide DEF TimedOut
  <2> QED BY <2>1, <2>2
<1> QED BY <1>1, <1>2, BehindJoined DEF HalfQueue

(* One half slot: what the call waits for in the queue, ...                *)
LEMMA HalfSlotBehind ==
  ASSUME OutcomeInv, Brief, HalfSlot, NEW c \in Calls,
         StageOf(c)' = StageOf(c), NEW n, Behind(n, txqueue', c)
  PROVE  \/ \E m : Behind(m, txqueue, c) /\ n < m
         \/ Behind(n, txqueue, c) /\ StateNow # 1 /\ ~Windowed(c)
<1>1. /\ HalfQueue \in Seq(Item)
      /\ TakesNone \/ TakesClear \/ TakesItem
  BY HalfSlotTakes, OutcomeItems DEF OutcomeInv
<1>2. \A m : Behind(m, HalfQueue, c) => Behind(m, txqueue, c)
  BY HalfSlotQueue
<1>3. CASE TakesItem
  BY <1>1, <1>2, <1>3, BehindPopped DEF TakesItem
<1>4. CASE ~TakesItem
  <2>1. Behind(n, HalfQueue, c)
    BY <1>1, <1>4 DEF TakesNone, TakesClear
  <2>2. HalfQueue # <<>>
    BY <2>1 DEF Behind
  <2>3. StateNow # 1
    BY <1>4, <2>2, SlotTakesItem DEF OutcomeInv
  <2>4. ~NoneFor(txqueue, c)
    BY <1>2, <2>1 DEF Behind, NoneFor
  <2>5. ~Windowed(c)
    BY <2>4 DEF Windowed, OutcomeInv, Outcomes, Once
  <2> QED BY <1>2, <2>1, <2>3, <2>5
<1> QED BY <1>3, <1>4

(* ... and in a window.                                                    *)
LEMMA HalfSlotWindow ==
  ASSUME OutcomeInv, Brief, HalfSlot, NEW c \in Calls,
         StageOf(c)' = StageOf(c), NEW n,
         \/ Refers(txreserveditem', c) /\ n = SlotTimeout + 1
         \/ Refers(rxcomplete', c) /\ n = rxcomplete'.slottimeout
  PROVE  \E m : WaitIn(m, txqueue, txreserveditem, rxcomplete, c) /\ n < m
<1>0. SlotTimeout \in Nat
  BY ChannelAssumption
<1>1. /\ HalfQueue \in Seq(OutcomeItem) /\ rxcomplete' = Opened(txreserveditem, Ticked)
      /\ TakesNone \/ TakesClear \/ TakesItem
  BY HalfSlotTakes DEF OutcomeInv
<1>2. CASE Refers(txreserveditem', c) /\ n = SlotTimeout + 1
  <2>1. TakesItem
    BY <1>1, <1>2 DEF TakesNone, TakesClear, Refers
  <2>2. /\ HalfQueue # <<>> /\ Head(HalfQueue) \in OutcomeItem
        /\ txqueue' = Tail(HalfQueue)
        /\ txreserveditem' = WindowOf(Head(HalfQueue))
    BY <1>1, <2>1, Popped DEF TakesItem
  <2>3. Decisive(Head(HalfQueue), c) /\ Head(HalfQueue).cw = "AHY"
    BY <1>2, <2>2, SentRefers
  <2>4. Behind(1 + (SlotTimeout + 1), HalfQueue, c)
    BY <1>1, <2>2, <2>3, OutcomeItems, BehindPopped DEF Due
  <2>5. Behind(1 + (SlotTimeout + 1), txqueue, c)
    BY <2>4, HalfSlotQueue
  <2> QED BY <1>0, <1>2, <2>5 DEF WaitIn
<1>3. CASE Refers(rxcomplete', c) /\ n = rxcomplete'.slottimeout
  <2>1. /\ txreserveditem # None => txreserveditem \in Window
        /\ rxcomplete # None => rxcomplete \in Window
    BY DEF OutcomeInv, TSCInv, ChannelInv, TypeOK
  <2>2. CASE txreserveditem # None
    <3>1. rxcomplete' = txreserveditem
      BY <1>1, <2>2 DEF Opened
    <3>2. Refers(txreserveditem, c) /\ n <= SlotTimeout /\ n \in Nat
      BY <1>0, <1>3, <2>1, <2>2, <3>1 DEF Window
    <3>3. n < SlotTimeout + 1
      BY <1>0, <3>2
    <3> QED BY <3>2, <3>3 DEF WaitIn
  <2>3. CASE txreserveditem = None
    <3>1. Refers(Ticked, c) /\ n = Ticked.slottimeout
      BY <1>1, <1>3, <2>3 DEF Opened
    <3>2. rxcomplete # None /\ ~Expires
      BY <3>1 DEF Ticked, Refers
    <3>3. Refers(rxcomplete, c) /\ n = rxcomplete.slottimeout - 1
      BY <2>1, <3>1, <3>2 DEF Ticked, Refers, Window
    <3>4. n < rxcomplete.slottimeout
      BY <2>1, <3>2, <3>3 DEF Window
    <3> QED BY <3>3, <3>4 DEF WaitIn
  <2> QED BY <2>2, <2>3
<1> QED BY <1>2, <1>3

(* Whatever happens besides half slots, short of an answer that cannot be  *)
(* decoded, keeps the items and the windows of a call whose stage stays.   *)
LEMMA AccessWaits ==
  ASSUME OutcomeInv, NEW c \in Calls, NEW b \in Seq(OutcomeItem), NoneFor(b, c),
         NEW t \in Seq(ClearItem), RandomAccess(b, t), NEW n \in Waits(c)'
  PROVE  n \in Waits(c)
<1>1. /\ txqueue' = txqueue \o b
      /\ UNCHANGED <<txreserveditem, rxcomplete>>
  BY AccessQueues DEF OutcomeInv, txvars, rxvars
<1>2. txqueue \in Seq(Item) /\ b \in Seq(Item)
  BY OutcomeItems DEF OutcomeInv, Queued
<1>3. WaitIn(n, txqueue', txreserveditem', rxcomplete', c)
  BY WaitsAre
<1>4. WaitIn(n, txqueue, txreserveditem, rxcomplete, c)
  BY <1>1, <1>2, <1>3, BehindJoined DEF WaitIn
<1> QED BY <1>4, WaitsAre

LEMMA CreateCallWaits ==
  ASSUME OutcomeInv, NEW c \in Calls, NEW d \in Calls, CreateCall(d),
         StageOf(c)' = StageOf(c), NEW n \in Waits(c)'
  PROVE  n \in Waits(c)
<1>1. /\ Ahoy(d) \in Seq(OutcomeItem) /\ <<>> \in Seq(ClearItem)
      /\ RandomAccess(Ahoy(d), <<>>)
  BY OutcomeBursts DEF CreateCall
<1>2. CASE c # d
  BY <1>1, <1>2, BurstsDecide, AccessWaits
<1>3. CASE c = d
  <2>1. txqueue \in Seq(OutcomeItem) /\ txqueue' = txqueue \o Ahoy(c)
    BY <1>1, <1>3, AccessQueues DEF OutcomeInv, Queued
  <2>2. Ringing(txqueue', c)
    BY <1>1, <1>3, <2>1, MarksJoined, BurstMarks
  <2>3. StageOf(c)' # "none"
    BY <2>2 DEF StageOf, Undecided, Ringing
  <2>4. ~HasPlace(txqueue, txreserveditem, rxcomplete, carried, c)
    BY <1>3 DEF CreateCall, Unused, HasPlace, NoneFor, Decisive
  <2>5. StageOf(c) = "none"
    BY <2>1, <2>4, StageIsIn, StagesApart DEF OutcomeInv, Outcomes
  <2> QED BY <2>3, <2>5
<1> QED BY <1>2, <1>3

LEMMA ReplyWaits ==
  ASSUME OutcomeInv, NEW c \in Calls, NEW cw \in RxWords, Reply(cw),
         StageOf(c)' = StageOf(c), NEW n \in Waits(c)'
  PROVE  n \in Waits(c) \/ (Refers(rxcomplete, c) /\ RxRaises(cw))
<1>1. /\ rxcomplete # None /\ rxcomplete \in Window /\ rxcomplete.data \in Calls
      /\ txqueue \in Seq(OutcomeItem)
      /\ Once(txqueue, txreserveditem, rxcomplete, carried, c)
  BY DEF Reply, OutcomeInv, TSCInv, ChannelInv, TypeOK, WindowsHaveCalls, Queued, Outcomes
<1>2. UNCHANGED <<txreserveditem, carried>>
  BY DEF Reply, RxRaises, RxLast, txvars, tscvars
<1>3. WaitIn(n, txqueue', txreserveditem', rxcomplete', c)
  BY WaitsAre
<1>4. CASE RxRaises(cw) /\ ~Refers(rxcomplete, c)
  <2>1. ~Refers(rxcomplete', c) /\ UNCHANGED txqueue
    BY <1>1, <1>4 DEF RxRaises, Replied, Refers, Window, queues
  <2>2. WaitIn(n, txqueue, txreserveditem, rxcomplete, c)
    BY <1>2, <1>3, <2>1 DEF WaitIn
  <2> QED BY <2>2, WaitsAre
<1>5. ASSUME NEW first, RxLast(Answered(first)) PROVE n \in Waits(c)
  <2> DEFINE b == Answered(first)
  <2>1. b \in {<<>>, Grant(rxcomplete.data)} /\ b \in Seq(OutcomeItem) /\ b \in Seq(Item)
    BY <1>1, OutcomeBursts, OutcomeItems DEF Answered
  <2>2. rxcomplete' = None /\ txqueue' = txqueue \o b
    BY <1>5 DEF RxLast
  <2> HIDE DEF b
  <2>3. NoneFor(b, c)
    <3>1. CASE b = <<>> \/ c # rxcomplete.data
      BY <1>1, <2>1, <3>1, BurstsDecide
    <3>2. CASE b = Grant(c) /\ c = rxcomplete.data
      <4>1. Granting(txqueue', c)
        BY <1>1, <2>1, <2>2, <3>2, MarksJoined, BurstMarks
      <4>2. StageOf(c)' # "asked"
        BY <4>1 DEF StageOf, Granted, Granting
      <4>3. StageOf(c) = "asked"
        BY <1>1, <3>2, StageIsIn, StagesApart DEF Refers
      <4> QED BY <4>2, <4>3
    <3> QED BY <2>1, <3>1, <3>2
  <2>4. txqueue \in Seq(Item)
    BY <1>1, OutcomeItems
  <2>5. WaitIn(n, txqueue, txreserveditem, rxcomplete, c)
    BY <1>2, <1>3, <2>1, <2>2, <2>3, <2>4, BehindJoined DEF WaitIn, Refers
  <2> QED BY <2>5, WaitsAre
<1> QED BY <1>4, <1>5 DEF Reply

LEMMA MovesOnStep ==
  ASSUME OutcomeInv, Brief, [TSCNext]_allvars, NEW c \in Calls,
         StageOf(c)' = StageOf(c), NEW n \in Waits(c)'
  PROVE  \/ \E m \in Waits(c) : n < m
         \/ n \in Waits(c) /\ ~(HalfSlot /\ (StateNow = 1 \/ Windowed(c)))
         \/ Refers(rxcomplete, c) /\ \E cw \in RxWords : RxRaises(cw)
<1>1. WaitIn(n, txqueue', txreserveditem', rxcomplete', c)
  BY WaitsAre
<1>2. CASE HalfSlot
  <2>1. CASE Behind(n, txqueue', c)
    <3>1. CASE \E m : Behind(m, txqueue, c) /\ n < m
      BY <3>1, WaitsAre DEF WaitIn
    <3>2. CASE Behind(n, txqueue, c) /\ StateNow # 1 /\ ~Windowed(c)
      BY <3>2, WaitsAre DEF WaitIn
    <3> QED BY <1>2, <2>1, <3>1, <3>2, HalfSlotBehind
  <2>2. CASE ~Behind(n, txqueue', c)
    <3>1. \E m : WaitIn(m, txqueue, txreserveditem, rxcomplete, c) /\ n < m
      BY <1>1, <1>2, <2>2, HalfSlotWindow DEF WaitIn
    <3> QED BY <3>1, WaitsAre
  <2> QED BY <2>1, <2>2
<1>3. ASSUME NEW cw \in RxWords, Reply(cw)
      PROVE  n \in Waits(c) \/ (Refers(rxcomplete, c) /\ RxRaises(cw))
  BY <1>3, ReplyWaits
<1>4. ASSUME NEW d \in Calls, CreateCall(d) PROVE n \in Waits(c)
  BY <1>4, CreateCallWaits
<1>5. ASSUME NEW b \in {Rejected, <<>>}, NEW t \in {<<>>, ClearDown}, RandomAccess(b, t)
      PROVE  n \in Waits(c)
  BY <1>5, OutcomeBursts, BurstsDecide, AccessWaits
<1>6. Busy \/ Refuse \/ Ignore \/ Disconnect \/ (\E on \in BOOLEAN : Presel(on))
        => n \in Waits(c)
  BY <1>5 DEF Busy, Refuse, Ignore, Presel, Disconnect
<1>7. MorseTaken \/ IdentSent \/ Operator \/ UNCHANGED allvars => n \in Waits(c)
  <2>1. MorseTaken \/ IdentSent \/ Operator \/ UNCHANGED allvars
          => UNCHANGED <<txqueue, txreserveditem, rxcomplete>>
    BY DEF MorseTaken, IdentSent, Operator, TxMorseClear, MorseDone, SetMorse,
       allvars, chvars, queues, txvars, rxvars
  <2> QED BY <1>1, <2>1, WaitsAre
<1>8. ~HalfSlot => \/ n \in Waits(c)
                   \/ Refers(rxcomplete, c) /\ \E cw \in RxWords : RxRaises(cw)
  BY <1>3, <1>4, <1>6, <1>7 DEF TSCNext, Transmitter
<1> QED BY <1>2, <1>8

(* As long as the stage of a call lasts, every half slot in which a message*)
(* can be sent or its window is about to open or open brings it nearer to  *)
(* its end, and nothing in between sets it back: no reservation, reject,   *)
(* hang-up, ident or other call, but only an answer that cannot be decoded *)
(* (channel.py lines 66-75, 107-124 and 149-163).                          *)
THEOREM CallsMoveOn == TSCSpec => MovesOn
<1>1. OutcomeInv /\ Brief /\ [TSCNext]_allvars =>
        [\A c \in Calls : StageOf(c)' = StageOf(c) =>
           \A n \in Waits(c)' :
             \/ \E m \in Waits(c) : n < m
             \/ n \in Waits(c) /\ ~(HalfSlot /\ (StateNow = 1 \/ Windowed(c)))
             \/ Refers(rxcomplete, c) /\ \E cw \in RxWords : RxRaises(cw)]_allvars
  BY MovesOnStep
<1> QED BY <1>1, OutcomesCorrect, AlwaysBrief, PTL DEF TSCSpec, MovesOn

=============================================================================
