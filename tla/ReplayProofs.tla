-------------------------------- MODULE ReplayProofs --------------------------------
(***************************************************************************)
(* Proofs about the frames of a demo and their projection, for every set   *)
(* of slots, users and properties, every game and every choice of the      *)
(* server, and histories of any length; about the evidence drawn from      *)
(* recorded rows, for every recording; and about the parser that does all  *)
(* this in a process of its own: what settles its promise is true of it,   *)
(* in whatever order timers, data and exits come, for any number of        *)
(* helpers, any limits and any length of the result.                       *)
(***************************************************************************)
EXTENDS DemoReplay, MatchEvidence, ParserChild, FiniteSetTheorems, WellFoundedInduction, TLAPS

-----------------------------------------------------------------------------
(* The inductive invariant *)

\* The frames that a packet may refer to.
Retained == {k \in 1..tick : k > tick - MaxHistory}

FramesTypeOK ==
    /\ world \in [Slots -> Entity \cup {None}]
    /\ visible \subseteq Slots /\ created \in Nat /\ tick \in Nat /\ lifetime \in Nat
    /\ views \in [Retained -> [Slots -> View \cup {None}]]
    /\ given \in [0..1 -> [Slots -> Baseline \cup {None}]]
    /\ used \in 0..1 /\ pending \in BOOLEAN /\ refused \in BOOLEAN
    /\ dynamic \in [0..1 -> [Slots -> Baseline \cup {None}]]
    /\ DOMAIN frames \subseteq Nat
    /\ frames \in [DOMAIN frames -> [Slots -> Snapshot \cup {None}]]

ReplayTypeOK ==
    /\ occupant \in [PlayerSlots -> Users \cup {None}]
    /\ touched \subseteq PlayerSlots
    /\ mappings \subseteq Mapping /\ IsFiniteSet(mappings)
    /\ active \in [Slots -> Epoch \cup {None}]
    /\ completed \subseteq Epoch
    /\ ended \in BOOLEAN

\* Entities are numbered; those of the player slots are their occupants'.
WorldInv ==
    /\ \A s \in visible : world[s] # None
    /\ Local # None /\ world[Local] # None => Local \in visible
    /\ \A s \in Slots : world[s] # None =>
          /\ world[s].number < created
          /\ (s \in PlayerSlots) <=> (world[s].class = Player)
          /\ s \in PlayerSlots => occupant[s] # None /\ world[s].owner = occupant[s]

\* A number names one entity, in what the client was told too.
ViewsInv ==
    \A k \in Retained, s \in Slots : views[k][s] # None =>
        /\ views[k][s].number < created
        /\ world[s] # None /\ views[k][s].number = world[s].number
              => views[k][s].class = world[s].class

\* The last mapping of a slot names its occupant; a slot that is not touched has
\* the mapping of the snapshot.
MappingsInv ==
    /\ \A m \in mappings : m.tick <= tick + 1
    /\ \A m, k \in mappings : m.slot = k.slot /\ m.tick = k.tick => m = k
    /\ \A m \in mappings : m.slot \notin touched => m.tick = 0
    /\ \A s \in PlayerSlots \ touched :
          occupant[s] # None => \E m \in mappings : m.slot = s
    /\ \A m \in mappings :
          (\A k \in mappings : k.slot = m.slot => k.tick <= m.tick)
             => m.user = occupant[m.slot]

\* What FramesAreSent says of one slot of one frame.
Matches(s, f, v) ==
    \/ f = None /\ (v = None \/ s = Local)
    \/ f # None /\ v # None /\ Faithful(f, v)

\* The decoder has the server's frames and baselines; a lifetime names one entity.
DecoderInv ==
    ~refused =>
      /\ DOMAIN frames = Retained
      /\ dynamic = given
      /\ \A k \in Retained, s \in Slots : Matches(s, frames[k][s], views[k][s])
      /\ \A k \in Retained, s \in Slots :
            frames[k][s] # None => frames[k][s].lifetime < lifetime
      /\ \A k, n \in Retained, s \in Slots :
            /\ frames[k][s] # None /\ frames[n][s] # None
            /\ frames[k][s].lifetime = frames[n][s].lifetime
            => views[k][s].number = views[n][s].number

\* Epochs of a slot follow each other, are one player's, and have the name that the
\* mappings gave when they began.
EpochsInv ==
    /\ \A s \in Slots : active[s] # None => active[s].slot = s /\ active[s].to = None
    /\ \A e \in Epochs : e.from <= tick /\ e.lifetime < lifetime
    /\ \A c \in completed : c.to \in Nat /\ c.from <= c.to /\ c.to <= tick
    /\ \A c \in completed : active[c.slot] # None => c.to <= active[c.slot].from
    /\ \A c, d \in completed : c.slot = d.slot /\ c # d => c.to <= d.from \/ d.to <= c.from
    /\ \A e, f \in Epochs : e.slot = f.slot /\ e.lifetime = f.lifetime => e.owner = f.owner
    /\ \A e \in Epochs : e.slot \in PlayerSlots /\ e.owner \in Users /\ e.user \in {None, e.owner}
    /\ \A e \in Epochs :
          (e.slot \notin touched \/ \E m \in mappings : m.slot = e.slot /\ m.tick <= e.from)
             => e.user = e.owner

\* An epoch's entity, if it is still there, has the epoch's owner; the open epochs
\* are those of the last frame.
OpenInv ==
    ~refused =>
      /\ \A e \in Epochs, k \in Retained :
            /\ world[e.slot] # None
            /\ frames[k][e.slot] # None /\ frames[k][e.slot].lifetime = e.lifetime
            /\ views[k][e.slot].number = world[e.slot].number
            => e.owner = world[e.slot].owner
      /\ lastRow = lastRead
      /\ tick = 0 => active = Nothing
      /\ tick > 0 => \A s \in Slots :
            IF s \in Seen(frames[tick])
            THEN active[s] # None /\ active[s].lifetime = frames[tick][s].lifetime
            ELSE active[s] = None

RowsInv ==
    \A s \in Slots :
        /\ (read[s] # None) <=> (active[s] # None)
        /\ read[s] # None => /\ read[s].epoch = <<s, active[s].lifetime>>
                             /\ refused \/ read[s].state = frames[tick][s].props

IInv ==
    /\ FramesTypeOK /\ ReplayTypeOK /\ WorldInv /\ ViewsInv /\ MappingsInv
    /\ DecoderInv /\ EpochsInv /\ OpenInv /\ RowsInv
    /\ ~ended => attributed = {}
    /\ FramesAreSent /\ EvidenceNamesThePlayer

-----------------------------------------------------------------------------
(* One slot of one packet *)

\* The decoder's frame to which a packet that refers to n is applied.
Source(n) == IF n = 0 THEN Nothing ELSE frames[n]

LEMMA MergeDifference ==
  ASSUME NEW base, NEW props \in [Props -> Values], NEW p \in Props
  PROVE  Merge(base, Difference(base, props))[p] = props[p]
BY DEF Merge, Difference, Restrict

LEMMA ToldIsTyped ==
  ASSUME FramesTypeOK, NEW n \in Retained \cup {0}, NEW s \in Slots
  PROVE  Told(n)[s] \in View \cup {None}
BY FramesAssumption DEF FramesTypeOK, Told, Nothing, Retained

LEMMA SourceIsTyped ==
  ASSUME FramesTypeOK, DecoderInv, ~refused, NEW n \in Retained \cup {0}, NEW s \in Slots
  PROVE  /\ Source(n)[s] \in Snapshot \cup {None}
         /\ Matches(s, Source(n)[s], Told(n)[s])
<1>1. CASE n = 0
  BY <1>1 DEF Source, Told, Nothing, Matches
<1>2. CASE n # 0
  <2>1. n \in Retained
    BY <1>2
  <2> QED BY <1>2, <2>1 DEF Source, Told, FramesTypeOK, DecoderInv
<1> QED BY <1>1, <1>2

LEMMA ServerBaselineIsKnown ==
  ASSUME FramesTypeOK, NEW n, NEW s \in Slots, world[s] # None
  PROVE  ServerBaseline(s, n) \in Known
<1>1. given[used][s] \in Baseline \cup {None}
  BY DEF FramesTypeOK
<1>2. world[s].class \in Classes
  BY DEF FramesTypeOK, Entity
<1> QED BY <1>1, <1>2, FramesAssumption DEF ServerBaseline, Baseline

\* A mapping of the last tick there is.
LEMMA LastMapping ==
  ASSUME ReplayTypeOK, NEW S \in SUBSET mappings, S # {}, NEW t \in Nat,
         \A m \in S : m.tick <= t
  PROVE  \E m \in S : \A k \in S : k.tick <= m.tick
<1> DEFINE R == OpToRel(<, Nat)
           Left == {t - m.tick : m \in S}
<1>1. \A m \in S : m.tick \in Nat
  BY DEF ReplayTypeOK, Mapping
<1>2. \A y, x \in Nat : y < x => <<y, x>> \in R
  BY DEF OpToRel
<1>3. Left \in SUBSET Nat /\ Left # {}
  BY <1>1
<1>4. PICK x \in Left : \A y \in Left : ~ (<<y, x>> \in R)
  BY <1>3, NatLessThanWellFounded, WFMin
<1> HIDE DEF R
<1>5. PICK m \in S : x = t - m.tick
  BY <1>4
<1>6. ASSUME NEW k \in S PROVE k.tick <= m.tick
  <2>1. t - k.tick \in Left
    OBVIOUS
  <2>2. ~(t - k.tick < x)
    BY <1>2, <1>3, <1>4, <2>1
  <2> QED BY <1>1, <1>5, <2>2
<1> QED BY <1>6

\* The mapping in effect now is that of the slot's occupant.
LEMMA UserNow ==
  ASSUME FramesTypeOK, ReplayTypeOK, MappingsInv, NEW s \in PlayerSlots
  PROVE  /\ UserAt(s, tick + 1) \in {None, occupant[s]}
         /\ (\E m \in mappings : m.slot = s) => UserAt(s, tick + 1) = occupant[s]
<1> DEFINE known == {m \in mappings : m.slot = s /\ m.tick <= tick + 1}
           last == CHOOSE m \in known : \A k \in known : k.tick <= m.tick
<1>1. known = {m \in mappings : m.slot = s}
  BY DEF MappingsInv
<1>2. CASE known = {}
  BY <1>1, <1>2 DEF UserAt
<1>3. CASE known # {}
  <2>1. tick + 1 \in Nat
    BY DEF FramesTypeOK
  <2>2. \E m \in known : \A k \in known : k.tick <= m.tick
    BY <1>3, <2>1, LastMapping
  <2>3. last \in known /\ \A k \in known : k.tick <= last.tick
    BY <2>2
  <2> HIDE DEF last
  <2>4. last.user = occupant[last.slot] /\ last.slot = s
    BY <1>1, <2>3 DEF MappingsInv
  <2> QED BY <1>3, <2>4 DEF UserAt, last
<1> QED BY <1>2, <1>3

\* Slot s of the frame that an update makes is what the client was told, and its
\* lifetime is fresh or that of the same entity in the frame referred to.
Decoded(s, n, u, fresh) ==
    LET source == Source(n)[s]
        f == Applied(u, s, Source(n), n, used, fresh)
        v == NewView(s, n)
    IN  /\ f \in Snapshot \cup {None}
        /\ Matches(s, f, v)
        /\ f # None /\ Begins(u, s, Source(n)) => f.lifetime = fresh
        /\ f # None /\ ~Begins(u, s, Source(n)) =>
              /\ source # None /\ f.lifetime = source.lifetime
              /\ Told(n)[s] # None /\ Told(n)[s].number = v.number

\* The states in which a packet is decoded.
Decoding == FramesTypeOK /\ WorldInv /\ ViewsInv /\ DecoderInv /\ ~refused

LEMMA EnterIsDecoded ==
  ASSUME Decoding, NEW n \in Retained \cup {0}, NEW s \in Slots, NEW fresh \in Nat,
         NEW implicit, Enters(s, n)
  PROVE  LET u == Sent(s, n)
             f == Applied(u, s, Source(n), n, used, fresh)
         IN  /\ u.kind = "enter" /\ ~Refuses(u, s, Source(n), implicit)
             /\ Decoded(s, n, u, fresh)
             /\ f.class = world[s].class /\ f.props = world[s].props
<1> DEFINE u == Sent(s, n)
           src == Source(n)[s]
           old == Told(n)[s]
           new == world[s]
           f == Applied(u, s, Source(n), n, used, fresh)
<1>1. /\ new \in Entity /\ s \in visible
  BY DEF Decoding, FramesTypeOK, WorldInv, Enters
<1>2. src \in Snapshot \cup {None} /\ old \in View \cup {None} /\ Matches(s, src, old)
  BY SourceIsTyped, ToldIsTyped DEF Decoding
<1>3. u = [kind |-> "enter", class |-> new.class, serial |-> new.number,
           props |-> Difference(ServerBaseline(s, n), new.props)]
  BY <1>1 DEF Sent
<1>4. ServerBaseline(s, n) = DecoderBaseline(s, new.class, n, used)
  BY DEF ServerBaseline, DecoderBaseline, Decoding, DecoderInv
<1>5. Merge(DecoderBaseline(s, new.class, n, used), u.props) = new.props
  <2>1. new.props \in [Props -> Values]
    BY <1>1 DEF Entity
  <2>2. \A p \in Props : Merge(DecoderBaseline(s, new.class, n, used), u.props)[p] = new.props[p]
    BY <1>3, <1>4, <2>1, MergeDifference
  <2> QED BY <2>1, <2>2 DEF Merge
<1>6. f = [class |-> new.class, serial |-> new.number, active |-> TRUE,
           lifetime |-> IF Resumes(u, s, Source(n)) THEN src.lifetime ELSE fresh,
           props |-> new.props]
  <2>1. u.kind = "enter" /\ u.class = new.class /\ u.serial = new.number
    BY <1>3
  <2> HIDE DEF u
  <2> QED BY <1>5, <2>1 DEF Applied
<1>7. f \in Snapshot
  <2>1. Resumes(u, s, Source(n)) => src.lifetime \in Nat
    BY <1>2 DEF Resumes, Snapshot
  <2>2. new.props \in Known /\ new.class \in Classes /\ new.number \in Nat
    BY <1>1 DEF Entity, Known
  <2> QED BY <1>6, <2>1, <2>2 DEF Snapshot
<1>8. f # None
  BY <1>7, FramesAssumption
<1>9. NewView(s, n) = [number |-> new.number, class |-> new.class, active |-> TRUE,
                       props |-> new.props]
  BY <1>1 DEF NewView
<1>10. NewView(s, n) # None
  <2>1. NewView(s, n) \in View
    BY <1>1, <1>9 DEF View, Entity
  <2> QED BY <2>1, FramesAssumption
<1>11. Matches(s, f, NewView(s, n))
  BY <1>6, <1>8, <1>9, <1>10 DEF Matches, Faithful
<1>12. Resumes(u, s, Source(n)) => old # None /\ old.number = new.number
  <2>1. new.number # None
    BY <1>1, FramesAssumption DEF Entity
  <2> QED BY <1>2, <1>3, <2>1 DEF Resumes, Matches, Faithful
<1>13. Begins(u, s, Source(n)) <=> ~Resumes(u, s, Source(n))
  BY <1>3 DEF Begins
<1>14. Decoded(s, n, u, fresh)
  BY <1>6, <1>7, <1>8, <1>9, <1>11, <1>12, <1>13 DEF Decoded, Resumes
<1>15. u.kind = "enter" /\ ~Refuses(u, s, Source(n), implicit)
  BY <1>3 DEF Refuses
<1> QED BY <1>6, <1>14, <1>15

\* An entity that the client already sees: a delta, or silence.  The recording
\* player's own entity, which a full packet may have left out, is then of the
\* class of players, and a delta of it is refused when that is not known.
LEMMA ChangeIsDecoded ==
  ASSUME Decoding, ReplayTypeOK, MappingsInv,
         NEW n \in Retained \cup {0}, NEW s \in Slots, NEW fresh \in Nat,
         s \in visible, ~Enters(s, n)
  PROVE  LET u == Sent(s, n)
             implicit == ImplicitPlayers(tick + 1)
         IN  /\ u.kind # "enter"
             /\ Refuses(u, s, Source(n), implicit) => Local \in touched
             /\ ~Refuses(u, s, Source(n), implicit) => Decoded(s, n, u, fresh)
<1> DEFINE u == Sent(s, n)
           src == Source(n)[s]
           old == Told(n)[s]
           new == world[s]
           f == Applied(u, s, Source(n), n, used, fresh)
           view == [number |-> new.number, class |-> new.class, active |-> TRUE,
                    props |-> new.props]
           implicit == ImplicitPlayers(tick + 1)
<1>1. new \in Entity /\ new # None
  BY DEF Decoding, FramesTypeOK, WorldInv
<1>2. src \in Snapshot \cup {None} /\ old \in View \cup {None} /\ Matches(s, src, old)
  BY SourceIsTyped, ToldIsTyped DEF Decoding
<1>3. old # None /\ old.active /\ old.number = new.number
  BY DEF Enters
<1>4. old.class = new.class
  <2>1. CASE n = 0
    BY <1>3, <2>1 DEF Told, Nothing
  <2>2. CASE n # 0
    <3>1. n \in Retained /\ old = views[n][s]
      BY <2>2 DEF Told
    <3> QED BY <1>1, <1>3, <3>1 DEF Decoding, ViewsInv
  <2> QED BY <2>1, <2>2
<1>5. NewView(s, n) = view /\ view # None
  <2>1. view \in View
    BY <1>1 DEF View, Entity
  <2> QED BY <2>1, FramesAssumption DEF NewView
<1>6. old.props \in [Props -> Values] /\ new.props \in [Props -> Values] /\ new.class \in Classes
  BY <1>1, <1>2, <1>3 DEF View, Entity
<1>7. CASE old.props # new.props
  <2> DEFINE sent == Difference(old.props, new.props)
  <2>1. u.kind = "delta" /\ u.props = sent
    BY <1>3, <1>7 DEF Sent
  <2> HIDE DEF u
  <2>2. ASSUME NEW base \in Known
        PROVE  /\ Merge(base, sent) \in Known
               /\ \A p \in Props : \/ Merge(base, sent)[p] = new.props[p]
                                   \/ /\ Merge(base, sent)[p] = base[p]
                                      /\ old.props[p] = new.props[p]
    BY <1>6 DEF Merge, Difference, Restrict, Known
  <2>3. CASE src = None
    <3>1. s = Local /\ s \in PlayerSlots
      BY <1>2, <1>3, <2>3, ReplayAssumption, FramesAssumption DEF Matches
    <3>2. new.class = Player /\ occupant[s] # None
      BY <1>1, <3>1 DEF Decoding, WorldInv
    <3>3. ASSUME Refuses(u, s, Source(n), implicit) PROVE Local \in touched
      <4>1. s \notin implicit
        BY <2>1, <2>3, <3>3, <3>2, <1>6, FramesAssumption DEF Refuses, ClassOf
      <4>2. UserAt(s, tick + 1) = None
        BY <3>1, <4>1, FramesAssumption DEF ImplicitPlayers
      <4>3. ~ \E m \in mappings : m.slot = s
        BY <3>1, <3>2, <4>2, UserNow DEF Decoding
      <4> QED BY <3>1, <3>2, <4>3 DEF MappingsInv
    <3>4. f = [class |-> Player, serial |-> None, lifetime |-> fresh, active |-> TRUE,
               props |-> Merge(Unknown, sent)]
      BY <2>1, <2>3 DEF Applied
    <3>5. Unknown \in Known
      BY DEF Unknown, Known
    <3>6. f \in Snapshot /\ f # None
      <4>1. Player \in Classes /\ fresh \in Nat /\ Merge(Unknown, sent) \in Known
        BY <2>2, <3>5, FramesAssumption
      <4>2. f \in Snapshot
        BY <3>4, <4>1 DEF Snapshot
      <4> QED BY <4>2, FramesAssumption
    <3>7. \A p \in Props : f.props[p] = new.props[p] \/ f.props[p] = None
      BY <2>2, <3>4, <3>5 DEF Unknown
    <3>8. Matches(s, f, view)
      BY <1>5, <3>2, <3>4, <3>6, <3>7 DEF Matches, Faithful
    <3>9. Begins(u, s, Source(n)) /\ f.lifetime = fresh
      BY <2>1, <2>3, <3>4 DEF Begins
    <3> QED BY <1>5, <2>1, <3>3, <3>6, <3>8, <3>9 DEF Decoded, u
  <2>4. CASE src # None
    <3>1. src \in Snapshot /\ Faithful(src, old)
      BY <1>2, <2>4 DEF Matches
    <3>2. ~Refuses(u, s, Source(n), implicit)
      BY <1>2, <1>3, <2>1, <2>4, <3>1, FramesAssumption DEF Refuses, ClassOf, Faithful, Snapshot
    <3>3. f = [src EXCEPT !.props = Merge(src.props, sent)]
      BY <2>1, <2>4 DEF Applied
    <3>4. src.props \in Known
      BY <3>1 DEF Snapshot
    <3>5. /\ f \in Snapshot /\ f.class = src.class /\ f.active = src.active
          /\ f.serial = src.serial /\ f.lifetime = src.lifetime
          /\ f.props = Merge(src.props, sent)
      <4>1. Merge(src.props, sent) \in Known
        BY <2>2, <3>4
      <4> QED BY <3>1, <3>3, <4>1 DEF Snapshot
    <3>6. f # None
      BY <3>5, FramesAssumption
    <3>7. Faithful(f, view)
      <4>1. ASSUME NEW p \in Props
            PROVE  f.props[p] = new.props[p] \/ (f.serial = None /\ f.props[p] = None)
        BY <2>2, <3>1, <3>4, <3>5 DEF Faithful
      <4> QED BY <1>3, <1>4, <3>1, <3>5, <4>1 DEF Faithful
    <3>8. ~Begins(u, s, Source(n))
      BY <2>1, <2>4 DEF Begins
    <3> QED BY <1>3, <1>5, <2>1, <2>4, <3>2, <3>5, <3>6, <3>7, <3>8 DEF Decoded, Matches, u
  <2> QED BY <2>3, <2>4 DEF u
<1>8. CASE old.props = new.props
  <2>1. u = Silent
    BY <1>3, <1>8 DEF Sent
  <2>2. f = src /\ u.kind = "none"
    BY <2>1 DEF Applied, Silent
  <2>3. ~Refuses(u, s, Source(n), implicit) /\ ~Begins(u, s, Source(n))
    BY <2>2 DEF Refuses, Begins
  <2>4. Matches(s, src, view)
    BY <1>2, <1>3, <1>4, <1>5, <1>8 DEF Matches, Faithful
  <2> QED BY <1>2, <1>3, <1>5, <2>2, <2>3, <2>4 DEF Decoded
<1> QED BY <1>7, <1>8

\* An entity that the client does not see: it leaves, is deleted, or was gone.
LEMMA AbsenceIsDecoded ==
  ASSUME Decoding, NEW n \in Retained \cup {0}, NEW s \in Slots, NEW fresh \in Nat,
         NEW implicit, s \notin visible
  PROVE  LET u == Sent(s, n)
         IN  /\ u.kind # "enter" /\ ~Refuses(u, s, Source(n), implicit)
             /\ Decoded(s, n, u, fresh)
<1> DEFINE u == Sent(s, n)
           src == Source(n)[s]
           old == Told(n)[s]
           new == world[s]
           f == Applied(u, s, Source(n), n, used, fresh)
           same == old # None /\ new # None /\ new.number = old.number
<1>1. src \in Snapshot \cup {None} /\ old \in View \cup {None} /\ Matches(s, src, old)
  BY SourceIsTyped, ToldIsTyped DEF Decoding
<1>2. CASE ~same
  <2>1. u.kind \in {"delete", "none"} /\ (old # None => u.kind = "delete")
    BY <1>2 DEF Sent, Silent, Enters
  <2>2. NewView(s, n) = None
    BY <1>2 DEF NewView
  <2> HIDE DEF u
  <2>3. f = None
    BY <1>1, <2>1 DEF Applied, Matches
  <2> QED BY <2>1, <2>2, <2>3 DEF Decoded, Matches, Refuses, u
<1>3. CASE same
  <2>1. NewView(s, n) = [old EXCEPT !.active = FALSE]
    BY <1>3 DEF NewView
  <2>2. s # Local
    BY <1>3, FramesAssumption DEF Decoding, WorldInv
  <2>3. src # None /\ src \in Snapshot /\ old \in View /\ Faithful(src, old)
    BY <1>1, <1>3, <2>2 DEF Matches
  <2>4. /\ NewView(s, n) \in View /\ NewView(s, n).number = old.number
        /\ NewView(s, n).class = old.class /\ NewView(s, n).props = old.props
        /\ ~NewView(s, n).active
    BY <2>1, <2>3 DEF View
  <2>5. /\ u.kind \in {"leave", "none"} /\ (u.kind = "leave" <=> old.active)
    BY <1>3 DEF Sent, Silent, Enters
  <2> HIDE DEF u
  <2>6. /\ f \in Snapshot /\ f.class = src.class /\ f.serial = src.serial
        /\ f.lifetime = src.lifetime /\ f.props = src.props /\ ~f.active
    <3>1. CASE u.kind = "leave"
      <4>1. f = [src EXCEPT !.active = FALSE]
        BY <3>1 DEF Applied
      <4> QED BY <2>3, <4>1 DEF Snapshot
    <3>2. CASE u.kind = "none"
      <4>1. f = src
        BY <3>2 DEF Applied
      <4> QED BY <2>3, <2>5, <3>2, <4>1 DEF Faithful
    <3> QED BY <2>5, <3>1, <3>2
  <2>7. Faithful(f, NewView(s, n)) /\ f # None /\ NewView(s, n) # None
    <3>1. f # None /\ NewView(s, n) # None
      BY <2>4, <2>6, FramesAssumption
    <3>2. f.active = NewView(s, n).active
      <4>1. f.active \in BOOLEAN /\ NewView(s, n).active \in BOOLEAN
        BY <2>4, <2>6 DEF Snapshot, View
      <4> QED BY <2>4, <2>6, <4>1
    <3> QED BY <2>3, <2>4, <2>6, <3>1, <3>2 DEF Faithful
  <2>8. ~Refuses(u, s, Source(n), implicit) /\ ~Begins(u, s, Source(n))
    BY <2>3, <2>5 DEF Refuses, Begins
  <2> QED BY <1>3, <2>3, <2>4, <2>5, <2>6, <2>7, <2>8 DEF Decoded, Matches, u
<1> QED BY <1>2, <1>3

-----------------------------------------------------------------------------
(* A packet *)

\* The update of a slot, when the packet leaves out some.
Update(s, n, omitted) == IF s \in omitted THEN Silent ELSE Sent(s, n)

\* A packet that the server may send.
Sendable(n, omitted) ==
    /\ n \in Retained \cup {0}
    /\ omitted \subseteq {Local} \cap visible /\ (omitted # {} => n = 0)

LEMMA UpdateIsDecoded ==
  ASSUME Decoding, ReplayTypeOK, MappingsInv, NEW n, NEW omitted, Sendable(n, omitted),
         NEW s \in Slots, NEW fresh \in Nat
  PROVE  LET u == Update(s, n, omitted)
             f == Applied(u, s, Source(n), n, used, fresh)
             implicit == ImplicitPlayers(tick + 1)
         IN  /\ u.kind = "enter" <=> s \notin omitted /\ Enters(s, n)
             /\ u.kind = "enter" => f.class = world[s].class /\ f.props = world[s].props
             /\ Refuses(u, s, Source(n), implicit) => Local \in touched
             /\ ~Refuses(u, s, Source(n), implicit) => Decoded(s, n, u, fresh)
<1> DEFINE u == Update(s, n, omitted)
<1>1. n \in Retained \cup {0}
  BY DEF Sendable
<1>2. CASE s \in omitted
  <2>1. u = Silent /\ s = Local /\ n = 0
    BY <1>2 DEF Update, Sendable
  <2>2. Source(n)[s] = None
    BY <2>1 DEF Source, Nothing
  <2>3. /\ u.kind = "none" /\ Applied(u, s, Source(n), n, used, fresh) = None
        /\ ~Refuses(u, s, Source(n), ImplicitPlayers(tick + 1))
    BY <2>1, <2>2 DEF Silent, Applied, Refuses
  <2> QED BY <1>2, <2>1, <2>3 DEF Decoded, Matches
<1>3. CASE s \notin omitted
  <2>1. u = Sent(s, n)
    BY <1>3 DEF Update
  <2>2. Enters(s, n) => s \in visible
    BY DEF Enters
  <2>3. CASE Enters(s, n)
    BY <1>1, <1>3, <2>1, <2>3, EnterIsDecoded
  <2>4. CASE s \in visible /\ ~Enters(s, n)
    BY <1>1, <1>3, <2>1, <2>4, ChangeIsDecoded
  <2>5. CASE s \notin visible
    BY <1>1, <1>3, <2>1, <2>2, <2>5, AbsenceIsDecoded
  <2> QED BY <2>3, <2>4, <2>5
<1> QED BY <1>2, <1>3

\* Lifetimes that a packet may assign.
LEMMA FreshIsNew ==
  ASSUME FramesTypeOK, NEW begun \in SUBSET Slots, NEW s \in Slots
  PROVE  LET fresh == lifetime + Cardinality({t \in begun : t < s})
         IN  /\ fresh \in Nat /\ lifetime <= fresh
             /\ lifetime + Cardinality(begun) \in Nat /\ lifetime <= lifetime + Cardinality(begun)
             /\ s \in begun => fresh < lifetime + Cardinality(begun)
<1> DEFINE before == {t \in begun : t < s}
<1>1. IsFiniteSet(begun)
  BY FramesAssumption, FS_Subset
<1>2. /\ IsFiniteSet(before) /\ Cardinality(before) <= Cardinality(begun)
      /\ Cardinality(before) = Cardinality(begun) => before = begun
  BY <1>1, FS_Subset
<1>3. Cardinality(before) \in Nat /\ Cardinality(begun) \in Nat
  BY <1>1, <1>2, FS_CardinalityType
<1>4. s \in begun => s \notin before
  <2>1. ~(s < s)
    BY FramesAssumption
  <2> QED BY <2>1
<1>5. lifetime \in Nat
  BY DEF FramesTypeOK
<1> HIDE DEF before
<1>6. s \in begun => Cardinality(before) < Cardinality(begun)
  BY <1>2, <1>3, <1>4
<1>7. /\ lifetime + Cardinality(before) \in Nat /\ lifetime <= lifetime + Cardinality(before)
      /\ lifetime + Cardinality(begun) \in Nat /\ lifetime <= lifetime + Cardinality(begun)
      /\ s \in begun => lifetime + Cardinality(before) < lifetime + Cardinality(begun)
  BY <1>3, <1>5, <1>6
<1> QED BY <1>7 DEF before

LEMMA RetainedNext ==
  ASSUME FramesTypeOK, tick' = tick + 1
  PROVE  /\ Retained' = {k \in Retained : k > tick + 1 - MaxHistory} \cup {tick + 1}
         /\ tick + 1 \notin Retained /\ Acknowledgeable = Retained'
         /\ DOMAIN frames = Retained => Kept \cup {tick + 1} = Retained'
<1>1. tick \in Nat /\ MaxHistory \in Nat \ {0}
  BY FramesAssumption DEF FramesTypeOK
<1>2. Retained' = {k \in 1..tick + 1 : k > (tick + 1) - MaxHistory}
  BY DEF Retained
<1>3. Retained' = {k \in Retained : k > tick + 1 - MaxHistory} \cup {tick + 1}
  BY <1>1, <1>2 DEF Retained
<1>4. tick + 1 \notin Retained
  BY <1>1 DEF Retained
<1>5. Acknowledgeable = Retained'
  BY <1>1, <1>2 DEF Acknowledgeable
<1> QED BY <1>3, <1>4, <1>5 DEF Kept

LEMMA NewViewIsTyped ==
  ASSUME FramesTypeOK, WorldInv, NEW n \in Retained \cup {0}, NEW s \in Slots
  PROVE  /\ NewView(s, n) \in View \cup {None}
         /\ NewView(s, n) # None =>
               /\ world[s] # None /\ NewView(s, n).number = world[s].number
               /\ NewView(s, n).active <=> s \in visible
               /\ s \in visible => NewView(s, n).class = world[s].class
               /\ s \notin visible => Told(n)[s] # None /\ NewView(s, n).class = Told(n)[s].class
<1> DEFINE old == Told(n)[s]
           new == world[s]
<1>1. old \in View \cup {None}
  BY ToldIsTyped
<1>2. CASE s \in visible
  <2>1. new \in Entity /\ new # None
    BY <1>2 DEF FramesTypeOK, WorldInv
  <2>2. NewView(s, n) = [number |-> new.number, class |-> new.class, active |-> TRUE,
                         props |-> new.props]
    BY <1>2 DEF NewView
  <2>3. NewView(s, n) \in View
    BY <2>1, <2>2 DEF View, Entity
  <2> QED BY <1>2, <2>1, <2>2, <2>3
<1>3. CASE s \notin visible /\ old # None /\ new # None /\ new.number = old.number
  <2>1. NewView(s, n) = [old EXCEPT !.active = FALSE]
    BY <1>3 DEF NewView
  <2>2. old \in View
    BY <1>1, <1>3
  <2>3. /\ NewView(s, n) \in View /\ NewView(s, n).number = old.number
        /\ NewView(s, n).class = old.class /\ ~NewView(s, n).active
    BY <2>1, <2>2 DEF View
  <2> QED BY <1>3, <2>3
<1>4. CASE s \notin visible /\ ~(old # None /\ new # None /\ new.number = old.number)
  BY <1>4 DEF NewView
<1> QED BY <1>2, <1>3, <1>4

\* The client's side of a packet that refers to frame n.
LEMMA PacketIsSent ==
  ASSUME FramesTypeOK, WorldInv, NEW n, NEW omitted, Sendable(n, omitted),
         NEW update \in BOOLEAN, NEW implicit, Packet(n, update, omitted, implicit)
  PROVE  /\ tick' = tick + 1 /\ UNCHANGED <<world, visible, created, used>>
         /\ views' \in [Retained' -> [Slots -> View \cup {None}]]
         /\ \A k \in Retained' \ {tick + 1} : k \in Retained /\ views'[k] = views[k]
         /\ \A s \in Slots : views'[tick + 1][s] = NewView(s, n)
         /\ given' \in [0..1 -> [Slots -> Baseline \cup {None}]]
         /\ pending' \in BOOLEAN
<1>1. /\ tick' = tick + 1 /\ UNCHANGED <<world, visible, created, used>>
      /\ pending' = (pending \/ update)
      /\ views' = [k \in Acknowledgeable |->
                      IF k = tick + 1 THEN [s \in Slots |-> NewView(s, n)] ELSE views[k]]
      /\ given' = IF update
            THEN [given EXCEPT ![1 - used] = [s \in Slots |->
                    IF s \in {r \in Slots \ omitted : Enters(r, n)}
                    THEN [class |-> world[s].class, props |-> world[s].props]
                    ELSE given[1 - used][s]]]
            ELSE given
  BY DEF Packet
<1>2. /\ Retained' = {k \in Retained : k > tick + 1 - MaxHistory} \cup {tick + 1}
      /\ Acknowledgeable = Retained'
  BY <1>1, RetainedNext
<1>3. [s \in Slots |-> NewView(s, n)] \in [Slots -> View \cup {None}]
  BY NewViewIsTyped DEF Sendable
<1>4. views' \in [Retained' -> [Slots -> View \cup {None}]]
  BY <1>1, <1>2, <1>3 DEF FramesTypeOK
<1>5. \A k \in Retained' \ {tick + 1} : k \in Retained /\ views'[k] = views[k]
  BY <1>1, <1>2
<1>6. \A s \in Slots : views'[tick + 1][s] = NewView(s, n)
  BY <1>1, <1>2
<1>7. given' \in [0..1 -> [Slots -> Baseline \cup {None}]]
  <2> DEFINE filled == [s \in Slots |->
                    IF s \in {r \in Slots \ omitted : Enters(r, n)}
                    THEN [class |-> world[s].class, props |-> world[s].props]
                    ELSE given[1 - used][s]]
  <2>1. 1 - used \in 0..1
    BY DEF FramesTypeOK
  <2>2. ASSUME NEW s \in Slots PROVE filled[s] \in Baseline \cup {None}
    <3>1. CASE s \in {r \in Slots \ omitted : Enters(r, n)}
      <4>1. world[s] \in Entity
        BY <3>1 DEF Enters, WorldInv, FramesTypeOK
      <4>2. [class |-> world[s].class, props |-> world[s].props] \in Baseline
        BY <4>1 DEF Entity, Baseline, Known
      <4> QED BY <3>1, <4>2
    <3>2. CASE s \notin {r \in Slots \ omitted : Enters(r, n)}
      BY <2>1, <3>2 DEF FramesTypeOK
    <3> QED BY <3>1, <3>2
  <2>3. filled \in [Slots -> Baseline \cup {None}]
    BY <2>2
  <2> HIDE DEF filled
  <2>4. given' = IF update THEN [given EXCEPT ![1 - used] = filled] ELSE given
    BY <1>1 DEF filled
  <2> QED BY <2>3, <2>4 DEF FramesTypeOK
<1>8. pending' \in BOOLEAN
  BY <1>1 DEF FramesTypeOK
<1> QED BY <1>1, <1>4, <1>5, <1>6, <1>7, <1>8

\* The decoder's side: it reaches the server's state, and an entity has its own
\* lifetime, or the fresh one that it begins with.
Advances(n) ==
    /\ DOMAIN frames' = Retained' /\ dynamic' = given'
    /\ frames' \in [Retained' -> [Slots -> Snapshot \cup {None}]]
    /\ lifetime' \in Nat /\ lifetime <= lifetime'
    /\ \A k \in Retained' \ {tick + 1} : frames'[k] = frames[k]
    /\ \A s \in Slots :
          LET f == frames'[tick + 1][s]
              v == NewView(s, n)
          IN  /\ Matches(s, f, v)
              /\ f # None =>
                    \/ lifetime <= f.lifetime /\ f.lifetime < lifetime'
                    \/ /\ n \in Retained
                       /\ frames[n][s] # None /\ f.lifetime = frames[n][s].lifetime
                       /\ views[n][s] # None /\ views[n][s].number = v.number

LEMMA PacketIsDecoded ==
  ASSUME Decoding, ReplayTypeOK, MappingsInv, NEW n, NEW omitted, Sendable(n, omitted),
         NEW update \in BOOLEAN, Packet(n, update, omitted, ImplicitPlayers(tick + 1))
  PROVE  \/ refused' = TRUE /\ Local \in touched /\ UNCHANGED <<frames, dynamic, lifetime>>
         \/ UNCHANGED refused /\ Advances(n)
<1> DEFINE u(s) == Update(s, n, omitted)
           source == Source(n)
           implicit == ImplicitPlayers(tick + 1)
           begun == {s \in Slots : Begins(u(s), s, source)}
           Fresh(s) == lifetime + Cardinality({t \in begun : t < s})
           frame == [s \in Slots |-> Applied(u(s), s, source, n, used, Fresh(s))]
           entered == {s \in Slots : u(s).kind = "enter"}
           errs == \E s \in Slots : Refuses(u(s), s, source, implicit)
<1>1. /\ tick' = tick + 1
      /\ \A k \in Retained' \ {tick + 1} : k \in Retained
  BY PacketIsSent DEF Decoding
<1>2. Decode([s \in Slots |-> u(s)], n, used, update, implicit)
  BY DEF Packet, Update
<1>3. ~(n # 0 /\ n \notin DOMAIN frames) /\ DOMAIN frames = Retained
  BY DEF Decoding, DecoderInv, Sendable
<1>4. CASE errs
  <2>1. PICK s \in Slots : Refuses(u(s), s, source, implicit)
    BY <1>4
  <2>2. 0 \in Nat
    OBVIOUS
  <2>3. Local \in touched
    BY <2>1, <2>2, UpdateIsDecoded
  <2>4. refused' = TRUE /\ UNCHANGED <<frames, dynamic, lifetime>>
    BY <1>2, <1>4 DEF Decode, Source
  <2> QED BY <2>3, <2>4
<1>5. CASE ~errs
  <2>1. /\ frames' = [k \in Kept \cup {tick + 1} |-> IF k = tick + 1 THEN frame ELSE frames[k]]
        /\ dynamic' = IF update
              THEN [dynamic EXCEPT ![1 - used] = [s \in Slots |->
                      IF s \in entered
                      THEN [class |-> frame[s].class, props |-> frame[s].props]
                      ELSE dynamic[1 - used][s]]]
              ELSE dynamic
        /\ lifetime' = lifetime + Cardinality(begun)
        /\ UNCHANGED refused
    BY <1>2, <1>3, <1>5 DEF Decode, Source
  <2>2. ASSUME NEW s \in Slots
        PROVE  /\ Fresh(s) \in Nat /\ lifetime <= Fresh(s)
               /\ lifetime' \in Nat /\ lifetime <= lifetime'
               /\ s \in begun => Fresh(s) < lifetime'
    BY <2>1, FreshIsNew DEF Decoding
  <2>3. ASSUME NEW s \in Slots
        PROVE  /\ Decoded(s, n, u(s), Fresh(s))
               /\ s \in entered <=> s \notin omitted /\ Enters(s, n)
               /\ s \in entered => /\ frame[s].class = world[s].class
                                   /\ frame[s].props = world[s].props
    <3>1. Fresh(s) \in Nat
      BY <2>2
    <3> HIDE DEF Fresh
    <3>2. /\ u(s).kind = "enter" <=> s \notin omitted /\ Enters(s, n)
          /\ u(s).kind = "enter" => /\ frame[s].class = world[s].class
                                    /\ frame[s].props = world[s].props
          /\ ~Refuses(u(s), s, source, implicit) => Decoded(s, n, u(s), Fresh(s))
      BY <3>1, UpdateIsDecoded
    <3> QED BY <1>5, <3>2
  <2>4. DOMAIN frames' = Retained' /\ frames'[tick + 1] = frame
        /\ \A k \in Retained' \ {tick + 1} : frames'[k] = frames[k]
    <3>1. Kept \cup {tick + 1} = Retained'
      BY <1>1, <1>3, RetainedNext DEF Decoding
    <3> HIDE DEF frame
    <3> QED BY <2>1, <3>1
  <2>5. frame \in [Slots -> Snapshot \cup {None}]
    BY <2>3 DEF Decoded
  <2>6. frames' \in [Retained' -> [Slots -> Snapshot \cup {None}]]
    <3> HIDE DEF frame
    <3>1. \A k \in Retained' \ {tick + 1} : frames[k] \in [Slots -> Snapshot \cup {None}]
      BY <1>1, <1>3 DEF Decoding, FramesTypeOK
    <3>2. \A k \in Retained' : frames'[k] \in [Slots -> Snapshot \cup {None}]
      BY <2>4, <2>5, <3>1
    <3>3. frames' = [k \in DOMAIN frames' |-> frames'[k]]
      BY <2>1
    <3> QED BY <2>4, <3>2, <3>3
  <2>7. dynamic' = given'
    <3> DEFINE stored == [s \in Slots |->
                      IF s \in entered
                      THEN [class |-> frame[s].class, props |-> frame[s].props]
                      ELSE dynamic[1 - used][s]]
               filled == [s \in Slots |->
                    IF s \in {r \in Slots \ omitted : Enters(r, n)}
                    THEN [class |-> world[s].class, props |-> world[s].props]
                    ELSE given[1 - used][s]]
    <3>1. dynamic = given
      BY DEF Decoding, DecoderInv
    <3>2. stored = filled
      <4>1. ASSUME NEW s \in Slots PROVE stored[s] = filled[s]
        <5>1. s \in entered <=> s \in {r \in Slots \ omitted : Enters(r, n)}
          BY <2>3
        <5>2. s \in entered => frame[s].class = world[s].class /\ frame[s].props = world[s].props
          BY <2>3
        <5> HIDE DEF entered, frame
        <5> QED BY <3>1, <5>1, <5>2
      <4> QED BY <4>1
    <3>3. dynamic' = IF update THEN [dynamic EXCEPT ![1 - used] = stored] ELSE dynamic
      BY <2>1
    <3>4. given' = IF update THEN [given EXCEPT ![1 - used] = filled] ELSE given
      BY DEF Packet
    <3> HIDE DEF stored, filled
    <3> QED BY <3>1, <3>2, <3>3, <3>4
  <2>8. lifetime' \in Nat /\ lifetime <= lifetime'
    <3>1. begun \in SUBSET Slots /\ IsFiniteSet(Slots)
      BY FramesAssumption
    <3> HIDE DEF begun
    <3>2. Cardinality(begun) \in Nat
      BY <3>1, FS_Subset, FS_CardinalityType
    <3> QED BY <2>1, <3>2 DEF Decoding, FramesTypeOK
  <2>9. ASSUME NEW s \in Slots
        PROVE  LET f == frame[s]
                   v == NewView(s, n)
               IN  /\ Matches(s, f, v)
                   /\ f # None =>
                       \/ lifetime <= f.lifetime /\ f.lifetime < lifetime'
                       \/ /\ n \in Retained
                          /\ frames[n][s] # None /\ f.lifetime = frames[n][s].lifetime
                          /\ views[n][s] # None /\ views[n][s].number = v.number
    <3> DEFINE f == frame[s]
               v == NewView(s, n)
    <3>1. /\ Matches(s, f, v)
          /\ f # None /\ s \in begun => f.lifetime = Fresh(s)
          /\ f # None /\ s \notin begun =>
              /\ source[s] # None /\ f.lifetime = source[s].lifetime
              /\ Told(n)[s] # None /\ Told(n)[s].number = v.number
      BY <2>3 DEF Decoded
    <3>2. source[s] # None => n \in Retained /\ source[s] = frames[n][s] /\ Told(n)[s] = views[n][s]
      BY DEF Source, Nothing, Told, Sendable
    <3>3. Fresh(s) \in Nat /\ lifetime <= Fresh(s) /\ (s \in begun => Fresh(s) < lifetime')
      BY <2>2
    <3> HIDE DEF f, v, begun, Fresh, source
    <3>4. /\ Matches(s, f, v)
          /\ f # None =>
                \/ lifetime <= f.lifetime /\ f.lifetime < lifetime'
                \/ /\ n \in Retained
                   /\ frames[n][s] # None /\ f.lifetime = frames[n][s].lifetime
                   /\ views[n][s] # None /\ views[n][s].number = v.number
      BY <3>1, <3>2, <3>3
    <3> QED BY <3>4 DEF f, v
  <2> HIDE DEF frame
  <2> QED BY <2>1, <2>4, <2>6, <2>7, <2>8, <2>9 DEF Advances
<1> QED BY <1>4, <1>5

\* What the client is shown by a packet that refers to frame n.
Shows(n) ==
    /\ n \in Retained \cup {0}
    /\ \A k \in Retained' \ {tick + 1} : k \in Retained /\ views'[k] = views[k]
    /\ \A s \in Slots : views'[tick + 1][s] = NewView(s, n)

\* Any packet, with its projection.
LEMMA RecordIsPacket ==
  ASSUME IInv, ~refused, Record
  PROVE  /\ tick' = tick + 1
         /\ UNCHANGED <<world, visible, created, identity, ended, attributed>>
         /\ FramesTypeOK'
         /\ \E n : /\ Shows(n)
                   /\ \/ /\ refused' /\ Local \in touched
                         /\ UNCHANGED <<frames, dynamic, lifetime, projection>>
                      \/ ~refused' /\ Advances(n) /\ Project(frames'[tick + 1], tick + 1)
<1>1. PICK n \in DOMAIN views \cup {0}, update \in BOOLEAN, omitted \in {{}, {Local} \cap visible} :
          Packet(n, update, omitted, ImplicitPlayers(tick + 1))
  BY DEF Record
<1>2. Sendable(n, omitted)
  <2>1. DOMAIN views = Retained
    BY DEF IInv, FramesTypeOK
  <2>2. omitted # {} => n = 0
    BY <1>1 DEF Packet
  <2> QED BY <1>1, <2>1, <2>2 DEF Sendable
<1>3. Decoding /\ ReplayTypeOK /\ MappingsInv
  BY DEF IInv, Decoding
<1>4. /\ tick' = tick + 1 /\ UNCHANGED <<world, visible, created, used>>
      /\ views' \in [Retained' -> [Slots -> View \cup {None}]]
      /\ given' \in [0..1 -> [Slots -> Baseline \cup {None}]]
      /\ pending' \in BOOLEAN /\ Shows(n)
  BY <1>1, <1>2, <1>3, PacketIsSent DEF Decoding, Shows, Sendable
<1>5. \/ refused' = TRUE /\ Local \in touched /\ UNCHANGED <<frames, dynamic, lifetime>>
      \/ UNCHANGED refused /\ Advances(n)
  BY <1>1, <1>2, <1>3, PacketIsDecoded
<1>6. /\ UNCHANGED <<identity, ended, attributed>>
      /\ IF refused' THEN UNCHANGED projection ELSE Project(frames'[tick'], tick')
  BY DEF Record
<1>7. FramesTypeOK'
  <2>1. /\ world' \in [Slots -> Entity \cup {None}]
        /\ visible' \subseteq Slots /\ created' \in Nat /\ tick' \in Nat /\ used' \in 0..1
    BY <1>3, <1>4 DEF Decoding, FramesTypeOK
  <2>2. /\ refused' \in BOOLEAN /\ lifetime' \in Nat
        /\ dynamic' \in [0..1 -> [Slots -> Baseline \cup {None}]]
        /\ DOMAIN frames' \subseteq Nat
        /\ frames' \in [DOMAIN frames' -> [Slots -> Snapshot \cup {None}]]
    <3>1. CASE UNCHANGED <<frames, dynamic, lifetime>> /\ refused' = TRUE
      BY <1>3, <3>1 DEF Decoding, FramesTypeOK
    <3>2. CASE UNCHANGED refused /\ Advances(n)
      <4>1. Retained' \subseteq Nat
        BY DEF Retained
      <4> QED BY <1>3, <1>4, <3>2, <4>1 DEF Decoding, FramesTypeOK, Advances
    <3> QED BY <1>5, <3>1, <3>2
  <2> QED BY <1>4, <2>1, <2>2 DEF FramesTypeOK
<1>8. \/ /\ refused' /\ Local \in touched
         /\ UNCHANGED <<frames, dynamic, lifetime, projection>>
      \/ ~refused' /\ Advances(n) /\ Project(frames'[tick + 1], tick + 1)
  BY <1>4, <1>5, <1>6
<1> QED BY <1>4, <1>6, <1>7, <1>8

-----------------------------------------------------------------------------
(* Steps of the server and the decoder *)

LEMMA RecordKeepsViews ==
  ASSUME IInv, ~refused, Record
  PROVE  WorldInv' /\ ViewsInv' /\ MappingsInv'
<1>1. /\ tick' = tick + 1
      /\ UNCHANGED <<world, visible, created, occupant, touched, mappings>>
  BY RecordIsPacket DEF identity
<1>2. PICK n : Shows(n)
  BY RecordIsPacket
<1>3. WorldInv'
  BY <1>1 DEF IInv, WorldInv
<1>4. ViewsInv'
  <2> SUFFICES ASSUME NEW k \in Retained', NEW s \in Slots, views'[k][s] # None
               PROVE  /\ views'[k][s].number < created
                      /\ world[s] # None /\ views'[k][s].number = world[s].number
                            => views'[k][s].class = world[s].class
    BY <1>1 DEF ViewsInv
  <2>1. CASE k # tick + 1
    BY <1>2, <2>1 DEF Shows, IInv, ViewsInv
  <2>2. CASE k = tick + 1
    <3>1. views'[k][s] = NewView(s, n) /\ n \in Retained \cup {0}
      BY <1>2, <2>2 DEF Shows
    <3>2. /\ world[s] # None /\ NewView(s, n).number = world[s].number
          /\ s \in visible => NewView(s, n).class = world[s].class
      BY <3>1, NewViewIsTyped DEF IInv
    <3>3. world[s].number < created
      BY <3>2 DEF IInv, WorldInv
    <3>4. s \notin visible => NewView(s, n).class = world[s].class
      <4> SUFFICES ASSUME s \notin visible PROVE NewView(s, n).class = world[s].class
        OBVIOUS
      <4>1. Told(n)[s] # None /\ Told(n)[s].number = world[s].number
        BY <3>1, <3>2 DEF NewView
      <4>2. NewView(s, n).class = Told(n)[s].class
        BY <3>1, NewViewIsTyped DEF IInv
      <4>3. n \in Retained /\ Told(n)[s] = views[n][s]
        BY <3>1, <4>1 DEF Told, Nothing
      <4> QED BY <3>2, <4>1, <4>2, <4>3 DEF IInv, ViewsInv
    <3> QED BY <3>1, <3>2, <3>3, <3>4
  <2> QED BY <2>1, <2>2
<1>5. MappingsInv'
  <2>1. \A m \in mappings : m.tick <= tick + 1 + 1
    <3>1. tick \in Nat /\ \A m \in mappings : m.tick \in Nat /\ m.tick <= tick + 1
      BY DEF IInv, FramesTypeOK, ReplayTypeOK, Mapping, MappingsInv
    <3> QED BY <3>1
  <2> QED BY <1>1, <2>1 DEF IInv, MappingsInv
<1> QED BY <1>3, <1>4, <1>5

LEMMA RecordKeepsDecoder ==
  ASSUME IInv, ~refused, Record
  PROVE  DecoderInv' /\ FramesAreSent'
<1>1. tick' = tick + 1 /\ touched' = touched /\ FramesTypeOK'
  BY RecordIsPacket DEF identity
<1>2. DecoderInv /\ FramesTypeOK
  BY DEF IInv
<1>3. PICK n : /\ Shows(n)
               /\ \/ refused' /\ Local \in touched /\ UNCHANGED <<frames, dynamic, lifetime>>
                  \/ ~refused' /\ Advances(n)
  BY RecordIsPacket
<1>4. CASE refused' /\ Local \in touched /\ UNCHANGED <<frames, dynamic, lifetime>>
  <2>1. DecoderInv'
    BY <1>4 DEF DecoderInv
  <2>2. ASSUME NEW k \in DOMAIN frames \cap DOMAIN views', NEW s \in Slots
        PROVE  Matches(s, frames[k][s], views'[k][s])
    <3>1. k \in Retained /\ k \in Retained' /\ k # tick + 1
      BY <1>1, <1>2, RetainedNext DEF DecoderInv, FramesTypeOK
    <3> QED BY <1>2, <1>3, <3>1 DEF Shows, DecoderInv
  <2>3. FramesAreSent'
    BY <1>1, <1>4, <2>2 DEF FramesAreSent, Matches
  <2> QED BY <2>1, <2>3
<1>5. CASE ~refused' /\ Advances(n)
  <2>1. DOMAIN frames' = Retained' /\ dynamic' = given'
    BY <1>5 DEF Advances
  <2>2. ASSUME NEW k \in Retained', NEW s \in Slots
        PROVE  /\ Matches(s, frames'[k][s], views'[k][s])
               /\ frames'[k][s] # None => frames'[k][s].lifetime < lifetime'
    <3>1. CASE k # tick + 1
      <4>1. k \in Retained /\ frames'[k] = frames[k] /\ views'[k] = views[k]
        BY <1>3, <1>5, <3>1 DEF Shows, Advances
      <4>2. frames[k][s] # None => /\ frames[k][s].lifetime \in Nat
                                   /\ frames[k][s].lifetime < lifetime
        BY <1>2, <4>1 DEF FramesTypeOK, DecoderInv, Snapshot
      <4>3. lifetime \in Nat /\ lifetime' \in Nat /\ lifetime <= lifetime'
        BY <1>2, <1>5 DEF FramesTypeOK, Advances
      <4> QED BY <1>2, <4>1, <4>2, <4>3 DEF DecoderInv
    <3>2. CASE k = tick + 1
      <4>1. views'[k][s] = NewView(s, n)
        BY <1>3, <3>2 DEF Shows
      <4>2. Matches(s, frames'[k][s], views'[k][s])
        BY <1>5, <3>2, <4>1 DEF Advances
      <4>3. ASSUME frames'[k][s] # None, n \in Retained, frames[n][s] # None,
                   frames'[k][s].lifetime = frames[n][s].lifetime
            PROVE  frames'[k][s].lifetime < lifetime'
        <5>1. /\ frames[n][s].lifetime \in Nat /\ frames[n][s].lifetime < lifetime
              /\ lifetime \in Nat
          BY <1>2, <4>3 DEF FramesTypeOK, DecoderInv, Snapshot
        <5>2. lifetime' \in Nat /\ lifetime <= lifetime'
          BY <1>5 DEF Advances
        <5> QED BY <4>3, <5>1, <5>2
      <4>4. frames'[k][s] # None => frames'[k][s].lifetime < lifetime'
        BY <1>5, <3>2, <4>3 DEF Advances
      <4> QED BY <4>2, <4>4
    <3> QED BY <3>1, <3>2
  <2>3. ASSUME NEW k \in Retained', NEW s \in Slots, k # tick + 1,
               frames'[k][s] # None, frames'[tick + 1][s] # None,
               frames'[k][s].lifetime = frames'[tick + 1][s].lifetime
        PROVE  views'[k][s].number = views'[tick + 1][s].number
    <3>1. k \in Retained /\ frames'[k] = frames[k] /\ views'[k] = views[k]
      BY <1>3, <1>5, <2>3 DEF Shows, Advances
    <3>2. /\ frames[k][s].lifetime \in Nat /\ frames[k][s].lifetime < lifetime
          /\ lifetime \in Nat
      BY <1>2, <2>3, <3>1 DEF FramesTypeOK, DecoderInv, Snapshot
    <3>3. /\ n \in Retained /\ frames[n][s] # None
          /\ frames'[tick + 1][s].lifetime = frames[n][s].lifetime
          /\ views[n][s].number = NewView(s, n).number
      BY <1>5, <2>3, <3>1, <3>2 DEF Advances
    <3>4. views[k][s].number = views[n][s].number
      BY <1>2, <2>3, <3>1, <3>3 DEF DecoderInv
    <3> QED BY <1>3, <3>1, <3>3, <3>4 DEF Shows
  <2>4. ASSUME NEW k \in Retained', NEW m \in Retained', NEW s \in Slots,
               frames'[k][s] # None, frames'[m][s] # None,
               frames'[k][s].lifetime = frames'[m][s].lifetime
        PROVE  views'[k][s].number = views'[m][s].number
    <3>1. CASE k # tick + 1 /\ m # tick + 1
      <4>1. /\ k \in Retained /\ frames'[k] = frames[k] /\ views'[k] = views[k]
            /\ m \in Retained /\ frames'[m] = frames[m] /\ views'[m] = views[m]
        BY <1>3, <1>5, <3>1 DEF Shows, Advances
      <4> QED BY <1>2, <2>4, <4>1 DEF DecoderInv
    <3> QED BY <2>3, <2>4, <3>1
  <2>5. DecoderInv'
    BY <2>1, <2>2, <2>4 DEF DecoderInv
  <2>6. FramesAreSent'
    BY <1>5, <2>1, <2>2 DEF FramesAreSent, Matches
  <2> QED BY <2>5, <2>6
<1> QED BY <1>3, <1>4, <1>5

-----------------------------------------------------------------------------
(* The projection of a frame *)

\* The epoch that begins in slot s at the next tick.
Opened(s, frame) ==
    [slot |-> s, lifetime |-> frame[s].lifetime, user |-> UserAt(s, tick + 1),
     from |-> tick + 1, to |-> None, owner |-> world[s].owner]

\* Epoch d, which may have ended since.
SameStart(e, d) ==
    /\ e.slot = d.slot /\ e.lifetime = d.lifetime /\ e.user = d.user
    /\ e.from = d.from /\ e.owner = d.owner

\* A decoded packet and its projection.
Projects(n) ==
    /\ Shows(n) /\ Advances(n) /\ tick' = tick + 1
    /\ Project(frames'[tick + 1], tick + 1)

\* The entities of players that are seen are those of their slots' users.
LEMMA SeenIsPlayer ==
  ASSUME IInv, NEW n, Projects(n), NEW s \in Seen(frames'[tick + 1])
  PROVE  LET f == frames'[tick + 1][s]
         IN  /\ s \in Slots /\ f # None /\ f \in Snapshot
             /\ s \in PlayerSlots /\ world[s] # None
             /\ world[s].owner = occupant[s] /\ occupant[s] \in Users
             /\ NewView(s, n).number = world[s].number
<1> DEFINE f == frames'[tick + 1][s]
<1>1. s \in Slots /\ f # None /\ f.active /\ f.class = Player
  BY DEF Seen
<1>2. f \in Snapshot
  <2>1. tick + 1 \in Retained'
    BY RetainedNext DEF Projects, IInv
  <2>2. f \in Snapshot \cup {None}
    BY <1>1, <2>1 DEF Projects, Advances
  <2> QED BY <1>1, <2>2
<1>3. NewView(s, n) # None /\ Faithful(f, NewView(s, n))
  BY <1>1 DEF Projects, Advances, Matches
<1>4. NewView(s, n).active /\ NewView(s, n).class = Player
  BY <1>1, <1>3 DEF Faithful
<1>5. world[s] # None /\ NewView(s, n).number = world[s].number /\ world[s].class = Player
  BY <1>1, <1>3, <1>4, NewViewIsTyped DEF Projects, Shows, IInv
<1>6. s \in PlayerSlots /\ occupant[s] # None /\ world[s].owner = occupant[s]
  BY <1>1, <1>5 DEF IInv, WorldInv
<1>7. occupant[s] \in Users
  BY <1>6 DEF IInv, ReplayTypeOK
<1> QED BY <1>1, <1>2, <1>5, <1>6, <1>7


\* Every epoch began before or begins now.
LEMMA EpochsAfter ==
  ASSUME IInv, NEW n, Projects(n)
  PROVE  LET frame == frames'[tick + 1]
         IN  /\ \A s \in Slots :
                  \/ s \notin Seen(frame) /\ active'[s] = None
                  \/ /\ s \in Seen(frame) /\ active[s] # None /\ active'[s] = active[s]
                     /\ active[s].lifetime = frame[s].lifetime
                  \/ /\ s \in Seen(frame) /\ active'[s] = Opened(s, frame)
                     /\ active[s] # None => active[s].lifetime # frame[s].lifetime
             /\ \A c \in completed' :
                  \/ c \in completed
                  \/ \E s \in Slots : /\ active[s] # None /\ c = [active[s] EXCEPT !.to = tick + 1]
                                      /\ active'[s] = None \/ active'[s] = Opened(s, frame)
             /\ \A e \in Epochs' :
                  \/ \E d \in Epochs : SameStart(e, d)
                  \/ \E s \in Seen(frame) : e = Opened(s, frame)
<1> DEFINE frame == frames'[tick + 1]
<1>1. /\ active' = NewActive(frame, tick + 1)
      /\ completed' = NewCompleted(frame, tick + 1)
  BY DEF Projects, Project
<1>2. ASSUME NEW s \in Slots
      PROVE  \/ s \notin Seen(frame) /\ active'[s] = None
             \/ /\ s \in Seen(frame) /\ active[s] # None /\ active'[s] = active[s]
                /\ active[s].lifetime = frame[s].lifetime
             \/ /\ s \in Seen(frame) /\ active'[s] = Opened(s, frame)
                /\ active[s] # None => active[s].lifetime # frame[s].lifetime
  <2> HIDE DEF frame
  <2>1. CASE s \notin Seen(frame)
    BY <1>1, <2>1 DEF NewActive
  <2>2. CASE s \in Seen(frame) /\ Continues(s, frame)
    BY <1>1, <2>2 DEF NewActive, Continues
  <2>3. CASE s \in Seen(frame) /\ ~Continues(s, frame)
    <3>1. active'[s] = Opened(s, frame)
      BY <1>1, <2>3 DEF NewActive, Opened
    <3> QED BY <2>3, <3>1 DEF Continues
  <2> QED BY <2>1, <2>2, <2>3
<1>3. ASSUME NEW c \in completed'
      PROVE  \/ c \in completed
             \/ \E s \in Slots : /\ active[s] # None /\ c = [active[s] EXCEPT !.to = tick + 1]
                                 /\ active'[s] = None \/ active'[s] = Opened(s, frame)
  <2> HIDE DEF frame
  <2>1. \/ c \in completed
        \/ \E s \in Slots : /\ active[s] # None /\ ~(s \in Seen(frame) /\ Continues(s, frame))
                            /\ c = [active[s] EXCEPT !.to = tick + 1]
    BY <1>1 DEF NewCompleted
  <2>2. ASSUME NEW s \in Slots, active[s] # None, ~(s \in Seen(frame) /\ Continues(s, frame))
        PROVE  active'[s] = None \/ active'[s] = Opened(s, frame)
    BY <1>2, <2>2 DEF Continues
  <2> QED BY <2>1, <2>2
<1>4. ASSUME NEW e \in Epochs'
      PROVE  \/ \E d \in Epochs : SameStart(e, d)
             \/ \E s \in Seen(frame) : e = Opened(s, frame)
  <2> HIDE DEF frame
  <2>1. e \in completed' \/ \E s \in Slots : active'[s] # None /\ e = active'[s]
    BY DEF Epochs
  <2>2. CASE e \in completed
    <3>1. e \in Epochs
      BY <2>2 DEF Epochs
    <3> QED BY <3>1 DEF SameStart
  <2>3. ASSUME NEW s \in Slots, active[s] # None, e = [active[s] EXCEPT !.to = tick + 1]
        PROVE  \E d \in Epochs : SameStart(e, d)
    <3>1. active[s] \in Epochs
      BY <2>3 DEF Epochs
    <3>2. active[s] \in Epoch
      BY <2>3 DEF IInv, ReplayTypeOK
    <3>3. SameStart(e, active[s])
      BY <2>3, <3>2 DEF SameStart, Epoch
    <3> QED BY <3>1, <3>3
  <2>4. ASSUME NEW s \in Slots, active'[s] # None, e = active'[s]
        PROVE  \/ \E d \in Epochs : SameStart(e, d)
               \/ \E r \in Seen(frame) : e = Opened(r, frame)
    <3>1. CASE s \in Seen(frame) /\ active'[s] = Opened(s, frame)
      BY <2>4, <3>1
    <3>2. CASE active[s] # None /\ active'[s] = active[s]
      <4>1. e \in Epochs
        BY <2>4, <3>2 DEF Epochs
      <4> QED BY <4>1 DEF SameStart
    <3> QED BY <1>2, <2>4, <3>1, <3>2
  <2> QED BY <1>3, <2>1, <2>2, <2>3, <2>4
<1> QED BY <1>2, <1>3, <1>4

\* An epoch that begins has the name of its player, if that is known by then, and is
\* of no other entity than earlier epochs with its lifetime.
LEMMA OpenedIsTheirs ==
  ASSUME IInv, ~refused, NEW n, Projects(n), NEW s \in Seen(frames'[tick + 1])
  PROVE  LET e == Opened(s, frames'[tick + 1])
         IN  /\ e \in Epoch /\ e.slot = s /\ e.slot \in PlayerSlots
             /\ e.owner = world[s].owner /\ e.owner \in Users
             /\ e.user \in {None, e.owner}
             /\ (s \notin touched \/ \E m \in mappings : m.slot = s) => e.user = e.owner
             /\ e.lifetime < lifetime'
             /\ \A d \in Epochs : d.slot = s /\ d.lifetime = e.lifetime => d.owner = e.owner
<1> DEFINE f == frames'[tick + 1][s]
           e == Opened(s, frames'[tick + 1])
<1>1. /\ s \in Slots /\ f # None /\ f \in Snapshot
      /\ s \in PlayerSlots /\ world[s] # None
      /\ world[s].owner = occupant[s] /\ occupant[s] \in Users
      /\ NewView(s, n).number = world[s].number
  BY SeenIsPlayer
<1>2. /\ UserAt(s, tick + 1) \in {None, occupant[s]}
      /\ (\E m \in mappings : m.slot = s) => UserAt(s, tick + 1) = occupant[s]
  BY <1>1, UserNow DEF IInv
<1>3. s \notin touched => \E m \in mappings : m.slot = s
  <2>1. occupant[s] # None
    BY <1>1, FramesAssumption
  <2> QED BY <1>1, <2>1 DEF IInv, MappingsInv
<1> HIDE DEF f
<1>4. e = [slot |-> s, lifetime |-> f.lifetime, user |-> UserAt(s, tick + 1),
           from |-> tick + 1, to |-> None, owner |-> world[s].owner]
  BY DEF Opened, f
<1> HIDE DEF e
<1>5. e \in Epoch
  <2>1. f.lifetime \in Nat /\ tick + 1 \in Nat
    BY <1>1 DEF Snapshot, IInv, FramesTypeOK
  <2>2. UserAt(s, tick + 1) \in Users \cup {None} /\ world[s].owner \in Users \cup {None}
    BY <1>1, <1>2
  <2> QED BY <1>1, <1>4, <2>1, <2>2 DEF Epoch
<1>6. \/ lifetime <= f.lifetime /\ f.lifetime < lifetime'
      \/ /\ n \in Retained
         /\ frames[n][s] # None /\ f.lifetime = frames[n][s].lifetime
         /\ views[n][s] # None /\ views[n][s].number = NewView(s, n).number
  BY <1>1 DEF Projects, Advances, f
<1>7. lifetime \in Nat /\ lifetime' \in Nat /\ lifetime <= lifetime' /\ f.lifetime \in Nat
  BY <1>1 DEF Projects, Advances, IInv, FramesTypeOK, Snapshot
<1>8. f.lifetime < lifetime'
  <2>1. CASE n \in Retained /\ frames[n][s] # None /\ f.lifetime = frames[n][s].lifetime
    <3>1. f.lifetime < lifetime
      BY <1>1, <2>1 DEF IInv, DecoderInv
    <3> QED BY <1>7, <3>1
  <2> QED BY <1>6, <2>1
<1>9. ASSUME NEW d \in Epochs, d.slot = s, d.lifetime = f.lifetime
      PROVE  d.owner = world[s].owner
  <2>1. d.lifetime < lifetime
    BY DEF IInv, EpochsInv
  <2>2. /\ n \in Retained
        /\ frames[n][s] # None /\ d.lifetime = frames[n][s].lifetime
        /\ views[n][s].number = world[s].number
    BY <1>1, <1>6, <1>7, <1>9, <2>1
  <2> QED BY <1>1, <1>9, <2>2 DEF IInv, OpenInv
<1>10. /\ e.slot = s /\ e.lifetime = f.lifetime /\ e.user = UserAt(s, tick + 1)
       /\ e.owner = world[s].owner
  BY <1>4
<1> QED BY <1>1, <1>2, <1>3, <1>5, <1>8, <1>9, <1>10 DEF e

-----------------------------------------------------------------------------
(* Steps of the projection *)

LEMMA RecordIsProjection ==
  ASSUME IInv, ~refused, Record
  PROVE  /\ tick' = tick + 1
         /\ UNCHANGED <<world, occupant, touched, mappings, ended, attributed>>
         /\ \E n : \/ refused' /\ UNCHANGED <<frames, lifetime, active, completed, read>>
                   \/ ~refused' /\ Projects(n)
BY RecordIsPacket DEF identity, projection, Projects

LEMMA RecordKeepsTypes ==
  ASSUME IInv, ~refused, Record
  PROVE  ReplayTypeOK'
<1>1. /\ UNCHANGED <<occupant, touched, mappings, ended>>
  BY RecordIsProjection
<1>2. PICK n : \/ UNCHANGED <<active, completed>>
               \/ Projects(n)
  BY RecordIsProjection
<1>3. ReplayTypeOK
  BY DEF IInv
<1>4. CASE UNCHANGED <<active, completed>>
  BY <1>1, <1>3, <1>4 DEF ReplayTypeOK
<1>5. CASE Projects(n)
  <2> DEFINE frame == frames'[tick + 1]
  <2>2. \A s \in Seen(frame) : Opened(s, frame) \in Epoch
    BY <1>5, OpenedIsTheirs
  <2>3. ASSUME NEW s \in Slots PROVE active'[s] \in Epoch \cup {None}
    <3>1. \/ active'[s] = None
          \/ active'[s] = active[s]
          \/ s \in Seen(frame) /\ active'[s] = Opened(s, frame)
      BY <1>5, EpochsAfter
    <3> HIDE DEF frame
    <3> QED BY <1>3, <2>2, <3>1 DEF ReplayTypeOK
  <2>4. active' = [s \in Slots |-> active'[s]]
    BY <1>5 DEF Projects, Project, NewActive
  <2>5. ASSUME NEW c \in completed' PROVE c \in Epoch
    <3>1. \/ c \in completed
          \/ \E s \in Slots : active[s] # None /\ c = [active[s] EXCEPT !.to = tick + 1]
      BY <1>5, EpochsAfter
    <3>2. ASSUME NEW s \in Slots, active[s] # None, c = [active[s] EXCEPT !.to = tick + 1]
          PROVE  c \in Epoch
      <4>1. active[s] \in Epoch /\ tick + 1 \in Nat
        BY <1>3, <3>2 DEF ReplayTypeOK, IInv, FramesTypeOK
      <4> QED BY <3>2, <4>1 DEF Epoch
    <3> QED BY <1>3, <3>1, <3>2 DEF ReplayTypeOK
  <2>6. active' \in [Slots -> Epoch \cup {None}]
    BY <2>3, <2>4
  <2> QED BY <1>1, <1>3, <2>5, <2>6 DEF ReplayTypeOK
<1> QED BY <1>2, <1>4, <1>5

LEMMA RecordKeepsEpochs ==
  ASSUME IInv, ~refused, Record
  PROVE  EpochsInv'
<1>1. /\ tick' = tick + 1 /\ UNCHANGED <<touched, mappings>>
  BY RecordIsProjection
<1>2. PICK n : \/ UNCHANGED <<lifetime, active, completed>>
               \/ Projects(n)
  BY RecordIsProjection
<1>3. EpochsInv /\ ReplayTypeOK /\ tick \in Nat
  BY DEF IInv, FramesTypeOK
<1>4. CASE UNCHANGED <<lifetime, active, completed>>
  <2>1. Epochs' = Epochs
    BY <1>4 DEF Epochs
  <2>2. \A e \in Epochs : e.from \in Nat /\ (e.to # None => e.to \in Nat)
    BY <1>3 DEF ReplayTypeOK, Epochs, Epoch
  <2>3. /\ \A e \in Epochs' : e.from <= tick' /\ e.lifetime < lifetime'
        /\ \A c \in completed' : c.to \in Nat /\ c.from <= c.to /\ c.to <= tick'
    <3>1. \A e \in Epochs : e.from <= tick + 1 /\ e.lifetime < lifetime
      BY <1>3, <2>2 DEF EpochsInv
    <3>2. \A c \in completed : c.to \in Nat /\ c.from <= c.to /\ c.to <= tick + 1
      BY <1>3 DEF EpochsInv
    <3> QED BY <1>1, <1>4, <2>1, <3>1, <3>2
  <2> QED BY <1>1, <1>3, <1>4, <2>1, <2>3 DEF EpochsInv
<1>5. CASE Projects(n)
  <2> DEFINE frame == frames'[tick + 1]
  <2>1. ASSUME NEW s \in Seen(frame)
        PROVE  LET e == Opened(s, frame)
               IN  /\ s \in Slots /\ e.slot = s /\ e.slot \in PlayerSlots
                   /\ e.owner \in Users /\ e.user \in {None, e.owner}
                   /\ (s \notin touched \/ \E m \in mappings : m.slot = s) => e.user = e.owner
                   /\ e.lifetime < lifetime'
                   /\ \A d \in Epochs : d.slot = s /\ d.lifetime = e.lifetime => d.owner = e.owner
                   /\ e.from = tick + 1 /\ e.to = None
    <3>1. s \in Slots
      BY DEF Seen
    <3>2. Opened(s, frame).from = tick + 1 /\ Opened(s, frame).to = None
      BY DEF Opened
    <3> QED BY <1>5, <3>1, <3>2, OpenedIsTheirs
  <2>2. \A s \in Slots :
            \/ active'[s] = None
            \/ active[s] # None /\ active'[s] = active[s]
            \/ s \in Seen(frame) /\ active'[s] = Opened(s, frame)
    BY <1>5, EpochsAfter
  <2>3. \A c \in completed' :
            \/ c \in completed
            \/ \E s \in Slots : /\ active[s] # None /\ c = [active[s] EXCEPT !.to = tick + 1]
                                /\ active'[s] = None \/ active'[s] = Opened(s, frame)
    BY <1>5, EpochsAfter
  <2>4. \A e \in Epochs' :
            \/ \E d \in Epochs : SameStart(e, d)
            \/ \E s \in Seen(frame) : e = Opened(s, frame)
    BY <1>5, EpochsAfter
  <2> HIDE DEF frame
  <2>5. \A s \in Slots : active'[s] # None => active'[s].slot = s /\ active'[s].to = None
    BY <1>3, <2>1, <2>2 DEF EpochsInv
  <2>6. lifetime \in Nat /\ lifetime' \in Nat /\ lifetime <= lifetime'
    BY <1>5 DEF Projects, Advances, IInv, FramesTypeOK
  <2>7. \A d \in Epochs : d.from \in Nat /\ d.lifetime \in Nat
    BY <1>3 DEF ReplayTypeOK, Epochs, Epoch
  <2>8. ASSUME NEW e \in Epochs' PROVE e.from <= tick + 1 /\ e.lifetime < lifetime'
    <3>1. ASSUME NEW d \in Epochs, SameStart(e, d) PROVE e.from <= tick + 1 /\ e.lifetime < lifetime'
      <4>1. d.from <= tick /\ d.lifetime < lifetime
        BY <1>3 DEF EpochsInv
      <4> QED BY <1>3, <2>6, <2>7, <3>1, <4>1 DEF SameStart
    <3> QED BY <1>3, <2>1, <2>4, <3>1
  <2>9. ASSUME NEW s \in Slots, active[s] # None
        PROVE  LET c == [active[s] EXCEPT !.to = tick + 1]
               IN  /\ c.to = tick + 1 /\ c.from = active[s].from /\ c.slot = s
                   /\ active[s].from \in Nat /\ active[s].from <= tick /\ active[s] \in Epochs
    <3>1. active[s] \in Epoch /\ active[s] \in Epochs /\ active[s].slot = s
      BY <1>3, <2>9 DEF ReplayTypeOK, Epochs, EpochsInv
    <3>2. active[s].from \in Nat /\ active[s].from <= tick
      BY <1>3, <3>1, <2>7 DEF EpochsInv
    <3> QED BY <3>1, <3>2 DEF Epoch
  <2>10. ASSUME NEW c \in completed'
         PROVE  /\ c.to \in Nat /\ c.from <= c.to /\ c.to <= tick + 1
                /\ active'[c.slot] # None => c.to <= active'[c.slot].from
    <3>1. CASE c \in completed
      <4>1. c.to \in Nat /\ c.from <= c.to /\ c.to <= tick
        BY <1>3, <3>1 DEF EpochsInv
      <4>2. active[c.slot] # None => c.to <= active[c.slot].from
        BY <1>3, <3>1 DEF EpochsInv
      <4>3. c.slot \in Slots
        BY <1>3, <3>1 DEF ReplayTypeOK, Epoch
      <4> QED BY <1>3, <2>1, <2>2, <4>1, <4>2, <4>3
    <3>2. ASSUME NEW s \in Slots, active[s] # None, c = [active[s] EXCEPT !.to = tick + 1],
                 active'[s] = None \/ active'[s] = Opened(s, frame)
          PROVE  /\ c.to \in Nat /\ c.from <= c.to /\ c.to <= tick + 1
                 /\ active'[c.slot] # None => c.to <= active'[c.slot].from
      <4>1. /\ c.to = tick + 1 /\ c.from = active[s].from /\ c.slot = s
            /\ active[s].from \in Nat /\ active[s].from <= tick
        BY <2>9, <3>2
      <4>2. Opened(s, frame).from = tick + 1
        BY DEF Opened
      <4> QED BY <1>3, <3>2, <4>1, <4>2
    <3> QED BY <2>3, <3>1, <3>2
  <2>11. ASSUME NEW c \in completed', NEW d \in completed', c.slot = d.slot, c # d
         PROVE  c.to <= d.from \/ d.to <= c.from
    <3>1. CASE c \in completed /\ d \in completed
      BY <1>3, <2>11, <3>1 DEF EpochsInv
    <3>2. ASSUME NEW e \in completed, NEW f \in completed', e.slot = f.slot, f \notin completed
          PROVE  e.to <= f.from
      <4>1. PICK s \in Slots : active[s] # None /\ f = [active[s] EXCEPT !.to = tick + 1]
        BY <2>3, <3>2
      <4>2. f.slot = s /\ f.from = active[s].from
        BY <2>9, <4>1
      <4> QED BY <1>3, <3>2, <4>1, <4>2 DEF EpochsInv
    <3>3. CASE c \notin completed /\ d \notin completed
      <4>1. PICK s \in Slots : active[s] # None /\ c = [active[s] EXCEPT !.to = tick + 1]
        BY <2>3, <3>3
      <4>2. PICK r \in Slots : active[r] # None /\ d = [active[r] EXCEPT !.to = tick + 1]
        BY <2>3, <3>3
      <4>3. c.slot = s /\ d.slot = r
        BY <2>9, <4>1, <4>2
      <4> QED BY <2>11, <4>1, <4>2, <4>3
    <3> QED BY <2>11, <3>1, <3>2, <3>3
  <2>12. ASSUME NEW e \in Epochs', NEW f \in Epochs', e.slot = f.slot, e.lifetime = f.lifetime
         PROVE  e.owner = f.owner
    <3>1. \A d, g \in Epochs : d.slot = g.slot /\ d.lifetime = g.lifetime => d.owner = g.owner
      BY <1>3 DEF EpochsInv
    <3> QED BY <2>1, <2>4, <2>12, <3>1 DEF SameStart
  <2>13. ASSUME NEW e \in Epochs'
         PROVE  /\ e.slot \in PlayerSlots /\ e.owner \in Users /\ e.user \in {None, e.owner}
                /\ (e.slot \notin touched \/ \E m \in mappings : m.slot = e.slot /\ m.tick <= e.from)
                      => e.user = e.owner
    <3>1. ASSUME NEW d \in Epochs
          PROVE  /\ d.slot \in PlayerSlots /\ d.owner \in Users /\ d.user \in {None, d.owner}
                 /\ (d.slot \notin touched \/ \E m \in mappings : m.slot = d.slot /\ m.tick <= d.from)
                      => d.user = d.owner
      BY <1>3 DEF EpochsInv
    <3> QED BY <2>1, <2>4, <3>1 DEF SameStart
  <2> QED BY <1>1, <2>5, <2>8, <2>10, <2>11, <2>12, <2>13 DEF EpochsInv
<1> QED BY <1>2, <1>4, <1>5

\* A row is read as the state that was projected.
LEMMA RowIsRead ==
  ASSUME lastRow = lastRead, NEW frame, NEW s, frame[s].props # None
  PROVE  Reading(Row(s, frame)) = [epoch |-> Id(s, frame), state |-> frame[s].props]
BY DEF Reading, Row

LEMMA ProjectionIsRead ==
  ASSUME IInv, ~refused, NEW n, Projects(n)
  PROVE  /\ lastRow' = lastRead'
         /\ read' = [s \in Slots |->
                IF s \in Seen(frames'[tick + 1])
                THEN [epoch |-> Id(s, frames'[tick + 1]), state |-> frames'[tick + 1][s].props]
                ELSE None]
<1> DEFINE frame == frames'[tick + 1]
           seen == Seen(frame)
<1>1. /\ lastRow' = Noted(lastRow, {[epoch |-> Id(s, frame), state |-> frame[s].props] : s \in seen})
      /\ read' = [s \in Slots |-> IF s \in seen THEN Reading(Row(s, frame)) ELSE None]
      /\ lastRead' = Noted(lastRead, {Reading(Row(s, frame)) : s \in seen})
  BY DEF Projects, Project
<1>2. lastRow = lastRead
  BY DEF IInv, OpenInv
<1>3. ASSUME NEW s \in seen
      PROVE  Reading(Row(s, frame)) = [epoch |-> Id(s, frame), state |-> frame[s].props]
  <2>1. frame[s] \in Snapshot
    BY SeenIsPlayer
  <2>2. frame[s].props # None
    BY <2>1, FramesAssumption DEF Snapshot
  <2> QED BY <1>2, <2>2, RowIsRead
<1> HIDE DEF seen, frame
<1>4. {Reading(Row(s, frame)) : s \in seen} =
         {[epoch |-> Id(s, frame), state |-> frame[s].props] : s \in seen}
  BY <1>3
<1> QED BY <1>1, <1>2, <1>3, <1>4 DEF seen, frame

\* The open epochs are those of the players that are seen.
LEMMA SeenIsOpen ==
  ASSUME IInv, ~refused, NEW n, Projects(n), NEW s \in Slots
  PROVE  LET frame == frames'[tick + 1]
         IN  IF s \in Seen(frame)
             THEN active'[s] # None /\ active'[s].lifetime = frame[s].lifetime
             ELSE active'[s] = None
<1> DEFINE frame == frames'[tick + 1]
<1>1. \/ s \notin Seen(frame) /\ active'[s] = None
      \/ /\ s \in Seen(frame) /\ active[s] # None /\ active'[s] = active[s]
         /\ active[s].lifetime = frame[s].lifetime
      \/ s \in Seen(frame) /\ active'[s] = Opened(s, frame)
  BY EpochsAfter
<1>2. s \in Seen(frame) => Opened(s, frame) # None
  <2>1. s \in Seen(frame) => Opened(s, frame) \in Epoch
    BY OpenedIsTheirs
  <2> QED BY <2>1, ReplayAssumption
<1>3. Opened(s, frame).lifetime = frame[s].lifetime
  BY DEF Opened
<1> HIDE DEF frame
<1>4. IF s \in Seen(frame)
      THEN active'[s] # None /\ active'[s].lifetime = frame[s].lifetime
      ELSE active'[s] = None
  BY <1>1, <1>2, <1>3
<1> QED BY <1>4 DEF frame

LEMMA RecordKeepsRows ==
  ASSUME IInv, ~refused, Record
  PROVE  RowsInv'
<1>1. tick' = tick + 1
  BY RecordIsProjection
<1>2. PICK n : \/ refused' /\ UNCHANGED <<frames, active, read>>
               \/ ~refused' /\ Projects(n)
  BY RecordIsProjection
<1>3. CASE refused' /\ UNCHANGED <<frames, active, read>>
  BY <1>3 DEF IInv, RowsInv
<1>4. CASE ~refused' /\ Projects(n)
  <2> DEFINE frame == frames'[tick + 1]
  <2>1. read' = [s \in Slots |-> IF s \in Seen(frame)
                    THEN [epoch |-> Id(s, frame), state |-> frame[s].props] ELSE None]
    BY <1>4, ProjectionIsRead
  <2>2. ASSUME NEW s \in Seen(frame)
        PROVE  [epoch |-> Id(s, frame), state |-> frame[s].props] # None
    <3>1. s \in Slots /\ frame[s] \in Snapshot
      BY <1>4, SeenIsPlayer
    <3> HIDE DEF frame
    <3>2. [epoch |-> Id(s, frame), state |-> frame[s].props] \in Reported
      BY <3>1 DEF Id, Snapshot, Reported
    <3> QED BY <3>2, ReplayAssumption
  <2>3. ASSUME NEW s \in Slots
        PROVE  IF s \in Seen(frame)
               THEN active'[s] # None /\ active'[s].lifetime = frame[s].lifetime
               ELSE active'[s] = None
    BY <1>4, SeenIsOpen
  <2>4. frames'[tick'] = frame
    BY <1>1
  <2> HIDE DEF frame
  <2>5. ASSUME NEW s \in Slots
        PROVE  /\ (read'[s] # None) <=> (active'[s] # None)
               /\ read'[s] # None => /\ read'[s].epoch = <<s, active'[s].lifetime>>
                                     /\ read'[s].state = frame[s].props
    BY <2>1, <2>2, <2>3 DEF Id
  <2> QED BY <2>4, <2>5 DEF RowsInv
<1> QED BY <1>2, <1>3, <1>4

LEMMA RecordKeepsOpen ==
  ASSUME IInv, ~refused, Record
  PROVE  OpenInv'
<1>1. tick' = tick + 1 /\ world' = world
  BY RecordIsProjection
<1>2. PICK n : \/ refused'
               \/ ~refused' /\ Projects(n)
  BY RecordIsProjection
<1>3. CASE refused'
  BY <1>3 DEF OpenInv
<1>4. CASE ~refused' /\ Projects(n)
  <2> DEFINE frame == frames'[tick + 1]
  <2>1. ASSUME NEW e \in Epochs', NEW k \in Retained', world[e.slot] # None,
               frames'[k][e.slot] # None, frames'[k][e.slot].lifetime = e.lifetime,
               views'[k][e.slot].number = world[e.slot].number
        PROVE  e.owner = world[e.slot].owner
    <3>1. CASE \E s \in Seen(frame) : e = Opened(s, frame)
      <4>1. PICK s \in Seen(frame) : e = Opened(s, frame)
        BY <3>1
      <4> QED BY <4>1 DEF Opened
    <3>2. CASE \E d \in Epochs : SameStart(e, d)
      <4>1. PICK d \in Epochs : SameStart(e, d)
        BY <3>2
      <4>2. d.slot \in Slots
        BY DEF IInv, ReplayTypeOK, Epochs, Epoch
      <4>3. \A m \in Retained :
               /\ frames[m][d.slot] # None /\ frames[m][d.slot].lifetime = d.lifetime
               /\ views[m][d.slot].number = world[d.slot].number
               => d.owner = world[d.slot].owner
        BY <2>1, <4>1 DEF IInv, OpenInv, SameStart
      <4>4. CASE k # tick + 1
        <5>1. k \in Retained /\ frames'[k] = frames[k] /\ views'[k] = views[k]
          BY <1>4, <4>4 DEF Projects, Shows, Advances
        <5> QED BY <2>1, <4>1, <4>3, <5>1 DEF SameStart
      <4>5. CASE k = tick + 1
        <5>1. d.lifetime < lifetime /\ d.lifetime \in Nat /\ lifetime \in Nat
          BY DEF IInv, EpochsInv, ReplayTypeOK, Epochs, Epoch, FramesTypeOK
        <5>2. frame[d.slot] # None /\ frame[d.slot].lifetime = d.lifetime
          BY <2>1, <4>1, <4>5 DEF SameStart
        <5>3. NewView(d.slot, n).number = world[d.slot].number
          BY <1>4, <2>1, <4>1, <4>2, <4>5 DEF SameStart, Projects, Shows
        <5>4. /\ n \in Retained /\ frames[n][d.slot] # None
              /\ d.lifetime = frames[n][d.slot].lifetime
              /\ views[n][d.slot].number = NewView(d.slot, n).number
          BY <1>4, <4>2, <5>1, <5>2 DEF Projects, Advances
        <5> QED BY <4>1, <4>3, <5>3, <5>4 DEF SameStart
      <4> QED BY <4>4, <4>5
    <3> QED BY <1>4, <3>1, <3>2, EpochsAfter
  <2>2. lastRow' = lastRead'
    BY <1>4, ProjectionIsRead
  <2>3. ASSUME NEW s \in Slots
        PROVE  IF s \in Seen(frame)
               THEN active'[s] # None /\ active'[s].lifetime = frame[s].lifetime
               ELSE active'[s] = None
    BY <1>4, SeenIsOpen
  <2>4. tick' # 0 /\ frames'[tick'] = frame
    BY <1>1 DEF IInv, FramesTypeOK
  <2> HIDE DEF frame
  <2> QED BY <1>1, <2>1, <2>2, <2>3, <2>4 DEF OpenInv
<1> QED BY <1>2, <1>3, <1>4

-----------------------------------------------------------------------------
(* Steps of the game *)

\* What the game may do to an entity: create it, with the next number, or leave it
\* its number, class and owner.
Lives(s) ==
    world'[s] # None =>
        \/ world'[s].number = created
        \/ /\ world[s] # None /\ world'[s].number = world[s].number
           /\ world'[s].class = world[s].class /\ world'[s].owner = world[s].owner

\* Between packets the decoder, the client and the projection stand still.
LEMMA GameKeepsInv ==
  ASSUME IInv, ~ended,
         UNCHANGED <<views, given, tick, decoder, touched, projection, ended, attributed>>,
         FramesTypeOK', ReplayTypeOK', WorldInv', MappingsInv', created <= created',
         \A m \in mappings' : m \in mappings \/ m.tick = tick + 1,
         \A s \in Slots : Lives(s)
  PROVE  IInv'
<1>1. /\ views' = views /\ given' = given /\ tick' = tick /\ frames' = frames
      /\ dynamic' = dynamic /\ lifetime' = lifetime /\ refused' = refused
      /\ touched' = touched /\ active' = active /\ completed' = completed
      /\ lastRow' = lastRow /\ lastRead' = lastRead /\ read' = read
      /\ ended' = ended /\ attributed' = attributed
  BY DEF decoder, projection
<1>2. Retained' = Retained /\ Epochs' = Epochs
  BY <1>1 DEF Retained, Epochs
<1>3. created \in Nat /\ created' \in Nat
  BY DEF IInv, FramesTypeOK
<1>4. ASSUME NEW k \in Retained, NEW s \in Slots, views[k][s] # None, world'[s] # None,
             views[k][s].number = world'[s].number
      PROVE  /\ world[s] # None /\ world'[s].number = world[s].number
             /\ world'[s].class = world[s].class /\ world'[s].owner = world[s].owner
  <2>1. views[k][s].number < created
    BY <1>4 DEF IInv, ViewsInv
  <2> QED BY <1>3, <1>4, <2>1 DEF Lives
<1>5. ViewsInv'
  <2> SUFFICES ASSUME NEW k \in Retained, NEW s \in Slots, views[k][s] # None
               PROVE  /\ views[k][s].number < created'
                      /\ world'[s] # None /\ views[k][s].number = world'[s].number
                            => views[k][s].class = world'[s].class
    BY <1>1, <1>2 DEF ViewsInv
  <2>1. /\ views[k][s].number < created
        /\ world[s] # None /\ views[k][s].number = world[s].number
              => views[k][s].class = world[s].class
    BY DEF IInv, ViewsInv
  <2>2. views[k][s].number \in Nat
    BY DEF IInv, FramesTypeOK, View
  <2> QED BY <1>3, <1>4, <2>1, <2>2
<1>6. DecoderInv'
  BY <1>1, <1>2 DEF IInv, DecoderInv
<1>7. EpochsInv'
  <2>1. tick \in Nat /\ \A e \in Epochs : e.from \in Nat /\ e.from <= tick
    BY DEF IInv, FramesTypeOK, EpochsInv, ReplayTypeOK, Epochs, Epoch
  <2>2. \A e \in Epochs, m \in mappings' : m.tick <= e.from => m \in mappings
    BY <2>1
  <2>3. \A e \in Epochs :
          (e.slot \notin touched' \/ \E m \in mappings' : m.slot = e.slot /\ m.tick <= e.from)
             => e.user = e.owner
    BY <1>1, <2>2 DEF IInv, EpochsInv
  <2> QED BY <1>1, <1>2, <2>3 DEF IInv, EpochsInv
<1>8. OpenInv'
  <2> SUFFICES ASSUME ~refused
               PROVE  /\ \A e \in Epochs, k \in Retained :
                            /\ world'[e.slot] # None
                            /\ frames[k][e.slot] # None /\ frames[k][e.slot].lifetime = e.lifetime
                            /\ views[k][e.slot].number = world'[e.slot].number
                            => e.owner = world'[e.slot].owner
                      /\ lastRow = lastRead
                      /\ tick = 0 => active = Nothing
                      /\ tick > 0 => \A s \in Slots :
                            IF s \in Seen(frames[tick])
                            THEN active[s] # None /\ active[s].lifetime = frames[tick][s].lifetime
                            ELSE active[s] = None
    BY <1>1, <1>2 DEF OpenInv
  <2>1. ASSUME NEW e \in Epochs, NEW k \in Retained, world'[e.slot] # None,
               frames[k][e.slot] # None, frames[k][e.slot].lifetime = e.lifetime,
               views[k][e.slot].number = world'[e.slot].number
        PROVE  e.owner = world'[e.slot].owner
    <3>1. e.slot \in Slots
      BY DEF IInv, ReplayTypeOK, Epochs, Epoch
    <3>2. views[k][e.slot] # None
      BY <2>1, <3>1 DEF IInv, DecoderInv, Matches
    <3>3. /\ world[e.slot] # None /\ world'[e.slot].number = world[e.slot].number
          /\ world'[e.slot].owner = world[e.slot].owner
      BY <1>4, <2>1, <3>1, <3>2
    <3> QED BY <2>1, <3>3 DEF IInv, OpenInv
  <2> QED BY <2>1 DEF IInv, OpenInv
<1>9. RowsInv' /\ (~ended' => attributed' = {}) /\ FramesAreSent'
  BY <1>1 DEF IInv, RowsInv, FramesAreSent
<1>10. EvidenceNamesThePlayer'
  BY <1>1 DEF IInv, EvidenceNamesThePlayer
<1> QED BY <1>5, <1>6, <1>7, <1>8, <1>9, <1>10 DEF IInv

\* A slot gets another user, or none.
LEMMA RecordedIsLast ==
  ASSUME IInv, NEW s \in touched, NEW user \in Users \cup {None},
         occupant' = [occupant EXCEPT ![s] = user], mappings' = Recorded(s, user),
         UNCHANGED <<tick, touched, active, completed, ended>>
  PROVE  /\ ReplayTypeOK' /\ MappingsInv'
         /\ \A m \in mappings' : m \in mappings \/ m.tick = tick + 1
<1> DEFINE new == [slot |-> s, tick |-> tick + 1, user |-> user]
           kept == {m \in mappings : m.slot # s \/ m.tick # tick + 1}
<1>1. ReplayTypeOK /\ MappingsInv /\ s \in PlayerSlots /\ tick \in Nat
  BY DEF IInv, ReplayTypeOK, FramesTypeOK
<1>2. mappings' = kept \cup {new}
  BY DEF Recorded
<1>3. new \in Mapping /\ new.slot = s /\ new.tick = tick + 1 /\ new.user = user
  BY <1>1 DEF Mapping
<1>4. \A m \in kept : /\ m \in mappings /\ m.tick \in Nat /\ m.tick <= tick + 1
                      /\ m.slot # s \/ m.tick # tick + 1
  BY <1>1 DEF ReplayTypeOK, Mapping, MappingsInv
<1>5. IsFiniteSet(mappings')
  <2>1. IsFiniteSet(kept)
    BY <1>1, FS_Subset DEF ReplayTypeOK
  <2> HIDE DEF kept, new
  <2> QED BY <1>2, <2>1, FS_AddElement
<1>6. ReplayTypeOK'
  <2>1. mappings' \subseteq Mapping
    BY <1>1, <1>2, <1>3 DEF ReplayTypeOK
  <2>2. occupant' \in [PlayerSlots -> Users \cup {None}]
    BY <1>1 DEF ReplayTypeOK
  <2> QED BY <1>1, <1>5, <2>1, <2>2 DEF ReplayTypeOK
<1>7. MappingsInv'
  <2>1. \A m \in mappings' : m.tick <= tick' + 1
    BY <1>2, <1>3, <1>4, <1>1
  <2>2. \A m, k \in mappings' : m.slot = k.slot /\ m.tick = k.tick => m = k
    <3>1. \A m, k \in kept : m.slot = k.slot /\ m.tick = k.tick => m = k
      BY <1>1, <1>4 DEF MappingsInv
    <3> HIDE DEF new, kept
    <3> QED BY <1>2, <1>3, <1>4, <3>1
  <2>3. \A m \in mappings' : m.slot \notin touched' => m.tick = 0
    BY <1>1, <1>2, <1>3, <1>4 DEF MappingsInv
  <2>4. ASSUME NEW r \in PlayerSlots \ touched, occupant'[r] # None
        PROVE  \E m \in mappings' : m.slot = r
    <3>1. r # s /\ occupant[r] # None
      BY <1>1, <2>4 DEF ReplayTypeOK
    <3>2. PICK m \in mappings : m.slot = r
      BY <1>1, <3>1 DEF MappingsInv
    <3> QED BY <1>2, <3>1, <3>2
  <2>5. ASSUME NEW m \in mappings', \A k \in mappings' : k.slot = m.slot => k.tick <= m.tick
        PROVE  m.user = occupant'[m.slot]
    <3>1. CASE m.slot = s
      <4>1. m = new
        <5>1. new \in mappings' /\ new.tick <= m.tick
          BY <1>2, <1>3, <2>5, <3>1
        <5> HIDE DEF new, kept
        <5>2. m \in kept => FALSE
          BY <1>1, <1>3, <1>4, <3>1, <5>1
        <5> QED BY <1>2, <5>2
      <4> QED BY <1>1, <1>3, <4>1 DEF ReplayTypeOK
    <3>2. CASE m.slot # s
      <4>1. m \in mappings
        BY <1>2, <1>3, <1>4, <3>2
      <4>2. ASSUME NEW k \in mappings, k.slot = m.slot PROVE k.tick <= m.tick
        BY <1>2, <2>5, <3>2, <4>2
      <4>3. m.user = occupant[m.slot] /\ m.slot \in PlayerSlots
        BY <1>1, <4>1, <4>2 DEF MappingsInv, ReplayTypeOK, Mapping
      <4> QED BY <1>1, <3>2, <4>3 DEF ReplayTypeOK
    <3> QED BY <3>1, <3>2
  <2> QED BY <2>1, <2>2, <2>3, <2>4, <2>5 DEF MappingsInv
<1> QED BY <1>2, <1>3, <1>4, <1>6, <1>7

LEMMA SpawnKeepsInv ==
  ASSUME IInv, ~ended, NEW s \in Slots, NEW class \in Classes, NEW owner,
         NEW props \in [Props -> Values], Spawn(s, class, owner, props),
         UNCHANGED <<identity, projection, ended, attributed>>,
         \/ s \in PlayerSlots /\ class = Player /\ owner = occupant[s] /\ occupant[s] # None
         \/ s \notin PlayerSlots /\ class # Player /\ owner = None
  PROVE  IInv'
<1> DEFINE entity == [number |-> created, class |-> class, owner |-> owner, props |-> props]
<1>1. /\ world[s] = None /\ world' = [world EXCEPT ![s] = entity]
      /\ visible' = visible \cup {s} /\ created' = created + 1
      /\ UNCHANGED <<views, given, used, pending, tick, decoder>>
      /\ UNCHANGED <<occupant, touched, mappings>>
  BY DEF Spawn, identity
<1>2. FramesTypeOK /\ ReplayTypeOK /\ WorldInv /\ MappingsInv /\ created \in Nat
  BY DEF IInv, FramesTypeOK
<1>3. entity \in Entity /\ entity # None
  <2>1. owner \in Users \cup {None}
    BY <1>2 DEF ReplayTypeOK
  <2>2. entity \in Entity
    BY <1>2, <2>1 DEF Entity
  <2> QED BY <2>2, FramesAssumption
<1>4. entity.number = created /\ entity.class = class /\ entity.owner = owner
  OBVIOUS
<1> HIDE DEF entity
<1>5. /\ world'[s] = entity
      /\ \A r \in Slots \ {s} : world'[r] = world[r]
      /\ world' \in [Slots -> Entity \cup {None}]
  BY <1>1, <1>2, <1>3 DEF FramesTypeOK
<1>6. Retained' = Retained
  BY <1>1 DEF Retained
<1>7. FramesTypeOK'
  BY <1>1, <1>2, <1>5, <1>6 DEF FramesTypeOK, decoder
<1>8. ReplayTypeOK' /\ MappingsInv'
  BY <1>1, <1>2 DEF ReplayTypeOK, MappingsInv, projection
<1>9. WorldInv'
  <2>1. \A r \in visible' : world'[r] # None
    BY <1>1, <1>2, <1>3, <1>5 DEF WorldInv, FramesTypeOK
  <2>2. Local # None /\ world'[Local] # None => Local \in visible'
    BY <1>1, <1>2, <1>5, FramesAssumption DEF WorldInv
  <2>3. ASSUME NEW r \in Slots, world'[r] # None
        PROVE  /\ world'[r].number < created'
               /\ (r \in PlayerSlots) <=> (world'[r].class = Player)
               /\ r \in PlayerSlots => occupant'[r] # None /\ world'[r].owner = occupant'[r]
    <3>1. CASE r = s
      BY <1>1, <1>2, <1>4, <1>5, <3>1
    <3>2. CASE r # s
      <4>1. world'[r] = world[r] /\ world[r].number \in Nat
        BY <1>2, <1>5, <2>3, <3>2 DEF FramesTypeOK, Entity
      <4> QED BY <1>1, <1>2, <2>3, <4>1 DEF WorldInv
    <3> QED BY <3>1, <3>2
  <2> QED BY <2>1, <2>2, <2>3 DEF WorldInv
<1>10. \A r \in Slots : Lives(r)
  BY <1>4, <1>5 DEF Lives
<1>11. created <= created' /\ \A m \in mappings' : m \in mappings \/ m.tick = tick + 1
  BY <1>1, <1>2
<1> QED BY <1>1, <1>7, <1>8, <1>9, <1>10, <1>11, GameKeepsInv

\* An entity goes, changes or moves; identities stand still.
LEMMA WorldKeepsInv ==
  ASSUME IInv, ~ended, UNCHANGED <<created, views, given, tick, decoder>>,
         UNCHANGED <<identity, projection, ended, attributed>>,
         used' \in 0..1, pending' \in BOOLEAN,
         world' \in [Slots -> Entity \cup {None}], visible' \subseteq Slots,
         \A s \in Slots : world'[s] # None =>
            /\ world[s] # None /\ world'[s].number = world[s].number
            /\ world'[s].class = world[s].class /\ world'[s].owner = world[s].owner,
         \A s \in visible' : world'[s] # None,
         Local # None /\ world'[Local] # None => Local \in visible'
  PROVE  IInv'
<1>1. FramesTypeOK /\ ReplayTypeOK /\ WorldInv /\ MappingsInv /\ created \in Nat
  BY DEF IInv, FramesTypeOK
<1>2. Retained' = Retained
  BY DEF Retained
<1>3. FramesTypeOK'
  BY <1>1, <1>2 DEF FramesTypeOK, decoder
<1>4. UNCHANGED <<occupant, touched, mappings>>
  BY DEF identity
<1>5. ReplayTypeOK' /\ MappingsInv'
  BY <1>1, <1>4 DEF ReplayTypeOK, MappingsInv, projection
<1>6. WorldInv'
  BY <1>1, <1>4 DEF WorldInv
<1>7. \A s \in Slots : Lives(s)
  BY DEF Lives
<1>8. created <= created' /\ \A m \in mappings' : m \in mappings \/ m.tick = tick + 1
  BY <1>1, <1>4
<1> QED BY <1>3, <1>4, <1>5, <1>6, <1>7, <1>8, GameKeepsInv

LEMMA PlayKeepsInv ==
  ASSUME IInv, ~ended, Play
  PROVE  IInv'
<1>1. UNCHANGED <<identity, projection, ended, attributed>>
  BY DEF Play
<1>2. FramesTypeOK /\ WorldInv
  BY DEF IInv
<1>3. ASSUME NEW s \in Slots, NEW props \in [Props -> Values],
             s \in PlayerSlots, occupant[s] # None, Spawn(s, Player, occupant[s], props)
      PROVE  IInv'
  BY <1>1, <1>3, SpawnKeepsInv, FramesAssumption
<1>4. ASSUME NEW s \in Slots, NEW props \in [Props -> Values], NEW c \in Classes \ {Player},
             s \notin PlayerSlots, Spawn(s, c, None, props)
      PROVE  IInv'
  BY <1>1, <1>4, SpawnKeepsInv
<1>5. ASSUME NEW s \in Slots, NEW props \in [Props -> Values], Change(s, props)
      PROVE  IInv'
  <2>1. /\ world[s] # None /\ world' = [world EXCEPT ![s].props = props]
        /\ UNCHANGED <<visible, created, views, given, used, pending, tick, decoder>>
    BY <1>5 DEF Change
  <2>2. world[s] \in Entity
    BY <1>2, <2>1 DEF FramesTypeOK
  <2> DEFINE entity == [world[s] EXCEPT !.props = props]
  <2>3. /\ entity \in Entity /\ entity.number = world[s].number
        /\ entity.class = world[s].class /\ entity.owner = world[s].owner
    BY <2>2 DEF Entity
  <2>4. world' = [world EXCEPT ![s] = entity]
    BY <2>1
  <2> HIDE DEF entity
  <2>5. entity # None
    BY <2>3, FramesAssumption
  <2>6. /\ world'[s] = entity /\ \A r \in Slots \ {s} : world'[r] = world[r]
        /\ world' \in [Slots -> Entity \cup {None}]
    BY <1>2, <2>3, <2>4 DEF FramesTypeOK
  <2>7. \A r \in Slots : world'[r] # None =>
            /\ world[r] # None /\ world'[r].number = world[r].number
            /\ world'[r].class = world[r].class /\ world'[r].owner = world[r].owner
    BY <2>1, <2>3, <2>6
  <2>8. /\ \A r \in visible' : world'[r] # None
        /\ Local # None /\ world'[Local] # None => Local \in visible'
    BY <1>2, <2>1, <2>5, <2>6, FramesAssumption DEF WorldInv, FramesTypeOK
  <2>9. used' \in 0..1 /\ pending' \in BOOLEAN /\ visible' \subseteq Slots
    BY <1>2, <2>1 DEF FramesTypeOK
  <2> QED BY <1>1, <2>1, <2>6, <2>7, <2>8, <2>9, WorldKeepsInv
<1>6. ASSUME NEW s \in Slots, Despawn(s) PROVE IInv'
  <2>1. /\ world' = [world EXCEPT ![s] = None] /\ visible' = visible \ {s}
        /\ UNCHANGED <<created, views, given, used, pending, tick, decoder>>
    BY <1>6 DEF Despawn
  <2>2. /\ world'[s] = None /\ \A r \in Slots \ {s} : world'[r] = world[r]
        /\ world' \in [Slots -> Entity \cup {None}]
    BY <1>2, <2>1 DEF FramesTypeOK
  <2>3. \A r \in Slots : world'[r] # None =>
            /\ world[r] # None /\ world'[r].number = world[r].number
            /\ world'[r].class = world[r].class /\ world'[r].owner = world[r].owner
    BY <2>2
  <2>4. /\ \A r \in visible' : world'[r] # None
        /\ Local # None /\ world'[Local] # None => Local \in visible'
    BY <1>2, <2>1, <2>2, FramesAssumption DEF WorldInv, FramesTypeOK
  <2>5. used' \in 0..1 /\ pending' \in BOOLEAN /\ visible' \subseteq Slots
    BY <1>2, <2>1 DEF FramesTypeOK
  <2> QED BY <1>1, <2>1, <2>2, <2>3, <2>4, <2>5, WorldKeepsInv
<1>7. ASSUME NEW s \in Slots, Move(s) PROVE IInv'
  <2>1. /\ world[s] # None /\ s # Local
        /\ visible' = IF s \in visible THEN visible \ {s} ELSE visible \cup {s}
        /\ UNCHANGED <<world, created, views, given, used, pending, tick, decoder>>
    BY <1>7 DEF Move
  <2>2. /\ \A r \in visible' : world'[r] # None
        /\ Local # None /\ world'[Local] # None => Local \in visible'
    BY <1>2, <2>1 DEF WorldInv
  <2>3. /\ used' \in 0..1 /\ pending' \in BOOLEAN /\ visible' \subseteq Slots
        /\ world' \in [Slots -> Entity \cup {None}]
    BY <1>2, <2>1 DEF FramesTypeOK
  <2> QED BY <1>1, <2>1, <2>2, <2>3, WorldKeepsInv
<1>8. ASSUME Acknowledge PROVE IInv'
  <2>1. /\ pending' = FALSE /\ used' = 1 - used
        /\ UNCHANGED <<world, visible, created, views, given, tick, decoder>>
    BY <1>8 DEF Acknowledge
  <2>2. /\ used' \in 0..1 /\ pending' \in BOOLEAN /\ visible' \subseteq Slots
        /\ world' \in [Slots -> Entity \cup {None}]
    <3>1. used \in 0..1 /\ visible \subseteq Slots /\ world \in [Slots -> Entity \cup {None}]
      BY <1>2 DEF FramesTypeOK
    <3>2. used' = 1 - used
      BY <2>1
    <3>3. used' \in 0..1
      BY <3>1, <3>2
    <3>4. pending' \in BOOLEAN
      BY <2>1
    <3> QED BY <2>1, <3>1, <3>3, <3>4
  <2>3. /\ \A r \in visible' : world'[r] # None
        /\ Local # None /\ world'[Local] # None => Local \in visible'
    BY <1>2, <2>1 DEF WorldInv
  <2> QED BY <1>1, <2>1, <2>2, <2>3, WorldKeepsInv
<1> QED BY <1>3, <1>4, <1>5, <1>6, <1>7, <1>8 DEF Play

LEMMA JoinKeepsInv ==
  ASSUME IInv, ~ended, NEW s \in PlayerSlots, NEW u \in Users, Join(s, u)
  PROVE  IInv'
<1>1. /\ s \in touched /\ occupant[s] \in {None, u}
      /\ occupant' = [occupant EXCEPT ![s] = u] /\ mappings' = Recorded(s, u)
      /\ UNCHANGED <<frameVars, touched, projection, ended, attributed>>
  BY DEF Join
<1>2. /\ UNCHANGED <<world, visible, created, views, given, used, pending, tick, decoder>>
      /\ UNCHANGED <<active, completed>>
  BY <1>1 DEF frameVars, server, projection
<1>3. FramesTypeOK /\ ReplayTypeOK /\ WorldInv /\ created \in Nat
  BY DEF IInv, FramesTypeOK
<1>4. /\ ReplayTypeOK' /\ MappingsInv'
      /\ \A m \in mappings' : m \in mappings \/ m.tick = tick + 1
  BY <1>1, <1>2, RecordedIsLast
<1>5. Retained' = Retained
  BY <1>2 DEF Retained
<1>6. FramesTypeOK'
  BY <1>2, <1>3, <1>5 DEF FramesTypeOK, decoder
<1>7. /\ occupant'[s] = u /\ u # None
      /\ \A r \in PlayerSlots \ {s} : occupant'[r] = occupant[r]
  BY <1>1, <1>3, FramesAssumption DEF ReplayTypeOK
<1>8. WorldInv'
  BY <1>1, <1>2, <1>3, <1>7 DEF WorldInv
<1>9. created <= created' /\ \A r \in Slots : Lives(r)
  BY <1>2, <1>3 DEF Lives
<1> QED BY <1>1, <1>2, <1>4, <1>6, <1>8, <1>9, GameKeepsInv

LEMMA PartKeepsInv ==
  ASSUME IInv, ~ended, NEW s \in PlayerSlots, Part(s)
  PROVE  IInv'
<1>1. /\ s \in touched /\ occupant' = [occupant EXCEPT ![s] = None]
      /\ mappings' = Recorded(s, None)
      /\ UNCHANGED <<touched, projection, ended, attributed>>
  BY DEF Part
<1>2. FramesTypeOK /\ ReplayTypeOK /\ WorldInv /\ created \in Nat /\ s \in Slots
  BY ReplayAssumption DEF IInv, FramesTypeOK
<1>3. /\ UNCHANGED <<created, views, given, used, pending, tick, decoder>>
      /\ visible' = visible \ {s} /\ world'[s] = None
      /\ \A r \in Slots \ {s} : world'[r] = world[r]
      /\ world' \in [Slots -> Entity \cup {None}]
  <2>1. CASE world[s] # None
    <3>1. Despawn(s)
      BY <2>1 DEF Part
    <3> QED BY <1>2, <3>1 DEF Despawn, FramesTypeOK
  <2>2. CASE world[s] = None
    <3>1. UNCHANGED <<world, visible, created, views, given, used, pending, tick, decoder>>
      BY <2>2 DEF Part, frameVars, server
    <3>2. s \notin visible
      BY <1>2, <2>2 DEF WorldInv
    <3> QED BY <1>2, <2>2, <3>1, <3>2 DEF FramesTypeOK
  <2> QED BY <2>1, <2>2
<1>4. /\ ReplayTypeOK' /\ MappingsInv'
      /\ \A m \in mappings' : m \in mappings \/ m.tick = tick + 1
  <2>1. UNCHANGED <<tick, active, completed>>
    BY <1>1, <1>3 DEF projection
  <2> QED BY <1>1, <2>1, RecordedIsLast
<1>5. Retained' = Retained
  BY <1>3 DEF Retained
<1>6. FramesTypeOK'
  BY <1>2, <1>3, <1>5 DEF FramesTypeOK, decoder
<1>7. \A r \in PlayerSlots \ {s} : occupant'[r] = occupant[r]
  BY <1>1, <1>2 DEF ReplayTypeOK
<1>8. WorldInv'
  <2>1. /\ \A r \in visible' : world'[r] # None
        /\ Local # None /\ world'[Local] # None => Local \in visible'
    BY <1>2, <1>3, FramesAssumption DEF WorldInv, FramesTypeOK
  <2>2. ASSUME NEW r \in Slots, world'[r] # None
        PROVE  /\ world'[r].number < created'
               /\ (r \in PlayerSlots) <=> (world'[r].class = Player)
               /\ r \in PlayerSlots => occupant'[r] # None /\ world'[r].owner = occupant'[r]
    <3>1. r # s /\ world'[r] = world[r]
      BY <1>3, <2>2
    <3> QED BY <1>2, <1>3, <1>7, <2>2, <3>1 DEF WorldInv
  <2> QED BY <2>1, <2>2 DEF WorldInv
<1>9. created <= created' /\ \A r \in Slots : Lives(r)
  BY <1>2, <1>3 DEF Lives
<1> QED BY <1>1, <1>3, <1>4, <1>6, <1>8, <1>9, GameKeepsInv

-----------------------------------------------------------------------------
(* The invariant *)

\* The values of an expression on a finite set.
LEMMA ImageIsFinite ==
  ASSUME NEW S, IsFiniteSet(S), NEW f, DOMAIN f = S
  PROVE  IsFiniteSet({f[x] : x \in S})
<1> DEFINE T == {f[x] : x \in S}
           g == [x \in S |-> f[x]]
<1>1. g \in Surjection(S, T)
  BY DEF Surjection
<1> QED BY <1>1, FS_Surjection

LEMMA InitIInv == ASSUME Init PROVE IInv
<1>1. /\ world = Nothing /\ visible = {} /\ created = 0
      /\ views = <<>> /\ frames = <<>> /\ tick = 0
      /\ given = [b \in 0..1 |-> Nothing] /\ dynamic = [b \in 0..1 |-> Nothing]
      /\ used = 0 /\ pending = FALSE
      /\ lifetime = 1 /\ refused = FALSE
  BY DEF Init, FramesInit
<1>2. /\ occupant \in [PlayerSlots -> Users \cup {None}]
      /\ touched \in SUBSET PlayerSlots
      /\ mappings = {[slot |-> s, tick |-> 0, user |-> occupant[s]] :
                        s \in {t \in PlayerSlots \ touched : occupant[t] # None}}
      /\ active = Nothing /\ completed = {}
      /\ lastRow = <<>> /\ lastRead = <<>> /\ read = Nothing
      /\ ended = FALSE /\ attributed = {}
  BY DEF Init
<1>3. Retained = {}
  BY <1>1 DEF Retained
<1>4. FramesTypeOK
  BY <1>1, <1>3 DEF FramesTypeOK, Nothing
<1>5. IsFiniteSet(mappings)
  <2> DEFINE known == {t \in PlayerSlots \ touched : occupant[t] # None}
             f == [s \in known |-> [slot |-> s, tick |-> 0, user |-> occupant[s]]]
  <2>1. IsFiniteSet(known)
    BY FramesAssumption, ReplayAssumption, FS_Subset
  <2>2. mappings = {f[s] : s \in known}
    BY <1>2
  <2>3. DOMAIN f = known
    OBVIOUS
  <2> HIDE DEF f, known
  <2> QED BY <2>1, <2>2, <2>3, ImageIsFinite
<1>6. \A m \in mappings : /\ m \in Mapping /\ m.tick = 0 /\ m.user = occupant[m.slot]
                          /\ m.slot \in PlayerSlots
  BY <1>2 DEF Mapping
<1>7. ReplayTypeOK
  BY <1>2, <1>5, <1>6 DEF ReplayTypeOK, Nothing
<1>8. WorldInv
  BY <1>1, FramesAssumption DEF WorldInv, Nothing
<1>9. ViewsInv
  BY <1>3 DEF ViewsInv
<1>10. MappingsInv
  <2>1. \A m, k \in mappings : m.slot = k.slot => m = k
    BY <1>2
  <2>2. \A s \in PlayerSlots \ touched : occupant[s] # None => \E m \in mappings : m.slot = s
    <3> SUFFICES ASSUME NEW s \in PlayerSlots \ touched, occupant[s] # None
                 PROVE  \E m \in mappings : m.slot = s
      OBVIOUS
    <3>1. [slot |-> s, tick |-> 0, user |-> occupant[s]] \in mappings
      BY <1>2
    <3> QED BY <3>1
  <2> QED BY <1>1, <1>6, <2>1, <2>2 DEF MappingsInv
<1>11. DecoderInv
  BY <1>1, <1>3 DEF DecoderInv
<1>12. Epochs = {}
  BY <1>2 DEF Epochs, Nothing
<1>13. EpochsInv
  BY <1>2, <1>12 DEF EpochsInv, Nothing
<1>14. OpenInv
  BY <1>1, <1>2, <1>3, <1>12 DEF OpenInv
<1>15. RowsInv
  BY <1>2 DEF RowsInv, Nothing
<1>16. FramesAreSent /\ EvidenceNamesThePlayer
  BY <1>1, <1>2 DEF FramesAreSent, EvidenceNamesThePlayer
<1> QED BY <1>2, <1>4, <1>7, <1>8, <1>9, <1>10, <1>11, <1>13, <1>14, <1>15, <1>16 DEF IInv

LEMMA RecordKeepsInv ==
  ASSUME IInv, ~ended, ~refused, Record
  PROVE  IInv'
<1>1. UNCHANGED <<ended, attributed>> /\ FramesTypeOK'
  BY RecordIsPacket
<1>2. attributed = {}
  BY DEF IInv
<1>3. (~ended' => attributed' = {}) /\ EvidenceNamesThePlayer'
  BY <1>1, <1>2 DEF EvidenceNamesThePlayer
<1> QED BY <1>1, <1>3, RecordKeepsViews, RecordKeepsDecoder, RecordKeepsTypes,
           RecordKeepsEpochs, RecordKeepsRows, RecordKeepsOpen DEF IInv

\* Names that the evidence infers: a slot's only user while an epoch lasted is the
\* epoch's player, if the player is among them.
LEMMA InferredIsTheirs ==
  ASSUME ReplayTypeOK, NEW e, NEW m \in mappings, m.slot = e.slot, m.user # None,
         m.tick \in e.from..(IF e.to = None THEN tick ELSE e.to)
  PROVE  Inferred(e) \in {None, m.user}
<1> DEFINE ofSlot == {k \in mappings : k.slot = e.slot /\ k.user # None}
           end == IF e.to = None THEN tick ELSE e.to
           timed == {k \in ofSlot : k.tick \in e.from..end}
           chosen == IF timed # {} THEN timed ELSE ofSlot
           users == {k.user : k \in chosen}
<1>1. m \in timed
  OBVIOUS
<1>2. chosen = timed /\ chosen \in SUBSET mappings
  BY <1>1
<1>3. IsFiniteSet(chosen)
  BY <1>2, FS_Subset DEF ReplayTypeOK
<1>4. IsFiniteSet(users)
  <2> HIDE DEF chosen
  <2> DEFINE f == [k \in chosen |-> k.user]
  <2>1. DOMAIN f = chosen /\ users = {f[k] : k \in chosen}
    OBVIOUS
  <2> HIDE DEF f, users
  <2> QED BY <1>3, <2>1, ImageIsFinite
<1>5. m.user \in users
  BY <1>1, <1>2
<1>6. Inferred(e) = IF Cardinality(users) = 1 THEN CHOOSE u \in users : TRUE ELSE None
  BY DEF Inferred
<1> HIDE DEF users
<1>7. Cardinality(users) = 1 => users = {m.user}
  BY <1>4, <1>5, FS_Singleton
<1> QED BY <1>5, <1>6, <1>7

LEMMA EndKeepsInv ==
  ASSUME IInv, ~ended, ~refused, End
  PROVE  IInv'
<1>1. /\ UNCHANGED <<frameVars, identity, projection>> /\ ended' = TRUE
      /\ attributed' = {[epoch |-> e, user |-> IF e.user # None THEN e.user ELSE Inferred(e)] :
                           e \in Epochs}
  BY DEF End
<1>2. /\ UNCHANGED <<world, visible, created, views, given, used, pending, tick>>
      /\ UNCHANGED <<frames, dynamic, lifetime, refused>>
      /\ UNCHANGED <<occupant, touched, mappings>>
      /\ UNCHANGED <<active, completed, lastRow, lastRead, read>>
  BY <1>1 DEF frameVars, server, decoder, identity, projection
<1>3. Retained' = Retained /\ Epochs' = Epochs
  BY <1>2 DEF Retained, Epochs
<1>4. FramesTypeOK' /\ ReplayTypeOK'
  BY <1>1, <1>2, <1>3 DEF IInv, FramesTypeOK, ReplayTypeOK
<1>5. WorldInv' /\ ViewsInv' /\ MappingsInv'
  BY <1>2, <1>3 DEF IInv, WorldInv, ViewsInv, MappingsInv
<1>6. DecoderInv' /\ FramesAreSent'
  BY <1>2, <1>3 DEF IInv, DecoderInv, FramesAreSent
<1>7. EpochsInv' /\ RowsInv'
  BY <1>2, <1>3 DEF IInv, EpochsInv, RowsInv
<1>8. OpenInv'
  BY <1>2, <1>3 DEF IInv, OpenInv
<1>9. ASSUME NEW a \in attributed'
      PROVE  LET e == a.epoch
                 end == IF e.to = None THEN tick ELSE e.to
                 ofSlot == {m \in mappings : m.slot = e.slot}
             IN  /\ (e.slot \notin touched \/ \E m \in ofSlot : m.tick <= e.from) => a.user = e.owner
                 /\ (\E m \in ofSlot : m.user = e.owner /\ m.tick \in e.from..end)
                       => a.user \in {None, e.owner}
  <2>1. PICK e \in Epochs :
           a = [epoch |-> e, user |-> IF e.user # None THEN e.user ELSE Inferred(e)]
    BY <1>1
  <2>2. a.epoch = e /\ a.user = IF e.user # None THEN e.user ELSE Inferred(e)
    BY <2>1
  <2>3. /\ e.owner \in Users /\ e.user \in {None, e.owner}
        /\ (e.slot \notin touched \/ \E m \in mappings : m.slot = e.slot /\ m.tick <= e.from)
              => e.user = e.owner
    BY DEF IInv, EpochsInv
  <2>4. e.owner # None
    BY <2>3, FramesAssumption
  <2>5. ASSUME NEW m \in mappings, m.slot = e.slot, m.user = e.owner,
               m.tick \in e.from..(IF e.to = None THEN tick ELSE e.to)
        PROVE  Inferred(e) \in {None, e.owner}
    BY <2>4, <2>5, InferredIsTheirs DEF IInv
  <2> QED BY <2>2, <2>3, <2>4, <2>5
<1>10. EvidenceNamesThePlayer'
  BY <1>2, <1>9 DEF EvidenceNamesThePlayer
<1> QED BY <1>1, <1>4, <1>5, <1>6, <1>7, <1>8, <1>10 DEF IInv

LEMMA NextKeepsInv == ASSUME IInv, Next PROVE IInv'
<1>1. ~ended /\ ~refused
  BY DEF Next
<1>2. ASSUME NEW s \in PlayerSlots, Part(s) PROVE IInv'
  BY <1>1, <1>2, PartKeepsInv
<1>3. ASSUME NEW s \in PlayerSlots, NEW u \in Users, Join(s, u) PROVE IInv'
  BY <1>1, <1>3, JoinKeepsInv
<1>4. CASE Play
  BY <1>1, <1>4, PlayKeepsInv
<1>5. CASE Record
  BY <1>1, <1>5, RecordKeepsInv
<1>6. CASE End
  BY <1>1, <1>6, EndKeepsInv
<1> QED BY <1>2, <1>3, <1>4, <1>5, <1>6 DEF Next

LEMMA StutterKeepsInv == ASSUME IInv, UNCHANGED replayVars PROVE IInv'
<1>1. /\ UNCHANGED <<world, visible, created, views, given, used, pending, tick>>
      /\ UNCHANGED <<frames, dynamic, lifetime, refused>>
      /\ UNCHANGED <<occupant, touched, mappings, ended, attributed>>
      /\ UNCHANGED <<active, completed, lastRow, lastRead, read>>
  BY DEF replayVars, frameVars, server, decoder, identity, projection
<1>2. Retained' = Retained /\ Epochs' = Epochs
  BY <1>1 DEF Retained, Epochs
<1>3. FramesTypeOK' /\ ReplayTypeOK'
  BY <1>1, <1>2 DEF IInv, FramesTypeOK, ReplayTypeOK
<1>4. WorldInv' /\ ViewsInv' /\ MappingsInv'
  BY <1>1, <1>2 DEF IInv, WorldInv, ViewsInv, MappingsInv
<1>5. DecoderInv' /\ FramesAreSent'
  BY <1>1, <1>2 DEF IInv, DecoderInv, FramesAreSent
<1>6. EpochsInv' /\ RowsInv'
  BY <1>1, <1>2 DEF IInv, EpochsInv, RowsInv
<1>7. OpenInv' /\ EvidenceNamesThePlayer'
  BY <1>1, <1>2 DEF IInv, OpenInv, EvidenceNamesThePlayer
<1> QED BY <1>1, <1>3, <1>4, <1>5, <1>6, <1>7 DEF IInv

THEOREM Invariance == Spec => []IInv
<1>1. Init => IInv
  BY InitIInv
<1>2. IInv /\ [Next]_replayVars => IInv'
  BY NextKeepsInv, StutterKeepsInv
<1> QED BY <1>1, <1>2, PTL DEF Spec

-----------------------------------------------------------------------------
(* What is promised *)

\* What the decoder's state is made of, at all times (entities.rs, projection.rs).
THEOREM ReplayTypeCorrect == Spec => [](FramesTypeOK /\ ReplayTypeOK)
<1>1. IInv => FramesTypeOK /\ ReplayTypeOK
  BY DEF IInv
<1> QED BY <1>1, Invariance, PTL

\* Packets are decoded, to what the server sent, whichever acknowledged frame and
\* set of baselines they refer to (EntityReconstructor::apply).
THEOREM SentFrames == Spec => []FramesAreSent
<1>1. IInv => FramesAreSent
  BY DEF IInv
<1> QED BY <1>1, Invariance, PTL

\* Rows are read as they were projected, in the epoch of one player's entity
\* (DirectCompactObservations::push, readObservation).
THEOREM LosslessRows == Spec => []RowsAreLossless
<1>1. IInv => RowsAreLossless
  <2> SUFFICES ASSUME IInv PROVE RowsAreLossless
    OBVIOUS
  <2>1. EpochsInv /\ ReplayTypeOK
    BY DEF IInv
  <2>2. None \notin Nat
    BY FramesAssumption
  <2>3. ASSUME NEW e \in Epochs, NEW f \in Epochs, e.slot = f.slot, e # f
        PROVE  \/ e.to # None /\ e.to <= f.from
               \/ f.to # None /\ f.to <= e.from
    <3>1. \A g \in Epochs : \/ g \in completed /\ g.to # None
                            \/ g \notin completed /\ g = active[g.slot] /\ active[g.slot] # None
      BY <2>1, <2>2 DEF EpochsInv, Epochs
    <3>2. CASE e \in completed /\ f \in completed
      BY <2>1, <2>3, <3>1, <3>2 DEF EpochsInv
    <3>3. CASE e \in completed /\ f \notin completed
      BY <2>1, <2>3, <3>1, <3>3 DEF EpochsInv
    <3>4. CASE e \notin completed /\ f \in completed
      BY <2>1, <2>3, <3>1, <3>4 DEF EpochsInv
    <3>5. CASE e \notin completed /\ f \notin completed
      BY <2>3, <3>1, <3>5
    <3> QED BY <3>2, <3>3, <3>4, <3>5
  <2>4. \A e, f \in Epochs : e.slot = f.slot /\ e.lifetime = f.lifetime => e.owner = f.owner
    BY <2>1 DEF EpochsInv
  <2> QED BY <2>3, <2>4 DEF IInv, RowsInv, RowsAreLossless
<1> QED BY <1>1, Invariance, PTL

\* The evidence names an epoch's player, when the mappings tell
\* (buildEvidenceBundle).
THEOREM NamedPlayers == Spec => []EvidenceNamesThePlayer
<1>1. IInv => EvidenceNamesThePlayer
  BY DEF IInv
<1> QED BY <1>1, Invariance, PTL

-----------------------------------------------------------------------------
(* Induction, and functions and folds that it defines *)

\* Induction up to a number.
LEMMA Induction ==
  ASSUME NEW n \in Nat, NEW S \in SUBSET (0..n), 0 \in S, \A i \in S : i < n => i + 1 \in S
  PROVE  S = 0..n
<1> DEFINE R == OpToRel(<, Nat)
           Rest == 0..n \ S
<1>1. \A y, x \in Nat : y < x => <<y, x>> \in R
  BY DEF OpToRel
<1> SUFFICES ASSUME Rest # {} PROVE FALSE
  OBVIOUS
<1>2. Rest \subseteq Nat
  OBVIOUS
<1>3. PICK x \in Rest : \A y \in Rest : ~ (<<y, x>> \in R)
  BY <1>2, NatLessThanWellFounded, WFMin
<1> HIDE DEF R
<1>4. x \in Nat /\ x - 1 \in Nat /\ x - 1 \in 0..n /\ x - 1 < x /\ (x - 1) + 1 = x /\ x - 1 < n
  BY <1>3
<1>5. x - 1 \in S
  BY <1>1, <1>3, <1>4
<1> QED BY <1>3, <1>4, <1>5

\* A finite set of integers has a greatest element.
LEMMA BoundedMax ==
  ASSUME NEW S \in SUBSET Int, S # {}, NEW m \in Int, \A x \in S : x <= m
  PROVE  Max(S) \in S /\ \A y \in S : y <= Max(S)
<1> DEFINE R == OpToRel(<, Nat)
           Left == {m - x : x \in S}
<1>1. \A y, x \in Nat : y < x => <<y, x>> \in R
  BY DEF OpToRel
<1>2. Left \subseteq Nat /\ Left # {}
  <2>1. \A x \in S : x \in Int /\ m - x \in Nat
    OBVIOUS
  <2> QED BY <2>1
<1>3. PICK l \in Left : \A y \in Left : ~ (<<y, l>> \in R)
  BY <1>2, NatLessThanWellFounded, WFMin
<1> HIDE DEF R
<1>4. PICK x \in S : l = m - x
  BY <1>3
<1>5. ASSUME NEW y \in S PROVE x >= y
  <2>1. m - y \in Left
    OBVIOUS
  <2>2. ~(m - y < l)
    BY <1>1, <1>2, <1>3, <2>1
  <2> QED BY <1>4, <2>2
<1>6. Max(S) \in S /\ \A y \in S : Max(S) >= y
  BY <1>5 DEF Max
<1> QED BY <1>6

\* A step from each number up to n, within a set; the function and the fold that
\* such steps define.  The lemmas about them are cited with these unexpanded.
Steps(F, n, T) == n \in Nat /\ F \in [1..n -> [T -> T]]

Follows(f, b, F, n, T) ==
    f \in [0..n -> T] /\ f[0] = b /\ \A i \in 1..n : f[i] = F[i][f[i - 1]]

Folded(g, b, F, n, T) ==
    /\ g \in [SUBSET (1..n) -> T]
    /\ \A s \in SUBSET (1..n) : g[s] = IF s = {} THEN b ELSE F[Max(s)][g[s \ {Max(s)}]]

LEMMA Recursion ==
  ASSUME NEW T, NEW b \in T, NEW n, NEW F, Steps(F, n, T)
  PROVE  \E f : Follows(f, b, F, n, T)
<1> DEFINE Good(f, k) == f[0] = b /\ \A i \in 1..k : f[i] = F[i][f[i - 1]]
           S == {k \in 0..n : \E f \in [0..k -> T] : Good(f, k)}
<1> n \in Nat /\ F \in [1..n -> [T -> T]]
  BY DEF Steps
<1>1. 0 \in S
  <2> DEFINE g == [i \in 0..0 |-> b]
  <2>1. g \in [0..0 -> T] /\ g[0] = b /\ 1..0 = {} /\ 0 \in 0..n
    OBVIOUS
  <2> HIDE DEF g
  <2>2. Good(g, 0)
    BY <2>1
  <2> QED BY <2>1, <2>2
<1>2. ASSUME NEW k \in S, k < n PROVE k + 1 \in S
  <2>1. PICK f \in [0..k -> T] : Good(f, k)
    OBVIOUS
  <2> DEFINE g == [i \in 0..k + 1 |-> IF i = k + 1 THEN F[k + 1][f[k]] ELSE f[i]]
  <2>2. F[k + 1][f[k]] \in T
    BY <1>2
  <2>3. g \in [0..k + 1 -> T]
    BY <2>2
  <2>4. g[0] = b /\ g[k + 1] = F[k + 1][f[k]] /\ \A i \in 0..k : g[i] = f[i]
    BY <2>1
  <2>5. \A i \in 1..k + 1 : g[i] = F[i][g[i - 1]]
    <3> TAKE i \in 1..k + 1
    <3>1. CASE i = k + 1
      <4>1. i - 1 = k /\ k \in 0..k
        BY <3>1
      <4> QED BY <2>4, <3>1, <4>1
    <3>2. CASE i \in 1..k
      BY <2>1, <2>4, <3>2
    <3> QED BY <3>1, <3>2
  <2> HIDE DEF g
  <2>6. k + 1 \in 0..n /\ Good(g, k + 1)
    BY <1>2, <2>4, <2>5
  <2> QED BY <2>3, <2>6
<1>3. S = 0..n
  <2> HIDE DEF S
  <2>1. S \in SUBSET (0..n)
    BY DEF S
  <2> QED BY <1>1, <1>2, <2>1, Induction
<1>4. n \in S
  <2> HIDE DEF S
  <2> QED BY <1>3
<1>5. PICK f \in [0..n -> T] : Good(f, n)
  BY <1>4
<1>6. Follows(f, b, F, n, T)
  BY <1>5 DEF Follows
<1> QED BY <1>6

\* The greatest of indices, and the indices before it.
LEMMA GreatestIndex ==
  ASSUME NEW n \in Nat, NEW s \in SUBSET (1..n), s # {}
  PROVE  Max(s) \in s /\ \A i \in s : i <= Max(s)
<1>1. \A x \in s : x \in Int /\ x <= n
  OBVIOUS
<1>2. s \in SUBSET Int /\ n \in Int
  BY <1>1
<1> QED BY <1>1, <1>2, BoundedMax

LEMMA LastIndex ==
  ASSUME NEW n \in Nat \ {0}
  PROVE  Max(1..n) = n /\ (1..n) \ {n} = 1..n - 1
<1>1. 1..n \in SUBSET (1..n) /\ n \in 1..n
  OBVIOUS
<1>2. Max(1..n) \in 1..n /\ \A i \in 1..n : i <= Max(1..n)
  BY <1>1, GreatestIndex
<1> QED BY <1>1, <1>2

\* The fold of the community modules, over every set of indices.
LEMMA Folding ==
  ASSUME NEW T, NEW b \in T, NEW n, NEW F, Steps(F, n, T)
  PROVE  \E g : Folded(g, b, F, n, T)
<1> DEFINE Good(g, k) ==
               \A s \in SUBSET (1..k) :
                   g[s] = IF s = {} THEN b ELSE F[Max(s)][g[s \ {Max(s)}]]
           S == {k \in 0..n : \E g \in [SUBSET (1..k) -> T] : Good(g, k)}
<1> n \in Nat /\ F \in [1..n -> [T -> T]]
  BY DEF Steps
<1>1. 0 \in S
  <2> DEFINE g == [s \in SUBSET (1..0) |-> b]
  <2>1. g \in [SUBSET (1..0) -> T] /\ 1..0 = {} /\ 0 \in 0..n
    OBVIOUS
  <2>2. \A s \in SUBSET (1..0) : s = {} /\ g[s] = b
    BY <2>1
  <2> HIDE DEF g
  <2>3. Good(g, 0)
    BY <2>2
  <2> QED BY <2>1, <2>3
<1>2. ASSUME NEW k \in S, k < n PROVE k + 1 \in S
  <2>1. PICK g \in [SUBSET (1..k) -> T] : Good(g, k)
    OBVIOUS
  <2> DEFINE h == [s \in SUBSET (1..k + 1) |->
                     IF k + 1 \in s THEN F[k + 1][g[s \ {k + 1}]] ELSE g[s]]
  <2>2. k \in Nat /\ k + 1 \in 1..n /\ k + 1 \in 0..n
    BY <1>2
  <2>3. \A s \in SUBSET (1..k + 1) : s \ {k + 1} \in SUBSET (1..k)
    BY <2>2
  <2>4. \A s \in SUBSET (1..k + 1) : k + 1 \notin s => s \in SUBSET (1..k)
    BY <2>2
  <2>5. h \in [SUBSET (1..k + 1) -> T]
    <3>1. ASSUME NEW s \in SUBSET (1..k + 1)
          PROVE  (IF k + 1 \in s THEN F[k + 1][g[s \ {k + 1}]] ELSE g[s]) \in T
      BY <2>2, <2>3, <2>4
    <3> QED BY <3>1
  <2>6. \A s \in SUBSET (1..k) : h[s] = g[s]
    <3>1. \A s \in SUBSET (1..k) : k + 1 \notin s /\ s \in SUBSET (1..k + 1)
      BY <2>2
    <3> QED BY <3>1
  <2>7. \A s \in SUBSET (1..k + 1) : k + 1 \in s => h[s] = F[k + 1][g[s \ {k + 1}]]
    OBVIOUS
  <2> HIDE DEF h
  <2>8. ASSUME NEW s \in SUBSET (1..k + 1)
        PROVE  h[s] = IF s = {} THEN b ELSE F[Max(s)][h[s \ {Max(s)}]]
    <3>1. CASE k + 1 \in s
      <4>1. Max(s) \in s /\ \A i \in s : i <= Max(s)
        <5>1. k + 1 \in Nat /\ s # {}
          BY <2>2, <3>1
        <5> QED BY <5>1, GreatestIndex
      <4>2. Max(s) = k + 1
        <5>1. Max(s) \in 1..k + 1 /\ k + 1 <= Max(s)
          BY <3>1, <4>1
        <5> QED BY <2>2, <5>1
      <4>3. h[s] = F[k + 1][g[s \ {k + 1}]]
        BY <2>7, <3>1
      <4>4. h[s \ {k + 1}] = g[s \ {k + 1}]
        BY <2>3, <2>6
      <4> QED BY <3>1, <4>2, <4>3, <4>4
    <3>2. CASE k + 1 \notin s
      <4>1. s \in SUBSET (1..k)
        BY <2>4, <3>2
      <4>2. s \ {Max(s)} \in SUBSET (1..k)
        BY <4>1
      <4> QED BY <2>1, <2>6, <4>1, <4>2
    <3> QED BY <3>1, <3>2
  <2>9. Good(h, k + 1)
    BY <2>8
  <2> QED BY <2>2, <2>5, <2>9
<1>3. S = 0..n
  <2> HIDE DEF S
  <2>1. S \in SUBSET (0..n)
    BY DEF S
  <2> QED BY <1>1, <1>2, <2>1, Induction
<1>4. n \in S
  <2> HIDE DEF S
  <2> QED BY <1>3
<1>5. PICK g \in [SUBSET (1..n) -> T] : Good(g, n)
  BY <1>4
<1>6. Folded(g, b, F, n, T)
  BY <1>5 DEF Folded
<1> QED BY <1>6

\* Finitely many numbers have a bound.
LEMMA Bounded ==
  ASSUME NEW n \in Nat, NEW f \in [1..n -> Int]
  PROVE  \E m \in Nat : \A i \in 1..n : f[i] <= m
<1> DEFINE S == {k \in 0..n : \E m \in Nat : \A i \in 1..k : f[i] <= m}
<1>1. 0 \in S
  OBVIOUS
<1>2. ASSUME NEW k \in S, k < n PROVE k + 1 \in S
  <2>1. k + 1 \in 1..n /\ k + 1 \in 0..n /\ k \in Nat /\ f[k + 1] \in Int
    BY <1>2
  <2>2. PICK m \in Nat : \A i \in 1..k : f[i] <= m
    OBVIOUS
  <2>3. PICK l \in Nat : m <= l /\ f[k + 1] <= l
    <3>1. CASE f[k + 1] <= m
      BY <3>1
    <3>2. CASE ~(f[k + 1] <= m)
      BY <2>1, <3>2
    <3> QED BY <3>1, <3>2
  <2>4. \A i \in 1..k + 1 : i \in 1..k \/ i = k + 1
    BY <2>1
  <2>5. \A i \in 1..k : f[i] \in Int /\ f[i] <= l
    BY <2>1, <2>2, <2>3
  <2> QED BY <2>1, <2>3, <2>4, <2>5
<1>3. S \in SUBSET (0..n)
  OBVIOUS
<1> HIDE DEF S
<1>4. S = 0..n
  BY <1>1, <1>2, <1>3, Induction
<1>5. n \in S
  BY <1>4
<1> QED BY <1>5 DEF S

\* The greater and the lesser of two numbers, and the greatest of finitely many.
LEMMA OfTwo ==
  ASSUME NEW x \in Int, NEW y \in Int
  PROVE  /\ Max({x, y}) = IF x >= y THEN x ELSE y
         /\ Min({x, y}) = IF x <= y THEN x ELSE y
<1>1. \E a \in {x, y} : \A b \in {x, y} : a >= b
  OBVIOUS
<1>2. \E a \in {x, y} : \A b \in {x, y} : a <= b
  OBVIOUS
<1>3. Max({x, y}) \in {x, y} /\ \A b \in {x, y} : Max({x, y}) >= b
  BY <1>1 DEF Max
<1>4. Min({x, y}) \in {x, y} /\ \A b \in {x, y} : Min({x, y}) <= b
  BY <1>2 DEF Min
<1> QED BY <1>3, <1>4

LEMMA GreatestOf ==
  ASSUME NEW n \in Nat \ {0}, NEW f \in [1..n -> Nat]
  PROVE  LET S == {f[i] : i \in 1..n}
         IN  Max(S) \in S /\ Max(S) \in Nat /\ \A y \in S : y <= Max(S)
<1> DEFINE S == {f[i] : i \in 1..n}
<1>1. n \in Nat /\ 1 \in 1..n /\ f \in [1..n -> Int]
  OBVIOUS
<1>2. PICK m \in Nat : \A i \in 1..n : f[i] <= m
  BY <1>1, Bounded
<1>3. S \subseteq Nat /\ S # {} /\ \A y \in S : y <= m
  BY <1>1, <1>2
<1> HIDE DEF S
<1>4. Max(S) \in S /\ \A y \in S : y <= Max(S)
  <2>1. S \in SUBSET Int /\ m \in Int
    BY <1>3
  <2> QED BY <1>2, <1>3, <2>1, BoundedMax
<1> QED BY <1>3, <1>4 DEF S

-----------------------------------------------------------------------------
(* Lives *)

\* The scan of a player's rows, as a function of the rows scanned.
LEMMA ScanUnfolds ==
  ASSUME NEW Body, NEW rows \in Seq(Body), NEW deaths
  PROVE  \E scan :
            /\ InfectedLives(rows, deaths) = scan[Len(rows) + 1].lives
            /\ scan[0] = [start |-> 0, lives |-> {}]
            /\ \A i \in 1..Len(rows) + 1 : scan[i] = ScanRow(rows, deaths, scan[i - 1], i)
<1> DEFINE n == Len(rows) + 1
           Found == {Life(rows, deaths, a, z) : a \in Nat, z \in Int}
           T == [start : Nat, lives : SUBSET Found]
           b == [start |-> 0, lives |-> {}]
           F == [i \in 1..n |-> [t \in T |-> ScanRow(rows, deaths, t, i)]]
           Step(f) == [i \in 0..n |-> IF i = 0 THEN b ELSE ScanRow(rows, deaths, f[i - 1], i)]
           scan == CHOOSE f : f = Step(f)
<1>1. n \in Nat /\ b \in T
  OBVIOUS
<1>2. ASSUME NEW i \in 1..n, NEW t \in T PROVE ScanRow(rows, deaths, t, i) \in T
  <2>1. i - 1 \in Int /\ i \in Nat /\ t.start \in Nat /\ t.lives \in SUBSET Found
    OBVIOUS
  <2>2. Life(rows, deaths, t.start, i - 1) \in Found
    BY <2>1
  <2> HIDE DEF Found, n
  <2>3. 0 \in Nat /\ t.lives \cup {Life(rows, deaths, t.start, i - 1)} \in SUBSET Found
    BY <2>1, <2>2
  <2> QED BY <2>1, <2>3 DEF ScanRow
<1>3. Steps(F, n, T)
  <2> HIDE DEF T, n
  <2> QED BY <1>1, <1>2 DEF Steps
<1>4. \A i \in 1..n, t \in T : F[i][t] = ScanRow(rows, deaths, t, i)
  <2> HIDE DEF T, n
  <2> QED OBVIOUS
<1> HIDE DEF F, T, n, b
<1>5. PICK f : Follows(f, b, F, n, T)
  BY <1>1, <1>3, Recursion
<1> f \in [0..n -> T] /\ f[0] = b /\ \A i \in 1..n : f[i] = F[i][f[i - 1]]
  BY <1>5 DEF Follows
<1>6. ASSUME NEW i \in 1..n PROVE f[i] = ScanRow(rows, deaths, f[i - 1], i)
  <2>1. i - 1 \in 0..n
    BY <1>1
  <2> QED BY <1>4, <1>5, <2>1
<1>7. f = Step(f)
  <2>1. \A i \in 0..n : f[i] = IF i = 0 THEN b ELSE ScanRow(rows, deaths, f[i - 1], i)
    <3> TAKE i \in 0..n
    <3>1. i # 0 => i \in 1..n
      BY <1>1
    <3> QED BY <1>5, <1>6, <3>1
  <2> QED BY <1>5, <2>1
<1>8. scan = Step(scan)
  <2> HIDE DEF Step
  <2> QED BY <1>7
<1> HIDE DEF scan
<1>9. 0 \in 0..n /\ \A i \in 1..n : i \in 0..n /\ i # 0
  BY <1>1
<1>10. scan[0] = b /\ \A i \in 1..n : scan[i] = ScanRow(rows, deaths, scan[i - 1], i)
  BY <1>8, <1>9
<1>11. InfectedLives(rows, deaths) = scan[n].lives
  BY Zenon DEF InfectedLives, scan, n, b
<1> QED BY <1>10, <1>11 DEF n, b

\* Rows a to z are one stretch of a class; the stretches that nothing extends.
Stretch(rows, a, z) == \A i \in a..z : Active(rows[i]) /\ rows[i].class = rows[a].class

Longest(rows) ==
    {k \in (DOMAIN rows) \X (DOMAIN rows) :
        /\ k[1] <= k[2] /\ Stretch(rows, k[1], k[2])
        /\ k[1] = 1 \/ ~Stretch(rows, k[1] - 1, k[2])
        /\ k[2] = Len(rows) \/ ~Stretch(rows, k[1], k[2] + 1)}

\* The scan before row i + 1: the open life is the stretch that ends at row i, and
\* the lives are the longest stretches that end before it.
Scanned(rows, deaths, state, i) ==
    /\ IF i \in 1..Len(rows) /\ Active(rows[i])
       THEN /\ state.start \in 1..i /\ Stretch(rows, state.start, i)
            /\ state.start = 1 \/ ~Stretch(rows, state.start - 1, i)
       ELSE state.start = 0
    /\ state.lives = {Life(rows, deaths, k[1], k[2]) : k \in {x \in Longest(rows) : x[2] < i}}

\* SameLife says of an active row that it goes on with the class of the row before.
LEMMA SameIsStretch ==
  ASSUME NEW rows, NEW i \in Nat, i > 1
  PROVE  /\ SameLife(rows[i - 1], rows[i]) <=> Stretch(rows, i - 1, i)
         /\ Active(rows[i]) => Stretch(rows, i, i)
<1>1. i - 1 \in Int /\ (i - 1)..i = {i - 1, i} /\ i..i = {i}
  OBVIOUS
<1>2. SameLife(rows[i - 1], rows[i]) <=>
        /\ Active(rows[i]) /\ Active(rows[i - 1]) /\ rows[i].class = rows[i - 1].class
  BY DEF SameLife, Active
<1> QED BY <1>1, <1>2 DEF Stretch

LEMMA StretchParts ==
  ASSUME NEW rows, NEW a \in Nat, NEW c \in Nat, NEW z \in Nat, a <= c, c <= z
  PROVE  /\ Stretch(rows, a, z) => Stretch(rows, c, z) /\ Stretch(rows, a, c)
         /\ Stretch(rows, a, c) /\ Stretch(rows, c, z) => Stretch(rows, a, z)
<1>1. c \in a..z /\ c \in a..c /\ \A i \in a..z : i \in a..c \/ i \in c..z
  OBVIOUS
<1>2. \A i \in c..z : i \in a..z
  OBVIOUS
<1>3. \A i \in a..c : i \in a..z
  OBVIOUS
<1> QED BY <1>1, <1>2, <1>3 DEF Stretch

\* One stretch that nothing extends ends at a row, if any does.
LEMMA OneLongest ==
  ASSUME NEW Body, NEW rows \in Seq(Body), NEW a \in 1..Len(rows), NEW z \in 1..Len(rows), a <= z,
         Stretch(rows, a, z), a = 1 \/ ~Stretch(rows, a - 1, z),
         NEW k \in Longest(rows), k[2] = z
  PROVE  k[1] = a
<1>1. /\ k[1] \in 1..Len(rows) /\ k[1] <= z /\ Stretch(rows, k[1], z)
      /\ k[1] = 1 \/ ~Stretch(rows, k[1] - 1, z)
  BY DEF Longest
<1>2. ~(k[1] < a)
  <2> SUFFICES ASSUME k[1] < a PROVE FALSE
    OBVIOUS
  <2>1. a - 1 \in Nat /\ k[1] \in Nat /\ k[1] <= a - 1 /\ a - 1 <= z /\ z \in Nat /\ a # 1
    BY <1>1
  <2> QED BY <1>1, <2>1, StretchParts
<1>3. ~(a < k[1])
  <2> SUFFICES ASSUME a < k[1] PROVE FALSE
    OBVIOUS
  <2>1. k[1] - 1 \in Nat /\ a \in Nat /\ a <= k[1] - 1 /\ k[1] - 1 <= z /\ z \in Nat /\ k[1] # 1
    BY <1>1
  <2> QED BY <1>1, <2>1, StretchParts
<1> QED BY <1>1, <1>2, <1>3

LEMMA RowIsScanned ==
  ASSUME NEW Body, NEW rows \in Seq(Body), NEW deaths, NEW i \in 1..Len(rows) + 1,
         NEW state, Scanned(rows, deaths, state, i - 1)
  PROVE  Scanned(rows, deaths, ScanRow(rows, deaths, state, i), i)
<1> DEFINE n == Len(rows)
           goes == i <= n /\ Active(rows[i])
           same == goes /\ i > 1 /\ SameLife(rows[i - 1], rows[i])
           next == ScanRow(rows, deaths, state, i)
           Ending(z) == {k \in Longest(rows) : k[2] = z}
           LivesOf(S) == {Life(rows, deaths, k[1], k[2]) : k \in S}
           Before(z) == {k \in Longest(rows) : k[2] < z}
<1>1. n \in Nat /\ i \in Nat /\ i - 1 \in Nat /\ DOMAIN rows = 1..n /\ (i - 1) + 1 = i
  OBVIOUS
<1>2. /\ next.start = IF same THEN state.start ELSE IF goes THEN i ELSE 0
      /\ next.lives = IF state.start > 0 /\ ~same
                      THEN state.lives \cup {Life(rows, deaths, state.start, i - 1)}
                      ELSE state.lives
  BY DEF ScanRow
<1>3. \A k \in Longest(rows) : /\ k[1] \in 1..n /\ k[2] \in 1..n /\ k[1] <= k[2]
                               /\ Stretch(rows, k[1], k[2])
                               /\ k[2] = n \/ ~Stretch(rows, k[1], k[2] + 1)
  BY <1>1 DEF Longest
<1>4. /\ state.lives = LivesOf(Before(i - 1))
      /\ IF i - 1 \in 1..n /\ Active(rows[i - 1])
         THEN /\ state.start \in 1..i - 1 /\ Stretch(rows, state.start, i - 1)
              /\ state.start = 1 \/ ~Stretch(rows, state.start - 1, i - 1)
         ELSE state.start = 0
  BY DEF Scanned
<1>5. Before(i) = Before(i - 1) \cup Ending(i - 1)
  <2>1. \A k \in Longest(rows) : k[2] < i <=> k[2] < i - 1 \/ k[2] = i - 1
    BY <1>1, <1>3
  <2> QED BY <2>1
<1>6. same <=> i \in 2..n /\ Stretch(rows, i - 1, i)
  <2>1. CASE i > 1
    <3>1. SameLife(rows[i - 1], rows[i]) <=> Stretch(rows, i - 1, i)
      BY <1>1, <2>1, SameIsStretch
    <3>2. i <= n <=> i \in 2..n
      BY <1>1, <2>1
    <3>3. SameLife(rows[i - 1], rows[i]) => Active(rows[i])
      BY DEF SameLife
    <3> QED BY <2>1, <3>1, <3>2, <3>3
  <2> QED BY <1>1, <2>1
<1> HIDE DEF next, same
<1>7. CASE same
  <2>1. /\ i \in 2..n /\ i - 1 \in 1..n /\ i - 1 \in Nat /\ i - 1 <= i
        /\ Stretch(rows, i - 1, i) /\ Active(rows[i]) /\ i \in 1..n
    BY <1>1, <1>6, <1>7 DEF same
  <2>2. Active(rows[i - 1])
    BY <1>1, <2>1 DEF Stretch
  <2>3. /\ state.start \in 1..i - 1 /\ Stretch(rows, state.start, i - 1)
        /\ state.start = 1 \/ ~Stretch(rows, state.start - 1, i - 1)
    BY <1>4, <2>1, <2>2
  <2>4. /\ state.start \in Nat /\ state.start <= i - 1 /\ state.start \in 1..i
        /\ state.start # 1 => state.start - 1 \in Nat /\ state.start - 1 <= i - 1
    BY <1>1, <2>3
  <2>5. Stretch(rows, state.start, i)
    BY <1>1, <2>1, <2>3, <2>4, StretchParts
  <2>6. state.start = 1 \/ ~Stretch(rows, state.start - 1, i)
    BY <1>1, <2>1, <2>3, <2>4, StretchParts
  <2>7. Ending(i - 1) = {}
    <3> SUFFICES ASSUME NEW k \in Longest(rows), k[2] = i - 1 PROVE FALSE
      OBVIOUS
    <3>1. k[1] \in Nat /\ k[1] <= i - 1 /\ Stretch(rows, k[1], i - 1)
      BY <1>3
    <3>2. Stretch(rows, k[1], i)
      BY <1>1, <2>1, <3>1, StretchParts
    <3> QED BY <1>1, <1>3, <2>1, <3>2
  <2>8. next.lives = LivesOf(Before(i))
    BY <1>2, <1>4, <1>5, <1>7, <2>7
  <2>9. next.start = state.start
    BY <1>2, <1>7
  <2> QED BY <2>1, <2>4, <2>5, <2>6, <2>8, <2>9 DEF Scanned, next
<1>8. CASE ~same
  <2>1. next.start = IF goes THEN i ELSE 0
    BY <1>2, <1>8
  <2>2. goes <=> i \in 1..n /\ Active(rows[i])
    BY <1>1
  <2>3. ASSUME goes
        PROVE  i \in 1..i /\ Stretch(rows, i, i) /\ (i = 1 \/ ~Stretch(rows, i - 1, i))
    <3>1. Stretch(rows, i, i)
      <4>1. i..i = {i}
        BY <1>1
      <4> QED BY <2>3, <4>1 DEF Stretch
    <3>2. i # 1 => i \in 2..n
      BY <1>1, <2>3
    <3> QED BY <1>1, <1>6, <1>8, <3>1, <3>2
  <2>4. ASSUME state.start > 0
        PROVE  Ending(i - 1) = {<<state.start, i - 1>>}
    <3>1. /\ i - 1 \in 1..n /\ state.start \in 1..i - 1 /\ Stretch(rows, state.start, i - 1)
          /\ state.start = 1 \/ ~Stretch(rows, state.start - 1, i - 1)
      <4>1. CASE i - 1 \in 1..n /\ Active(rows[i - 1])
        BY <1>4, <4>1
      <4>2. CASE ~(i - 1 \in 1..n /\ Active(rows[i - 1]))
        BY <1>4, <2>4, <4>2
      <4> QED BY <4>1, <4>2
    <3>2. state.start \in 1..n /\ state.start <= i - 1 /\ state.start \in Nat
      BY <1>1, <3>1
    <3>3. i - 1 = n \/ ~Stretch(rows, state.start, i)
      <4> SUFFICES ASSUME i - 1 # n, Stretch(rows, state.start, i) PROVE FALSE
        OBVIOUS
      <4>1. i \in 2..n /\ i - 1 <= i
        BY <1>1, <3>1
      <4>2. Stretch(rows, i - 1, i)
        BY <1>1, <3>2, <4>1, StretchParts
      <4> QED BY <1>6, <1>8, <4>1, <4>2
    <3>4. <<state.start, i - 1>> \in Longest(rows)
      BY <1>1, <3>1, <3>2, <3>3 DEF Longest
    <3>5. \A k \in Longest(rows) : k[2] = i - 1 => k[1] = state.start
      BY <3>1, <3>2, OneLongest
    <3>6. \A k \in Longest(rows) : k = <<k[1], k[2]>>
      BY DEF Longest
    <3> QED BY <3>4, <3>5, <3>6
  <2>5. ASSUME ~(state.start > 0) PROVE Ending(i - 1) = {}
    <3> SUFFICES ASSUME NEW k \in Longest(rows), k[2] = i - 1 PROVE FALSE
      OBVIOUS
    <3>1. i - 1 \in k[1]..k[2] /\ i - 1 \in 1..n
      BY <1>3
    <3>2. Active(rows[i - 1])
      BY <1>3, <3>1 DEF Stretch
    <3> QED BY <1>1, <1>4, <2>5, <3>1, <3>2
  <2>6. next.lives = LivesOf(Before(i))
    <3>1. CASE state.start > 0
      <4>1. LivesOf(Before(i)) = LivesOf(Before(i - 1)) \cup {Life(rows, deaths, state.start, i - 1)}
        <5>1. \A A, p : LivesOf(A \cup {p}) = LivesOf(A) \cup {Life(rows, deaths, p[1], p[2])}
          OBVIOUS
        <5> DEFINE p == <<state.start, i - 1>>
        <5>2. p[1] = state.start /\ p[2] = i - 1 /\ Before(i) = Before(i - 1) \cup {p}
          BY <1>5, <2>4, <3>1
        <5> HIDE DEF Lives, Before, p
        <5> QED BY <5>1, <5>2
      <4> QED BY <1>2, <1>4, <1>8, <3>1, <4>1
    <3>2. CASE ~(state.start > 0)
      BY <1>2, <1>4, <1>5, <2>5, <3>2
    <3> QED BY <3>1, <3>2
  <2> QED BY <2>1, <2>2, <2>3, <2>6 DEF Scanned, next
<1> QED BY <1>7, <1>8

\* The lives of a player are the longest stretches of rows as one class, whatever
\* the rows and the deaths are.
THEOREM WholeLives ==
  ASSUME NEW Body, NEW rows \in Seq(Body), NEW deaths
  PROVE  LivesAreWhole(rows, deaths)
<1>1. PICK scan :
            /\ InfectedLives(rows, deaths) = scan[Len(rows) + 1].lives
            /\ scan[0] = [start |-> 0, lives |-> {}]
            /\ \A i \in 1..Len(rows) + 1 : scan[i] = ScanRow(rows, deaths, scan[i - 1], i)
  BY ScanUnfolds, Zenon
<1> DEFINE n == Len(rows) + 1
<1> DEFINE S == {i \in 0..n : Scanned(rows, deaths, scan[i], i)}
<1>2. n \in Nat /\ \A k \in Longest(rows) : k[2] \in 1..Len(rows) /\ k[2] < n
  BY DEF Longest
<1>3. 0 \in S
  <2>1. \A k \in Longest(rows) : ~(k[2] < 0)
    BY <1>2
  <2>2. ~(0 \in 1..Len(rows)) /\ 0 \in 0..n
    BY <1>2
  <2> QED BY <1>1, <2>1, <2>2 DEF Scanned
<1>4. ASSUME NEW i \in S, i < n PROVE i + 1 \in S
  <2>1. i + 1 \in 1..n /\ (i + 1) - 1 = i /\ i + 1 \in 0..n
    BY <1>2, <1>4
  <2>2. Scanned(rows, deaths, scan[i], i) /\ scan[i + 1] = ScanRow(rows, deaths, scan[i], i + 1)
    BY <1>1, <2>1
  <2>3. Scanned(rows, deaths, ScanRow(rows, deaths, scan[i], i + 1), i + 1)
    BY <2>1, <2>2, RowIsScanned
  <2> QED BY <2>1, <2>2, <2>3
<1>5. n \in S
  <2> HIDE DEF n
  <2>1. S \in SUBSET (0..n)
    OBVIOUS
  <2> HIDE DEF S
  <2> QED BY <1>2, <1>3, <1>4, <2>1, Induction
<1>6. scan[n].lives = {Life(rows, deaths, k[1], k[2]) : k \in Longest(rows)}
  <2>1. {x \in Longest(rows) : x[2] < n} = Longest(rows)
    BY <1>2
  <2> QED BY <1>5, <2>1 DEF Scanned
<1> QED BY <1>1, <1>6, Zenon DEF LivesAreWhole, Longest, Stretch

-----------------------------------------------------------------------------
(* Hits *)

\* A life joins the last hit or opens one.
Joined(groups, life) ==
    IF groups = <<>> \/ OpensHit(groups[Len(groups)], life)
    THEN Append(groups, <<life>>)
    ELSE [groups EXCEPT ![Len(groups)] = Append(@, life)]

LEMMA JoinedIsTyped ==
  ASSUME NEW L, NEW life \in L, NEW groups \in Seq(Seq(L))
  PROVE  Joined(groups, life) \in Seq(Seq(L))
<1>1. <<life>> \in Seq(L) /\ Append(groups, <<life>>) \in Seq(Seq(L))
  OBVIOUS
<1>2. CASE groups # <<>>
  <2>1. Len(groups) \in 1..Len(groups) /\ groups[Len(groups)] \in Seq(L)
    BY <1>2
  <2>2. Append(groups[Len(groups)], life) \in Seq(L)
    BY <2>1
  <2>3. [groups EXCEPT ![Len(groups)] = Append(@, life)] \in Seq(Seq(L))
    BY <2>1, <2>2
  <2> QED BY <1>1, <2>3 DEF Joined
<1>3. CASE groups = <<>>
  BY <1>1, <1>3 DEF Joined
<1> QED BY <1>2, <1>3

\* The hits, as a function of the lives looked at.
LEMMA GroupsUnfold ==
  ASSUME NEW L, NEW lives \in Seq(L)
  PROVE  \E hits : /\ Groups(lives) = hits[Len(lives)]
                   /\ hits[0] = <<>>
                   /\ \A i \in 1..Len(lives) : hits[i] = Joined(hits[i - 1], lives[i])
<1> DEFINE n == Len(lives)
           T == Seq(Seq(L))
           F == [i \in 1..n |-> [t \in T |-> Joined(t, lives[i])]]
           Step(g) == [s \in SUBSET (DOMAIN lives) |->
                         IF s = {} THEN <<>>
                         ELSE LET i == Max(s) IN Joined(g[s \ {i}], lives[i])]
           chosen == CHOOSE g : g = Step(g)
           hits == [i \in 0..n |-> chosen[1..i]]
<1>1. n \in Nat /\ DOMAIN lives = 1..n
  OBVIOUS
<1>2. <<>> \in T
  OBVIOUS
<1>3. ASSUME NEW i \in 1..n, NEW t \in T PROVE Joined(t, lives[i]) \in T
  <2>1. lives[i] \in L
    OBVIOUS
  <2> QED BY <2>1, JoinedIsTyped
<1> HIDE DEF T
<1>4. \A i \in 1..n, t \in T : F[i][t] = Joined(t, lives[i])
  OBVIOUS
<1>5. Steps(F, n, T)
  BY <1>1, <1>3 DEF Steps
<1> HIDE DEF F, n
<1>6. PICK g : Folded(g, <<>>, F, n, T)
  BY <1>2, <1>5, Folding
<1>7. g = Step(g)
  <2>1. ASSUME NEW s \in SUBSET (1..n)
        PROVE  g[s] = IF s = {} THEN <<>> ELSE Joined(g[s \ {Max(s)}], lives[Max(s)])
    <3>1. g[s] = IF s = {} THEN <<>> ELSE F[Max(s)][g[s \ {Max(s)}]]
      BY <1>6 DEF Folded
    <3>2. s # {} => Max(s) \in 1..n /\ g[s \ {Max(s)}] \in T
      <4>1. s # {} => Max(s) \in s
        BY <1>1, GreatestIndex
      <4>2. s \ {Max(s)} \in SUBSET (1..n)
        OBVIOUS
      <4> QED BY <1>6, <4>1, <4>2 DEF Folded
    <3> QED BY <1>4, <3>1, <3>2
  <2>2. g = [s \in SUBSET (1..n) |-> g[s]]
    BY <1>6 DEF Folded
  <2> QED BY <1>1, <2>1, <2>2
<1>8. chosen = Step(chosen)
  <2> HIDE DEF Step
  <2> QED BY <1>7
<1> HIDE DEF chosen
<1>9. Groups(lives) = chosen[1..n]
  <2>1. Groups(lives) = chosen[DOMAIN lives]
    BY Zenon DEF Groups, FoldLeft, MapThenFoldSet, Joined, chosen
  <2> QED BY <1>1, <2>1
<1>10. \A s \in SUBSET (1..n) :
          chosen[s] = IF s = {} THEN <<>> ELSE Joined(chosen[s \ {Max(s)}], lives[Max(s)])
  BY <1>1, <1>8
<1>11. n \in 0..n /\ 0 \in 0..n /\ \A i \in 1..n : i \in 0..n /\ i - 1 \in 0..n
  BY <1>1
<1>12. hits[n] = chosen[1..n] /\ hits[0] = chosen[1..0]
       /\ \A i \in 1..n : hits[i] = chosen[1..i] /\ hits[i - 1] = chosen[1..i - 1]
  BY <1>11
<1>13. chosen[1..0] = <<>>
  <2>1. 1..0 = {} /\ 1..0 \in SUBSET (1..n)
    OBVIOUS
  <2> QED BY <1>10, <2>1
<1>14. ASSUME NEW i \in 1..n PROVE chosen[1..i] = Joined(chosen[1..i - 1], lives[i])
  <2>1. 1..i \in SUBSET (1..n) /\ 1..i # {} /\ Max(1..i) = i /\ (1..i) \ {i} = 1..i - 1
    <3>1. i \in Nat \ {0} /\ i \in 1..i /\ 1..i \in SUBSET (1..n)
      BY <1>1
    <3> QED BY <3>1, LastIndex
  <2> QED BY <1>10, <2>1
<1> HIDE DEF hits
<1>15. Groups(lives) = hits[Len(lives)] /\ hits[0] = <<>>
  BY <1>9, <1>12, <1>13 DEF n
<1>16. \A i \in 1..Len(lives) : hits[i] = Joined(hits[i - 1], lives[i])
  BY <1>12, <1>14 DEF n
<1> QED BY <1>15, <1>16

\* Lives in the order of their spawns.
InOrder(lives) ==
    /\ \A i \in 1..Len(lives) : /\ lives[i].start \in Nat /\ lives[i].end \in Nat
                                /\ lives[i].start <= lives[i].end
    /\ \A i, j \in 1..Len(lives) : i < j => lives[i].start <= lives[j].start

\* The hits of the first k lives: each life is in one, each has its first spawn
\* first and spans no more than the gap, and the next begins beyond the gap.
Grouped(groups, lives, k) ==
    /\ groups \in Seq(Seq({lives[i] : i \in 1..k}))
    /\ \A g \in 1..Len(groups) : Len(groups[g]) > 0
    /\ \A i \in 1..k :
          \E g \in 1..Len(groups) : \E j \in 1..Len(groups[g]) : groups[g][j] = lives[i]
    /\ \A g \in 1..Len(groups) : \A j \in 1..Len(groups[g]) :
          /\ groups[g][1].start <= groups[g][j].start
          /\ groups[g][j].start - groups[g][1].start <= SpawnGap
    /\ \A g \in 2..Len(groups) : groups[g][1].start - groups[g - 1][1].start > SpawnGap

LEMMA Appended ==
  ASSUME NEW E, NEW s \in Seq(E), NEW e \in E
  PROVE  /\ Append(s, e) \in Seq(E) /\ Len(Append(s, e)) = Len(s) + 1
         /\ Append(s, e)[Len(s) + 1] = e /\ \A i \in 1..Len(s) : Append(s, e)[i] = s[i]
OBVIOUS

LEMMA Replaced ==
  ASSUME NEW E, NEW s \in Seq(E), NEW e \in E, NEW i \in 1..Len(s)
  PROVE  LET t == [s EXCEPT ![i] = e]
         IN /\ t \in Seq(E) /\ Len(t) = Len(s) /\ t[i] = e
            /\ \A j \in 1..Len(s) : j # i => t[j] = s[j]
OBVIOUS

LEMMA Retyped ==
  ASSUME NEW D, NEW E, NEW s \in Seq(D), \A i \in 1..Len(s) : s[i] \in E
  PROVE  s \in Seq(E)
OBVIOUS

LEMMA LifeIsGrouped ==
  ASSUME NEW L, NEW lives \in Seq(L), InOrder(lives), NEW k \in 1..Len(lives),
         NEW groups, Grouped(groups, lives, k - 1)
  PROVE  Grouped(Joined(groups, lives[k]), lives, k)
<1> DEFINE n == Len(groups)
           life == lives[k]
           Old == {lives[i] : i \in 1..k - 1}
           Now == {lives[i] : i \in 1..k}
<1>1. /\ k \in Nat /\ Len(lives) \in Nat /\ k \in 1..k /\ \A i \in 1..k : i = k \/ i \in 1..k - 1
      /\ \A i \in 1..k - 1 : i \in 1..k /\ i < k /\ i \in 1..Len(lives)
      /\ SpawnGap \in Nat
  BY MatchAssumption
<1>2. life \in Now /\ Old \subseteq Now /\ life.start \in Nat
  BY <1>1 DEF InOrder
<1>3. \A l \in Old : l.start \in Nat /\ l.start <= life.start
  BY <1>1 DEF InOrder
<1>4. groups \in Seq(Seq(Old))
  BY DEF Grouped
<1> HIDE DEF Old, Now, life
<1>5. /\ n \in Nat /\ DOMAIN groups = 1..n
      /\ \A g \in 1..n : groups[g] \in Seq(Old)
  BY <1>4
<1>6. ASSUME NEW g \in 1..n
      PROVE  /\ groups[g] \in Seq(Now) /\ Len(groups[g]) \in Nat
             /\ \A j \in 1..Len(groups[g]) : groups[g][j] \in Old
  <2>1. groups[g] \in Seq(Old)
    BY <1>5
  <2> QED BY <1>2, <2>1
<1>7. groups \in Seq(Seq(Now))
  <2>1. \A g \in 1..Len(groups) : groups[g] \in Seq(Now)
    BY <1>6
  <2> QED BY <1>4, <2>1, Retyped
<1>8. \A g \in 1..n : Len(groups[g]) > 0
  BY DEF Grouped
<1>9. \A g \in 1..n : \A j \in 1..Len(groups[g]) :
         /\ groups[g][1].start <= groups[g][j].start
         /\ groups[g][j].start - groups[g][1].start <= SpawnGap
  BY DEF Grouped
<1>10. \A g \in 2..n : groups[g][1].start - groups[g - 1][1].start > SpawnGap
  BY DEF Grouped
<1>11. \A i \in 1..k - 1 :
          \E g \in 1..n : \E j \in 1..Len(groups[g]) : groups[g][j] = lives[i]
  BY DEF Grouped
<1>12. \A g \in 1..n : groups[g][1] \in Old
  BY <1>6, <1>8
<1>13. CASE groups = <<>> \/ OpensHit(groups[n], life)
  <2> DEFINE next == Append(groups, <<life>>)
  <2>1. /\ next \in Seq(Seq(Now)) /\ Len(next) = n + 1 /\ next[n + 1] = <<life>>
        /\ \A g \in 1..n : next[g] = groups[g]
    <3>1. <<life>> \in Seq(Now)
      BY <1>2
    <3> HIDE DEF n
    <3>2. next \in Seq(Seq(Now)) /\ Len(next) = Len(groups) + 1 /\ next[Len(groups) + 1] = <<life>>
          /\ \A g \in 1..Len(groups) : next[g] = groups[g]
      BY <1>7, <3>1, Appended
    <3> QED BY <3>2 DEF n
  <2> HIDE DEF next
  <2>2. /\ Len(<<life>>) = 1 /\ <<life>>[1] = life /\ \A j \in 1..1 : j = 1
        /\ n + 1 \in 1..n + 1 /\ \A g \in 1..n + 1 : g = n + 1 \/ g \in 1..n
        /\ \A g \in 1..n : g \in 1..n + 1
    BY <1>5
  <2>3. ASSUME NEW g \in 1..n + 1 PROVE Len(next[g]) > 0
    <3>1. CASE g = n + 1
      <4>1. Len(next[g]) = 1
        BY <2>1, <2>2, <3>1
      <4> QED BY <4>1
    <3>2. CASE g \in 1..n
      BY <1>8, <2>1, <3>2
    <3> QED BY <2>2, <3>1, <3>2
  <2>4. ASSUME NEW i \in 1..k
        PROVE  \E g \in 1..n + 1 : \E j \in 1..Len(next[g]) : next[g][j] = lives[i]
    <3>1. CASE i = k
      <4>1. 1 \in 1..Len(next[n + 1]) /\ next[n + 1][1] = lives[i]
        BY <2>1, <2>2, <3>1 DEF life
      <4> QED BY <2>2, <4>1
    <3>2. CASE i \in 1..k - 1
      <4>1. PICK g \in 1..n : \E j \in 1..Len(groups[g]) : groups[g][j] = lives[i]
        BY <1>11, <3>2
      <4>2. g \in 1..n + 1 /\ next[g] = groups[g]
        BY <2>1, <2>2
      <4> QED BY <4>1, <4>2
    <3> QED BY <1>1, <3>1, <3>2
  <2>5. ASSUME NEW g \in 1..n + 1, NEW j \in 1..Len(next[g])
        PROVE  /\ next[g][1].start <= next[g][j].start
               /\ next[g][j].start - next[g][1].start <= SpawnGap
    <3>1. CASE g = n + 1
      <4>1. next[g][1] = life /\ next[g][j] = life
        BY <2>1, <2>2, <3>1
      <4> QED BY <1>1, <1>2, <4>1
    <3>2. CASE g \in 1..n
      BY <1>9, <2>1, <3>2
    <3> QED BY <2>2, <3>1, <3>2
  <2>6. ASSUME NEW g \in 2..n + 1 PROVE next[g][1].start - next[g - 1][1].start > SpawnGap
    <3>1. CASE g = n + 1
      <4>1. n # 0 /\ n \in 1..n /\ g - 1 = n /\ groups # <<>>
        BY <1>5, <3>1
      <4>2. OpensHit(groups[n], life)
        BY <1>13, <4>1
      <4> QED BY <2>1, <2>2, <3>1, <4>1, <4>2 DEF OpensHit
    <3>2. CASE g \in 2..n
      <4>1. g \in 1..n /\ g - 1 \in 1..n
        BY <1>5, <3>2
      <4> QED BY <1>10, <2>1, <3>2, <4>1
    <3> QED BY <1>5, <3>1, <3>2
  <2>7. Joined(groups, life) = next
    BY <1>13 DEF Joined, next
  <2>8. next \in Seq(Seq({lives[i] : i \in 1..k}))
    BY <2>1 DEF Now
  <2> QED BY <2>1, <2>3, <2>4, <2>5, <2>6, <2>7, <2>8 DEF Grouped, life
<1>14. CASE groups # <<>> /\ ~OpensHit(groups[n], life)
  <2> DEFINE next == [groups EXCEPT ![n] = Append(@, life)]
             m == Len(groups[n])
  <2>1. n \in 1..n
    BY <1>4, <1>5, <1>14
  <2>2. m \in Nat /\ m > 0 /\ groups[n] \in Seq(Now) /\ groups[n] \in Seq(Old)
    BY <1>5, <1>6, <1>8, <2>1
  <2>3. /\ Append(groups[n], life) \in Seq(Now) /\ Len(Append(groups[n], life)) = m + 1
        /\ Append(groups[n], life)[m + 1] = life
        /\ \A j \in 1..m : Append(groups[n], life)[j] = groups[n][j]
    BY <1>2, <2>2
  <2>4. /\ next \in Seq(Seq(Now)) /\ Len(next) = n
        /\ \A g \in 1..n : g # n => next[g] = groups[g]
        /\ next[n] = Append(groups[n], life)
    <3>1. next = [groups EXCEPT ![n] = Append(groups[n], life)]
      BY <1>5, <2>1
    <3> HIDE DEF next
    <3>2. Append(groups[n], life) \in Seq(Now) /\ n \in 1..Len(groups)
      BY <2>1, <2>3
    <3> QED BY <1>7, <3>1, <3>2, Replaced
  <2>5. /\ next[n][m + 1] = life /\ Len(next[n]) = m + 1
        /\ \A j \in 1..m : next[n][j] = groups[n][j]
    BY <2>3, <2>4
  <2> HIDE DEF next, m
  <2>6. 1 \in 1..m /\ m + 1 \in 1..m + 1 /\ \A j \in 1..m + 1 : j = m + 1 \/ j \in 1..m
    BY <2>2
  <2>7. ASSUME NEW g \in 1..n PROVE next[g][1] = groups[g][1] /\ Len(next[g]) > 0
    <3>1. CASE g = n
      BY <2>2, <2>5, <2>6, <3>1
    <3>2. CASE g # n
      BY <1>8, <2>4, <3>2
    <3> QED BY <3>1, <3>2
  <2>8. ASSUME NEW g \in 1..n, NEW j \in 1..Len(groups[g])
        PROVE  j \in 1..Len(next[g]) /\ next[g][j] = groups[g][j]
    <3>1. CASE g = n
      <4>1. j \in 1..m /\ j \in 1..m + 1
        BY <2>2, <3>1 DEF m
      <4> QED BY <2>5, <3>1, <4>1
    <3>2. CASE g # n
      BY <2>4, <3>2
    <3> QED BY <3>1, <3>2
  <2>9. ASSUME NEW i \in 1..k
        PROVE  \E g \in 1..n : \E j \in 1..Len(next[g]) : next[g][j] = lives[i]
    <3>1. CASE i = k
      BY <2>1, <2>5, <2>6, <3>1 DEF life
    <3>2. CASE i \in 1..k - 1
      BY <1>11, <2>8, <3>2
    <3> QED BY <1>1, <3>1, <3>2
  <2>10. ASSUME NEW g \in 1..n, NEW j \in 1..Len(next[g])
         PROVE  /\ next[g][1].start <= next[g][j].start
                /\ next[g][j].start - next[g][1].start <= SpawnGap
    <3>1. CASE g = n /\ j = m + 1
      <4>1. groups[n][1] \in Old /\ next[g][j] = life
        BY <1>12, <2>1, <2>5, <3>1
      <4>2. ~(life.start - groups[n][1].start > SpawnGap)
        BY <1>14 DEF OpensHit
      <4> QED BY <1>1, <1>2, <1>3, <2>1, <2>7, <3>1, <4>1, <4>2
    <3>2. CASE g = n /\ j \in 1..m
      <4>1. next[g][j] = groups[g][j] /\ j \in 1..Len(groups[g])
        BY <2>5, <3>2 DEF m
      <4> QED BY <1>9, <2>7, <4>1
    <3>3. CASE g # n
      <4>1. next[g] = groups[g]
        BY <2>4, <3>3
      <4> QED BY <1>9, <4>1
    <3>4. g = n => j = m + 1 \/ j \in 1..m
      BY <2>5, <2>6
    <3> QED BY <3>1, <3>2, <3>3, <3>4
  <2>11. \A g \in 2..n : next[g][1].start - next[g - 1][1].start > SpawnGap
    <3>1. \A g \in 2..n : g \in 1..n /\ g - 1 \in 1..n
      BY <1>5
    <3> QED BY <1>10, <2>7, <3>1
  <2>12. Joined(groups, life) = next
    BY <1>14 DEF Joined, next
  <2>13. next \in Seq(Seq({lives[i] : i \in 1..k}))
    BY <2>4 DEF Now
  <2>14. Len(next) = n
    BY <2>4
  <2>15. Grouped(next, lives, k)
    BY ONLY <2>7, <2>9, <2>10, <2>11, <2>13, <2>14, Zenon DEF Grouped
  <2> QED BY <2>12, <2>15 DEF life
<1> QED BY <1>13, <1>14

\* A hit and its window.
Members(groups, k) == {groups[k][i] : i \in DOMAIN groups[k]}

EndOf(groups, k) ==
    Min({Max({l.end : l \in Members(groups, k)}),
         Max({l.start : l \in Members(groups, k)}) + SpawnGap})

HitAt(groups, k) ==
    [start   |-> groups[k][1].start,
     members |-> Members(groups, k),
     end     |-> IF k = Len(groups) THEN EndOf(groups, k)
                 ELSE Max({groups[k][1].start,
                           Min({EndOf(groups, k), groups[k + 1][1].start - 1})})]

LEMMA WindowsOfHits ==
  ASSUME NEW lives
  PROVE  HitWindows(lives) = [k \in DOMAIN Groups(lives) |-> HitAt(Groups(lives), k)]
BY Zenon DEF HitWindows, HitAt, EndOf, Members

LEMMA LivesAreGrouped ==
  ASSUME NEW L, NEW lives \in Seq(L), InOrder(lives)
  PROVE  Grouped(Groups(lives), lives, Len(lives))
<1>1. Len(lives) \in Nat
  OBVIOUS
<1>2. PICK hits : /\ Groups(lives) = hits[Len(lives)]
                  /\ hits[0] = <<>>
                  /\ \A i \in 1..Len(lives) : hits[i] = Joined(hits[i - 1], lives[i])
  BY GroupsUnfold
<1> DEFINE S == {k \in 0..Len(lives) : Grouped(hits[k], lives, k)}
<1>3. 0 \in S
  <2>1. Len(<<>>) = 0 /\ <<>> \in Seq(Seq({lives[i] : i \in 1..0})) /\ 1..0 = {} /\ 2..0 = {}
    OBVIOUS
  <2>2. Grouped(<<>>, lives, 0)
    BY <2>1 DEF Grouped
  <2> QED BY <1>1, <1>2, <2>2
<1>4. ASSUME NEW k \in S, k < Len(lives) PROVE k + 1 \in S
  <2>1. k + 1 \in 1..Len(lives) /\ k + 1 \in 0..Len(lives) /\ (k + 1) - 1 = k
    BY <1>1, <1>4
  <2>2. Grouped(hits[k], lives, (k + 1) - 1) /\ hits[k + 1] = Joined(hits[k], lives[k + 1])
    BY <1>2, <2>1
  <2>3. Grouped(hits[k + 1], lives, k + 1)
    BY <2>1, <2>2, LifeIsGrouped
  <2> QED BY <2>1, <2>3
<1> HIDE DEF S
<1>5. S = 0..Len(lives)
  <2>1. S \in SUBSET (0..Len(lives))
    BY DEF S
  <2> QED BY <1>1, <1>3, <1>4, <2>1, Induction
<1>6. Len(lives) \in S
  BY <1>1, <1>5
<1> QED BY <1>2, <1>6 DEF S

\* What a hit of the lives is: its members have spawned by its end of the window,
\* and one of them outlives it.
LEMMA HitHoldsMembers ==
  ASSUME NEW L, NEW lives \in Seq(L), InOrder(lives),
         NEW groups, Grouped(groups, lives, Len(lives)), NEW k \in 1..Len(groups)
  PROVE  LET first == groups[k][1].start
             members == Members(groups, k)
             end == EndOf(groups, k)
         IN  /\ first \in Nat /\ end \in Nat
             /\ \A l \in members : /\ l.start \in Nat /\ l.end \in Nat /\ l.start <= l.end
                                   /\ first <= l.start /\ l.start <= first + SpawnGap
                                   /\ l.start <= end
             /\ \E l \in members : end <= l.end
             /\ groups[k][1] \in members
<1> DEFINE n == Len(lives)
           All == {lives[i] : i \in 1..n}
           group == groups[k]
           m == Len(group)
           first == group[1].start
           members == Members(groups, k)
           starts == {l.start : l \in members}
           ends == {l.end : l \in members}
<1>1. groups \in Seq(Seq(All)) /\ m > 0
      /\ \A j \in 1..m : first <= group[j].start /\ group[j].start - first <= SpawnGap
  BY DEF Grouped
<1>2. \A l \in All : l.start \in Nat /\ l.end \in Nat /\ l.start <= l.end
  BY DEF InOrder
<1> HIDE DEF All
<1>3. group \in Seq(All)
  BY <1>1
<1> HIDE DEF group
<1>4. m \in Nat \ {0} /\ DOMAIN group = 1..m /\ 1 \in 1..m /\ \A j \in 1..m : group[j] \in All
  BY <1>1, <1>3
<1>5. members = {group[j] : j \in 1..m}
  BY <1>4 DEF Members, group
<1> HIDE DEF m, members
<1>6. \A j \in 1..m : group[j].start \in Nat /\ group[j].end \in Nat /\ group[j].start <= group[j].end
  BY <1>2, <1>4
<1>7. Max(starts) \in starts /\ Max(starts) \in Nat /\ \A t \in starts : t <= Max(starts)
  <2> DEFINE f == [j \in 1..m |-> group[j].start]
  <2>1. f \in [1..m -> Nat] /\ starts = {f[j] : j \in 1..m}
    BY <1>5, <1>6
  <2> HIDE DEF f, starts
  <2> QED BY <1>4, <2>1, GreatestOf
<1>8. Max(ends) \in ends /\ Max(ends) \in Nat /\ \A t \in ends : t <= Max(ends)
  <2> DEFINE f == [j \in 1..m |-> group[j].end]
  <2>1. f \in [1..m -> Nat] /\ ends = {f[j] : j \in 1..m}
    BY <1>5, <1>6
  <2> HIDE DEF f, ends
  <2> QED BY <1>4, <2>1, GreatestOf
<1> DEFINE a == Max(ends)
           b == Max(starts)
           end == EndOf(groups, k)
<1>9. end = Min({a, b + SpawnGap})
  BY DEF EndOf, members, starts, ends
<1>10. PICK last \in members : last.end = a
  BY <1>8
<1>11. PICK late \in members : late.start = b
  BY <1>7
<1>12. \A l \in members : l.end <= a /\ l.start <= b
  BY <1>7, <1>8
<1> HIDE DEF a, b, end, starts, ends
<1>13. a \in Nat /\ b \in Nat /\ SpawnGap \in Nat
  BY <1>7, <1>8, MatchAssumption DEF a, b
<1>14. end \in {a, b + SpawnGap} /\ end \in Nat /\ end <= a /\ (end = a \/ end = b + SpawnGap)
  <2>1. b + SpawnGap \in Int /\ a \in Int
    BY <1>13
  <2>2. Min({a, b + SpawnGap}) = IF a <= b + SpawnGap THEN a ELSE b + SpawnGap
    BY <2>1, OfTwo
  <2> QED BY <1>9, <1>13, <2>2
<1>15. ASSUME NEW l \in members
       PROVE  /\ l.start \in Nat /\ l.end \in Nat /\ l.start <= l.end
              /\ first <= l.start /\ l.start <= first + SpawnGap
              /\ l.start <= end
  <2>1. PICK j \in 1..m : l = group[j]
    BY <1>5
  <2>2. first \in Nat /\ first <= l.start /\ l.start - first <= SpawnGap
    BY <1>1, <1>4, <1>6, <2>1 DEF m
  <2>3. l.start \in Nat /\ l.end \in Nat /\ l.start <= l.end
    BY <1>6, <2>1
  <2>4. l.start <= b /\ l.end <= a
    BY <1>12
  <2> QED BY <1>13, <1>14, <2>2, <2>3, <2>4
<1>16. first \in Nat /\ group[1] \in members
  BY <1>4, <1>5, <1>6
<1>17. \E l \in members : end <= l.end
  BY <1>10, <1>14
<1> QED BY <1>14, <1>15, <1>16, <1>17 DEF group, members, end

\* Hits do not meet, whatever the lives are that are put in order of their spawns:
\* every life is in the window of one.
THEOREM HitsStandApart ==
  ASSUME NEW L, NEW lives \in Seq(L), InOrder(lives)
  PROVE  HitsAreApartIn(lives)
<1> DEFINE groups == Groups(lives)
           n == Len(groups)
           hits == HitWindows(lives)
           First(k) == groups[k][1].start
           Until(k) == EndOf(groups, k)
           M(k) == Members(groups, k)
<1>1. Grouped(groups, lives, Len(lives))
  BY LivesAreGrouped
<1>2. n \in Nat /\ DOMAIN groups = 1..n /\ SpawnGap \in Nat
  BY <1>1, MatchAssumption DEF Grouped
<1>3. ASSUME NEW k \in 1..n
      PROVE  /\ First(k) \in Nat /\ Until(k) \in Nat
             /\ \A l \in M(k) : /\ l.start \in Nat /\ l.end \in Nat
                                /\ First(k) <= l.start /\ l.start <= First(k) + SpawnGap
                                /\ l.start <= Until(k)
             /\ \E l \in M(k) : Until(k) <= l.end
             /\ First(k) <= Until(k)
  <2> HIDE DEF groups
  <2> USE DEF n
  <2> QED BY <1>1, HitHoldsMembers
<1>4. ASSUME NEW k \in 1..n, k < n
      PROVE  k + 1 \in 1..n /\ First(k + 1) \in Nat /\ First(k) + SpawnGap < First(k + 1)
  <2>1. k + 1 \in 2..n /\ k + 1 \in 1..n /\ (k + 1) - 1 = k
    BY <1>2, <1>4
  <2>2. First(k + 1) - First((k + 1) - 1) > SpawnGap
    BY <1>1, <2>1 DEF Grouped
  <2>3. First(k) \in Nat /\ First(k + 1) \in Nat
    BY <1>3, <2>1
  <2> QED BY <1>2, <2>1, <2>2, <2>3
<1>5. DOMAIN hits = 1..n /\ \A k \in 1..n : hits[k] = HitAt(groups, k)
  BY <1>2, WindowsOfHits
<1>6. ASSUME NEW k \in 1..n
      PROVE  /\ hits[k].start = First(k) /\ hits[k].members = M(k)
             /\ hits[k].end = IF k = n THEN Until(k)
                               ELSE Max({First(k), Min({Until(k), First(k + 1) - 1})})
  <2>1. hits[k] = HitAt(groups, k)
    BY <1>5
  <2> HIDE DEF hits
  <2> QED BY <2>1 DEF HitAt
<1>7. \A i \in DOMAIN lives : \E k \in 1..n : lives[i] \in M(k)
  <2> TAKE i \in DOMAIN lives
  <2>1. PICK k \in 1..n : \E j \in 1..Len(groups[k]) : groups[k][j] = lives[i]
    <3>1. \A m \in 1..Len(lives) :
             \E k \in 1..n : \E j \in 1..Len(groups[k]) : groups[k][j] = lives[m]
      BY <1>1 DEF Grouped
    <3>2. i \in 1..Len(lives)
      OBVIOUS
    <3> HIDE DEF n, groups
    <3> QED BY <3>1, <3>2
  <2>2. groups[k] \in Seq({lives[j] : j \in 1..Len(lives)})
    BY <1>1 DEF Grouped
  <2>3. DOMAIN groups[k] = 1..Len(groups[k])
    BY <2>2
  <2> QED BY <2>1, <2>3 DEF Members
<1> HIDE DEF groups, n, hits, First, Until, M
<1>8. ASSUME NEW k \in 1..n
      PROVE  /\ hits[k].end \in Nat /\ hits[k].end <= Until(k)
             /\ k < n => hits[k].end < First(k + 1)
             /\ \A l \in M(k) : l.start <= hits[k].end
  <2>1. CASE k = n
    <3>1. hits[k].end = Until(k)
      BY <1>6, <2>1
    <3> QED BY <1>2, <1>3, <2>1, <3>1
  <2>2. CASE k < n
    <3> DEFINE a == First(k)
               b == Until(k)
               c == First(k + 1) - 1
               d == Min({b, c})
    <3>1. a \in Nat /\ b \in Nat /\ a <= b /\ c \in Nat /\ a + SpawnGap <= c /\ SpawnGap \in Nat
          /\ First(k + 1) \in Nat
      BY <1>2, <1>3, <1>4, <2>2
    <3>2. hits[k].end = Max({a, d})
      <4>1. k # n
        BY <2>2
      <4>2. hits[k].end = IF k = n THEN b ELSE Max({a, d})
        BY <1>6
      <4> HIDE DEF b, a, d
      <4> QED BY <4>1, <4>2
    <3>3. \A l \in M(k) : l.start \in Nat /\ l.start <= a + SpawnGap /\ l.start <= b
      BY <1>3
    <3>4. First(k + 1) = c + 1
      BY <3>1
    <3> HIDE DEF a, b, c, d
    <3>5. d = IF b <= c THEN b ELSE c
      <4>1. b \in Int /\ c \in Int
        BY <3>1
      <4> QED BY <4>1, OfTwo DEF d
    <3>6. d \in Nat /\ a <= d /\ d <= c /\ d <= b
      BY <3>1, <3>5
    <3>7. hits[k].end = d
      <4>1. Max({a, d}) = IF a >= d THEN a ELSE d
        <5>1. a \in Int /\ d \in Int
          BY <3>1, <3>6
        <5> QED BY <5>1, OfTwo
      <4> QED BY <3>1, <3>2, <3>6, <4>1
    <3>8. \A l \in M(k) : l.start <= d
      BY <3>1, <3>3, <3>5
    <3> QED BY <3>1, <3>4, <3>6, <3>7, <3>8 DEF b
  <2> QED BY <1>2, <2>1, <2>2
<1>9. ASSUME NEW j \in 1..n, NEW k \in 1..n, j < k PROVE hits[j].end < hits[k].start
  <2> DEFINE S == {i \in 0..n : i > j => hits[j].end < First(i)}
  <2>1. 0 \in S /\ S \in SUBSET (0..n)
    BY <1>2
  <2>2. ASSUME NEW i \in S, i < n PROVE i + 1 \in S
    <3>1. i + 1 \in 0..n /\ i \in Nat
      BY <1>2, <2>2
    <3>2. CASE i + 1 > j
      <4>1. CASE i = j
        BY <1>8, <2>2, <3>1, <4>1
      <4>2. CASE i > j
        <5>1. i \in 1..n /\ hits[j].end < First(i)
          BY <1>2, <2>2, <3>1, <4>2
        <5>2. First(i) + SpawnGap < First(i + 1) /\ First(i) \in Nat /\ First(i + 1) \in Nat
              /\ hits[j].end \in Nat /\ SpawnGap \in Nat
          BY <1>2, <1>3, <1>4, <1>8, <2>2, <5>1
        <5>3. hits[j].end < First(i + 1)
          BY <5>1, <5>2
        <5> QED BY <3>1, <5>3
      <4> QED BY <3>1, <3>2, <4>1, <4>2
    <3>3. CASE ~(i + 1 > j)
      BY <3>1, <3>3
    <3> QED BY <3>2, <3>3
  <2> HIDE DEF S
  <2>3. k \in S
    <3>1. S = 0..n
      BY <1>2, <2>1, <2>2, Induction
    <3> QED BY <3>1
  <2> QED BY <1>6, <1>9, <2>3 DEF S
<1>10. ASSUME NEW i \in DOMAIN lives
       PROVE  \E k \in 1..n : lives[i] \in hits[k].members
                              /\ lives[i].start \in hits[k].start..hits[k].end
  <2>1. PICK k \in 1..n : lives[i] \in M(k)
    BY <1>7
  <2>2. /\ lives[i].start \in Nat /\ First(k) \in Nat /\ hits[k].end \in Nat
        /\ First(k) <= lives[i].start /\ lives[i].start <= hits[k].end
    BY <1>3, <1>8, <2>1
  <2>3. lives[i].start \in First(k)..hits[k].end
    BY <2>2
  <2> QED BY <1>6, <2>1, <2>3
<1>11. ASSUME NEW k \in 1..n
       PROVE  /\ \A l, m \in hits[k].members : l.start - m.start <= SpawnGap
              /\ \E l \in hits[k].members : hits[k].end <= l.end
  <2>1. ASSUME NEW l \in M(k), NEW m \in M(k) PROVE l.start - m.start <= SpawnGap
    BY <1>2, <1>3
  <2>2. PICK l \in M(k) : Until(k) <= l.end
    BY <1>3
  <2>3. hits[k].end <= l.end
    BY <1>3, <1>8, <2>2
  <2> QED BY <1>6, <2>1, <2>2, <2>3
<1> QED BY <1>5, <1>9, <1>10, <1>11 DEF HitsAreApartIn, hits

-----------------------------------------------------------------------------
(* Lives in order *)

\* What a function takes finitely many arguments to are finitely many things.
LEMMA FiniteImage ==
  ASSUME NEW S, IsFiniteSet(S), NEW f, DOMAIN f = S
  PROVE  IsFiniteSet({f[x] : x \in S})
<1> DEFINE T == {f[x] : x \in S}
           g == [x \in S |-> f[x]]
<1>1. g \in Surjection(S, T)
  BY DEF Surjection
<1> HIDE DEF T, g
<1>2. IsFiniteSet(T)
  BY <1>1, FS_Surjection
<1> QED BY <1>2 DEF T

\* Finitely many lives can be put in the order of their spawns.
LEMMA Sortable ==
  ASSUME NEW lives, IsFiniteSet(lives), \A l \in lives : l.start \in Nat
  PROVE  \E s \in SetToSeqs(lives) : \A i, j \in DOMAIN s : i < j => s[i].start <= s[j].start
<1> DEFINE Sorted(s, T, k) == /\ s \in [1..k -> T]
                              /\ \A i, j \in 1..k : i # j => s[i] # s[j]
                              /\ \A i, j \in 1..k : i < j => s[i].start <= s[j].start
           n == Cardinality(lives)
           S == {k \in 0..n : \A T \in SUBSET lives :
                    Cardinality(T) = k => \E s : Sorted(s, T, k)}
<1>1. n \in Nat
  BY FS_CardinalityType
<1>2. \A T \in SUBSET lives : IsFiniteSet(T)
  BY FS_Subset
<1>3. 0 \in S
  <2>1. 0 \in 0..n /\ 1..0 = {}
    BY <1>1
  <2>2. ASSUME NEW T \in SUBSET lives PROVE Sorted([i \in 1..0 |-> i], T, 0)
    BY <2>1
  <2> QED BY <2>1, <2>2
<1>4. ASSUME NEW k \in S, k < n PROVE k + 1 \in S
  <2>1. k \in Nat /\ k + 1 \in 0..n /\ 0 # k + 1
    BY <1>1, <1>4
  <2> SUFFICES ASSUME NEW T \in SUBSET lives, Cardinality(T) = k + 1
               PROVE  \E s : Sorted(s, T, k + 1)
    BY <2>1
  <2>2. T # {}
    BY <1>2, <2>1, FS_EmptySet
  <2>3. PICK x \in T : \A y \in T : x.start <= y.start
    <3> DEFINE R == OpToRel(<, Nat)
               starts == {l.start : l \in T}
    <3>1. \A y, x \in Nat : y < x => <<y, x>> \in R
      BY DEF OpToRel
    <3>2. starts \subseteq Nat /\ starts # {}
      BY <2>2
    <3>3. PICK t \in starts : \A y \in starts : ~ (<<y, t>> \in R)
      BY <3>2, NatLessThanWellFounded, WFMin
    <3> HIDE DEF R
    <3>4. PICK x \in T : t = x.start
      BY <3>3
    <3>5. ASSUME NEW y \in T PROVE x.start <= y.start
      <4>1. y.start \in starts /\ y.start \in Nat /\ x.start \in Nat
        OBVIOUS
      <4>2. ~(y.start < x.start)
        BY <3>1, <3>3, <3>4, <4>1
      <4> QED BY <4>1, <4>2
    <3> QED BY <3>5
  <2> DEFINE Rest == T \ {x}
  <2>4. Rest \in SUBSET lives /\ Cardinality(Rest) = k
    <3>1. Cardinality(Rest) = (k + 1) - 1
      BY <1>2, FS_RemoveElement
    <3> QED BY <2>1, <3>1
  <2>5. PICK s : Sorted(s, Rest, k)
    BY <2>4
  <2> DEFINE r == [i \in 1..k + 1 |-> IF i = 1 THEN x ELSE s[i - 1]]
  <2>6. \A i \in 1..k + 1 : i # 1 => i - 1 \in 1..k
    BY <2>1
  <2>7. r[1] = x /\ \A i \in 1..k + 1 : i # 1 => r[i] = s[i - 1] /\ r[i] \in Rest
    BY <2>1, <2>5, <2>6
  <2>8. r \in [1..k + 1 -> T]
    BY <2>7
  <2> HIDE DEF r
  <2>9. ASSUME NEW i \in 1..k + 1, NEW j \in 1..k + 1, i < j
        PROVE  r[i] # r[j] /\ r[i].start <= r[j].start
    <3>1. j # 1 /\ r[j] = s[j - 1] /\ r[j] \in Rest
      BY <2>7, <2>9
    <3>2. CASE i = 1
      BY <2>3, <2>7, <3>1, <3>2
    <3>3. CASE i # 1
      <4>1. i - 1 \in 1..k /\ j - 1 \in 1..k /\ i - 1 < j - 1 /\ i - 1 # j - 1
        BY <2>6, <2>9, <3>1, <3>3
      <4>2. r[i] = s[i - 1]
        BY <2>7, <3>3
      <4> QED BY <2>5, <3>1, <4>1, <4>2
    <3> QED BY <3>2, <3>3
  <2>10. \A i, j \in 1..k + 1 : i # j => i < j \/ j < i
    BY <2>1
  <2> QED BY <2>8, <2>9, <2>10
<1>5. S \in SUBSET (0..n)
  OBVIOUS
<1>6. n \in S
  <2> HIDE DEF S
  <2> QED BY <1>1, <1>3, <1>4, <1>5, Induction
<1>7. PICK s : Sorted(s, lives, n)
  BY <1>6
<1> QED BY <1>7 DEF SetToSeqs

\* Rows in the order of their snapshots.
Ticking(rows) ==
    /\ Len(rows) \in Nat /\ \A i \in 1..Len(rows) : rows[i].tick \in Nat
    /\ \A i \in 2..Len(rows) : rows[i - 1].tick < rows[i].tick

LEMMA TicksIncrease ==
  ASSUME NEW rows, Ticking(rows), NEW i \in 1..Len(rows), NEW j \in 1..Len(rows), i < j
  PROVE  rows[i].tick < rows[j].tick
<1> DEFINE S == {k \in 0..Len(rows) : k > i => rows[i].tick < rows[k].tick}
<1>1. Len(rows) \in Nat /\ 0 \in S
  BY DEF Ticking
<1>2. ASSUME NEW k \in S, k < Len(rows) PROVE k + 1 \in S
  <2>1. /\ k + 1 \in 0..Len(rows) /\ k \in Nat
        /\ k + 1 > i => k + 1 \in 2..Len(rows) /\ (k + 1) - 1 = k /\ k \in 1..Len(rows)
    BY <1>1, <1>2
  <2>2. k + 1 > i => rows[k].tick < rows[k + 1].tick /\ rows[k].tick \in Nat
                     /\ rows[k + 1].tick \in Nat /\ rows[i].tick \in Nat
    BY <2>1 DEF Ticking
  <2>3. k + 1 > i => k = i \/ k > i
    BY <2>1
  <2> QED BY <2>1, <2>2, <2>3
<1>3. S \in SUBSET (0..Len(rows))
  OBVIOUS
<1> HIDE DEF S
<1>4. S = 0..Len(rows)
  BY <1>1, <1>2, <1>3, Induction
<1>5. j \in S
  BY <1>1, <1>4
<1> QED BY <1>5 DEF S

\* The lives of a player are finitely many, each from a tick to one not before it.
LEMMA LivesOfRows ==
  ASSUME NEW Body, NEW rows \in Seq(Body), Ticking(rows), NEW deaths
  PROVE  /\ IsFiniteSet(InfectedLives(rows, deaths))
         /\ \A l \in InfectedLives(rows, deaths) :
               l.start \in Nat /\ l.end \in Nat /\ l.start <= l.end
<1> DEFINE n == Len(rows)
           f == [k \in Longest(rows) |-> Life(rows, deaths, k[1], k[2])]
<1>1. n \in Nat /\ DOMAIN rows = 1..n
  OBVIOUS
<1>2. InfectedLives(rows, deaths) = {Life(rows, deaths, k[1], k[2]) : k \in Longest(rows)}
  <2>1. LivesAreWhole(rows, deaths)
    BY WholeLives
  <2> QED BY <2>1, Zenon DEF LivesAreWhole, Longest, Stretch
<1>3. IsFiniteSet(InfectedLives(rows, deaths))
  <2>1. IsFiniteSet((1..n) \X (1..n))
    <3>1. IsFiniteSet(1..n)
      BY <1>1, FS_Interval
    <3> QED BY <3>1, FS_Product
  <2>2. Longest(rows) \in SUBSET ((1..n) \X (1..n))
    BY <1>1 DEF Longest
  <2>3. IsFiniteSet(Longest(rows))
    BY <2>1, <2>2, FS_Subset
  <2>4. InfectedLives(rows, deaths) = {f[k] : k \in Longest(rows)} /\ DOMAIN f = Longest(rows)
    BY <1>2
  <2> HIDE DEF f
  <2> QED BY <2>3, <2>4, FiniteImage
<1>4. ASSUME NEW k \in Longest(rows)
      PROVE  LET l == Life(rows, deaths, k[1], k[2])
             IN  l.start \in Nat /\ l.end \in Nat /\ l.start <= l.end
  <2> DEFINE a == k[1]
             z == k[2]
             next == IF z < n THEN z + 1 ELSE z
  <2>1. a \in 1..n /\ z \in 1..n /\ a <= z
    BY <1>1 DEF Longest
  <2> HIDE DEF a, z
  <2>2. next \in 1..n /\ a <= next
    BY <1>1, <2>1
  <2>3. Life(rows, deaths, a, z).start = rows[a].tick
        /\ Life(rows, deaths, a, z).end = rows[next].tick
    BY DEF Life
  <2>4. rows[a].tick \in Nat /\ rows[next].tick \in Nat
    BY <2>1, <2>2 DEF Ticking
  <2>5. rows[a].tick <= rows[next].tick
    <3>1. CASE a = next
      BY <2>4, <3>1
    <3>2. CASE a < next
      <4>1. rows[a].tick < rows[next].tick
        BY <2>1, <2>2, <3>2, TicksIncrease
      <4> QED BY <2>4, <4>1
    <3> QED BY <2>1, <2>2, <3>1, <3>2
  <2> QED BY <2>3, <2>4, <2>5 DEF a, z
<1> QED BY <1>2, <1>3, <1>4

\* The ordinary lives of finitely many players are in order.
LEMMA OrdinaryLivesInOrder ==
  ASSUME NEW walk, IsFiniteSet(DOMAIN walk.rows), NEW Body,
         \A p \in DOMAIN walk.rows : walk.rows[p] \in Seq(Body) /\ Ticking(walk.rows[p])
  PROVE  /\ InOrder(OrdinaryLives(walk))
         /\ \E L : OrdinaryLives(walk) \in Seq(L)
<1> DEFINE P == DOMAIN walk.rows
           Own(p) == InfectedLives(walk.rows[p], walk.deaths)
           Of(p) == {Signed(p, l) : l \in Own(p)}
           all == UNION {Of(p) : p \in P}
           ordinary == {l \in all : l.class # Tank}
           s == OrdinaryLives(walk)
<1>1. ASSUME NEW p \in P
      PROVE  /\ IsFiniteSet(Own(p))
             /\ \A l \in Own(p) : l.start \in Nat /\ l.end \in Nat /\ l.start <= l.end
  BY LivesOfRows
<1>2. s = CHOOSE t \in SetToSeqs(ordinary) :
            \A i, j \in DOMAIN t : i < j => t[i].start <= t[j].start
  BY DEF OrdinaryLives
<1> HIDE DEF Own, s
<1>3. ASSUME NEW p \in P
      PROVE  /\ IsFiniteSet(Of(p))
             /\ \A l \in Of(p) : l.start \in Nat /\ l.end \in Nat /\ l.start <= l.end
  <2> DEFINE f == [l \in Own(p) |-> Signed(p, l)]
  <2>1. Of(p) = {f[l] : l \in Own(p)} /\ DOMAIN f = Own(p)
    OBVIOUS
  <2> HIDE DEF f
  <2>2. IsFiniteSet(Of(p))
    BY <1>1, <2>1, FiniteImage
  <2>3. \A l \in Own(p) : Signed(p, l).start = l.start /\ Signed(p, l).end = l.end
    BY DEF Signed
  <2> QED BY <1>1, <2>2, <2>3
<1> HIDE DEF Of
<1>4. IsFiniteSet(ordinary)
  <2> DEFINE f == [p \in P |-> Of(p)]
             sets == {Of(p) : p \in P}
  <2>1. sets = {f[p] : p \in P} /\ DOMAIN f = P
    OBVIOUS
  <2> HIDE DEF f
  <2>2. IsFiniteSet(sets)
    BY <2>1, FiniteImage
  <2>3. \A t \in sets : IsFiniteSet(t)
    BY <1>3
  <2>4. all = UNION sets
    OBVIOUS
  <2> HIDE DEF sets
  <2>5. IsFiniteSet(all)
    BY <2>2, <2>3, <2>4, FS_UNION
  <2>6. ordinary \in SUBSET all
    OBVIOUS
  <2> QED BY <2>5, <2>6, FS_Subset
<1>5. \A l \in ordinary : l.start \in Nat /\ l.end \in Nat /\ l.start <= l.end
  BY <1>3
<1> HIDE DEF ordinary
<1>6. s \in SetToSeqs(ordinary) /\ \A i, j \in DOMAIN s : i < j => s[i].start <= s[j].start
  BY <1>2, <1>4, <1>5, Sortable
<1>7. s \in [1..Cardinality(ordinary) -> ordinary] /\ Cardinality(ordinary) \in Nat
  BY <1>4, <1>6, FS_CardinalityType DEF SetToSeqs
<1>8. s \in Seq(ordinary) /\ DOMAIN s = 1..Len(s) /\ \A i \in 1..Len(s) : s[i] \in ordinary
  BY <1>7
<1>9. InOrder(s)
  BY <1>5, <1>6, <1>8 DEF InOrder
<1> QED BY <1>8, <1>9 DEF s

-----------------------------------------------------------------------------
(* Health lost *)

\* Samples of a survivor, in the order of their snapshots.
Samples ==
    {s \in Seq([tick : Nat, health : Nat \cup {Nobody}, upright : BOOLEAN]) :
        \A i \in 2..Len(s) : s[i - 1].tick < s[i].tick}

PeakAt(samples, peak, i) ==
    IF ~Valid(samples[i]) THEN Nobody
    ELSE IF i = 1 THEN samples[i].health
    ELSE IF peak[i - 1] = Nobody \/ ~Contiguous(samples[i - 1], samples[i])
         THEN samples[i].health
    ELSE Max({peak[i - 1], samples[i].health})

Falls(samples, peak) ==
    {peak[i] - samples[i].health : i \in {j \in DOMAIN samples : Valid(samples[j])}}

\* The peaks of a segment, sample by sample.
LEMMA PeakUnfolds ==
  ASSUME NEW samples \in Samples
  PROVE  \E peak \in [0..Len(samples) -> Nat \cup {Nobody}] :
            /\ \A i \in 1..Len(samples) : peak[i] = PeakAt(samples, peak, i)
            /\ Drawdown(samples) = Max({0} \cup Falls(samples, peak))
<1> DEFINE n == Len(samples)
           T == Nat \cup {Nobody}
           F == [i \in 1..n |-> [t \in T |->
                    IF ~Valid(samples[i]) THEN Nobody
                    ELSE IF i = 1 THEN samples[i].health
                    ELSE IF t = Nobody \/ ~Contiguous(samples[i - 1], samples[i])
                         THEN samples[i].health
                    ELSE Max({t, samples[i].health})]]
           Step(f) == [i \in DOMAIN samples |-> PeakAt(samples, f, i)]
           chosen == CHOOSE f : f = Step(f)
           peak == [i \in 0..n |-> IF i = 0 THEN Nobody ELSE chosen[i]]
<1>1. /\ n \in Nat /\ Nobody \in T /\ DOMAIN samples = 1..n
      /\ \A i \in 1..n : samples[i] \in [tick : Nat, health : T, upright : BOOLEAN]
  <2> DEFINE Sample == [tick : Nat, health : T, upright : BOOLEAN]
  <2>1. samples \in Seq(Sample) /\ Nobody \in T
    BY DEF Samples
  <2> HIDE DEF Sample
  <2>2. n \in Nat /\ DOMAIN samples = 1..n /\ \A i \in 1..n : samples[i] \in Sample
    BY <2>1
  <2> QED BY <2>1, <2>2 DEF Sample
<1>2. ASSUME NEW i \in 1..n, NEW t \in T PROVE F[i][t] \in T
  <2>1. Valid(samples[i]) => samples[i].health \in Nat
    BY <1>1 DEF Valid
  <2>2. ASSUME Valid(samples[i]), t # Nobody PROVE Max({t, samples[i].health}) \in Nat
    <3>1. t \in Nat
      BY <2>2
    <3> QED BY <2>1, <2>2, <3>1, OfTwo
  <2> QED BY <2>1, <2>2
<1>3. Steps(F, n, T)
  <2> HIDE DEF T, n
  <2>1. \A i \in 1..n : F[i] \in [T -> T]
    BY <1>2
  <2>2. F = [i \in 1..n |-> F[i]]
    OBVIOUS
  <2> HIDE DEF F
  <2> QED BY <1>1, <2>1, <2>2 DEF Steps
<1>4. \A i \in 1..n, t \in T :
         F[i][t] = IF ~Valid(samples[i]) THEN Nobody
                   ELSE IF i = 1 THEN samples[i].health
                   ELSE IF t = Nobody \/ ~Contiguous(samples[i - 1], samples[i])
                        THEN samples[i].health
                   ELSE Max({t, samples[i].health})
  OBVIOUS
<1> HIDE DEF F, T, n
<1>5. PICK f : Follows(f, Nobody, F, n, T)
  BY <1>1, <1>3, Recursion
<1> f \in [0..n -> T] /\ f[0] = Nobody /\ \A i \in 1..n : f[i] = F[i][f[i - 1]]
  BY <1>5 DEF Follows
<1>6. ASSUME NEW i \in 1..n, NEW g, g[i - 1] \in T PROVE F[i][g[i - 1]] = PeakAt(samples, g, i)
  BY <1>4, <1>6 DEF PeakAt
<1>7. ASSUME NEW i \in 1..n PROVE f[i] = PeakAt(samples, f, i)
  <2>1. i - 1 \in 0..n
    BY <1>1
  <2> QED BY <1>6, <2>1
<1>8. Step([i \in 1..n |-> f[i]]) = [i \in 1..n |-> f[i]]
  <2> DEFINE g == [i \in 1..n |-> f[i]]
  <2>1. ASSUME NEW i \in 1..n PROVE PeakAt(samples, g, i) = g[i]
    <3>1. i # 1 => i - 1 \in 1..n
      BY <1>1
    <3>2. i # 1 => g[i - 1] = f[i - 1]
      BY <3>1
    <3>3. g[i] = f[i]
      OBVIOUS
    <3> HIDE DEF g
    <3> QED BY <1>7, <3>2, <3>3 DEF PeakAt
  <2> QED BY <1>1, <2>1
<1>9. chosen = Step(chosen)
  <2> HIDE DEF Step
  <2> QED BY <1>8
<1> HIDE DEF chosen
<1>10. \A i \in 1..n : chosen[i] = PeakAt(samples, chosen, i)
  BY <1>1, <1>9
<1>11. \A i \in 1..n : peak[i] = chosen[i] /\ (i # 1 => peak[i - 1] = chosen[i - 1])
  <2> TAKE i \in 1..n
  <2>1. i \in 0..n /\ i # 0 /\ (i # 1 => i - 1 \in 0..n /\ i - 1 # 0)
    BY <1>1
  <2> QED BY <2>1
<1>12. peak[0] = Nobody
  BY <1>1
<1>13. \A i \in 1..n : peak[i] = PeakAt(samples, peak, i)
  <2> HIDE DEF peak
  <2> QED BY <1>10, <1>11 DEF PeakAt
<1>14. ASSUME NEW i \in 0..n PROVE peak[i] \in T
  <2> DEFINE S == {k \in 0..n : peak[k] \in T}
  <2> HIDE DEF peak
  <2>1. 0 \in S
    BY <1>1, <1>12
  <2>2. ASSUME NEW k \in S, k < n PROVE k + 1 \in S
    <3>1. k + 1 \in 1..n /\ (k + 1) - 1 = k /\ peak[k] \in T /\ k + 1 \in 0..n
      BY <1>1, <2>2
    <3>2. peak[k + 1] = F[k + 1][peak[k]]
      <4>1. peak[k + 1] = PeakAt(samples, peak, k + 1)
        BY <1>13, <3>1
      <4>2. F[k + 1][peak[k]] = PeakAt(samples, peak, k + 1)
        <5>1. peak[(k + 1) - 1] \in T
          BY <3>1
        <5> QED BY <1>6, <3>1, <5>1
      <4> QED BY <4>1, <4>2
    <3>3. peak[k + 1] \in T
      BY <1>3, <3>1, <3>2 DEF Steps
    <3> QED BY <3>1, <3>3
  <2>3. S \in SUBSET (0..n)
    OBVIOUS
  <2> HIDE DEF S
  <2>4. S = 0..n
    BY <1>1, <2>1, <2>2, <2>3, Induction
  <2>5. i \in S
    BY <2>4
  <2> QED BY <2>5 DEF S
<1>15. peak \in [0..n -> T]
  BY <1>14
<1>16. Falls(samples, peak) = Falls(samples, chosen)
  <2> HIDE DEF peak
  <2> QED BY <1>1, <1>11 DEF Falls
<1>17. Drawdown(samples) = Max({0} \cup Falls(samples, chosen))
  BY Zenon DEF Drawdown, chosen, PeakAt, Falls
<1> HIDE DEF peak
<1> QED BY <1>13, <1>15, <1>16, <1>17 DEF n, T

\* Samples a to z are known and have no gap between them.
Unbroken(samples, a, z) ==
    /\ \A i \in a..z : samples[i].upright /\ samples[i].health # Nobody
    /\ \A i \in a + 1..z : samples[i].tick - samples[i - 1].tick <= SampleGap

\* The peak at a sample is the greatest health since which nothing was broken.
Peak(samples, peak, i) ==
    IF Valid(samples[i])
    THEN /\ \E a \in 1..i : Unbroken(samples, a, i) /\ peak[i] = samples[a].health
         /\ \A a \in 1..i : Unbroken(samples, a, i) => samples[a].health <= peak[i]
    ELSE peak[i] = Nobody

LEMMA SamplesAreTyped ==
  ASSUME NEW samples \in Samples
  PROVE  /\ Len(samples) \in Nat /\ DOMAIN samples = 1..Len(samples)
         /\ \A i \in 1..Len(samples) :
               /\ samples[i].tick \in Nat /\ samples[i].upright \in BOOLEAN
               /\ samples[i].health # Nobody => samples[i].health \in Nat
         /\ \A i \in 2..Len(samples) : samples[i - 1].tick < samples[i].tick
<1> DEFINE Sample == [tick : Nat, health : Nat \cup {Nobody}, upright : BOOLEAN]
<1>1. samples \in Seq(Sample) /\ \A i \in 2..Len(samples) : samples[i - 1].tick < samples[i].tick
  BY DEF Samples
<1> HIDE DEF Sample
<1>2. /\ Len(samples) \in Nat /\ DOMAIN samples = 1..Len(samples)
      /\ \A i \in 1..Len(samples) : samples[i] \in Sample
  BY <1>1
<1> QED BY <1>1, <1>2 DEF Sample

LEMMA SamplesTick ==
  ASSUME NEW samples \in Samples
  PROVE  Ticking(samples)
BY SamplesAreTyped DEF Samples, Ticking

\* An unbroken stretch up to a sample is one up to the sample before, or the sample.
LEMMA UnbrokenStep ==
  ASSUME NEW samples \in Samples, NEW i \in 1..Len(samples), NEW a \in 1..i
  PROVE  /\ Unbroken(samples, i, i) <=> Valid(samples[i])
         /\ i # a => (Unbroken(samples, a, i) <=>
                        /\ a \in 1..i - 1 /\ Unbroken(samples, a, i - 1)
                        /\ Valid(samples[i]) /\ Contiguous(samples[i - 1], samples[i]))
<1>1. /\ i \in Nat /\ a \in Nat /\ i..i = {i} /\ i + 1..i = {}
      /\ i # a => a \in 1..i - 1 /\ i \in 2..Len(samples) /\ i - 1 \in 1..Len(samples)
      /\ i # a => a..i = (a..i - 1) \cup {i} /\ a + 1..i = (a + 1..i - 1) \cup {i}
  BY SamplesAreTyped
<1>2. SampleGap \in Nat
  BY MatchAssumption
<1>3. i # a => (Contiguous(samples[i - 1], samples[i])
                  <=> samples[i].tick - samples[i - 1].tick <= SampleGap)
  BY <1>1, <1>2, SamplesAreTyped DEF Contiguous
<1> QED BY <1>1, <1>3 DEF Unbroken, Valid

LEMMA PeakStep ==
  ASSUME NEW samples \in Samples, NEW i \in 1..Len(samples),
         NEW peak \in [0..Len(samples) -> Nat \cup {Nobody}],
         peak[i] = PeakAt(samples, peak, i), i > 1 => Peak(samples, peak, i - 1)
  PROVE  Peak(samples, peak, i)
<1>1. /\ i \in Nat /\ i \in 1..i /\ Nobody \notin Nat
      /\ \A a \in 1..i : a \in 1..Len(samples) /\ (a = i \/ a \in 1..i - 1)
      /\ \A a \in 1..i - 1 : a \in 1..i /\ a # i
      /\ i # 1 => i > 1 /\ i - 1 \in 1..Len(samples) /\ i - 1 \in 0..Len(samples)
  BY SamplesAreTyped, MatchAssumption
<1>2. CASE ~Valid(samples[i])
  BY <1>2 DEF PeakAt, Peak
<1>3. CASE Valid(samples[i])
  <2>1. samples[i].health \in Nat /\ Unbroken(samples, i, i)
    BY <1>1, <1>3, SamplesAreTyped, UnbrokenStep DEF Valid
  <2>2. \A a \in 1..i - 1 :
           Unbroken(samples, a, i) <=>
             Unbroken(samples, a, i - 1) /\ Contiguous(samples[i - 1], samples[i])
    BY <1>1, <1>3, UnbrokenStep
  <2>3. \A a \in 1..i - 1 : Unbroken(samples, a, i - 1)
                               => Valid(samples[i - 1]) /\ samples[a].health \in Nat
    <3> TAKE a \in 1..i - 1
    <3>1. a \in a..i - 1 /\ i - 1 \in a..i - 1 /\ a \in 1..Len(samples)
      BY <1>1
    <3> QED BY <3>1, SamplesAreTyped DEF Unbroken, Valid
  <2>4. CASE i = 1 \/ peak[i - 1] = Nobody \/ ~Contiguous(samples[i - 1], samples[i])
    <3>1. peak[i] = samples[i].health
      BY <1>3, <2>4 DEF PeakAt
    <3>2. \A a \in 1..i - 1 : ~Unbroken(samples, a, i)
      <4> SUFFICES ASSUME NEW a \in 1..i - 1, Unbroken(samples, a, i) PROVE FALSE
        OBVIOUS
      <4>1. /\ i # 1 /\ Unbroken(samples, a, i - 1) /\ Contiguous(samples[i - 1], samples[i])
            /\ Valid(samples[i - 1])
        BY <1>1, <2>2, <2>3
      <4>2. peak[i - 1] = Nobody /\ Peak(samples, peak, i - 1)
        BY <1>1, <2>4, <4>1
      <4>3. \E b \in 1..i - 1 : Unbroken(samples, b, i - 1) /\ peak[i - 1] = samples[b].health
        BY <4>1, <4>2 DEF Peak
      <4> QED BY <1>1, <2>3, <4>2, <4>3
    <3>3. \A a \in 1..i : Unbroken(samples, a, i) => a = i
      BY <1>1, <3>2
    <3> QED BY <1>1, <1>3, <2>1, <3>1, <3>3 DEF Peak
  <2>5. CASE i # 1 /\ peak[i - 1] # Nobody /\ Contiguous(samples[i - 1], samples[i])
    <3>1. peak[i] = Max({peak[i - 1], samples[i].health}) /\ peak[i - 1] \in Nat
      BY <1>1, <1>3, <2>5 DEF PeakAt
    <3>2. peak[i] = IF peak[i - 1] >= samples[i].health THEN peak[i - 1] ELSE samples[i].health
      BY <2>1, <3>1, OfTwo
    <3>3. Valid(samples[i - 1]) /\ Peak(samples, peak, i - 1)
      BY <1>1, <2>5 DEF Peak
    <3>4. PICK b \in 1..i - 1 : Unbroken(samples, b, i - 1) /\ peak[i - 1] = samples[b].health
      BY <3>3 DEF Peak
    <3>5. \A a \in 1..i - 1 : Unbroken(samples, a, i) => samples[a].health <= peak[i - 1]
      BY <2>2, <3>3 DEF Peak
    <3>6. Unbroken(samples, b, i)
      BY <2>2, <2>5, <3>4
    <3>7. \E a \in 1..i : Unbroken(samples, a, i) /\ peak[i] = samples[a].health
      BY <1>1, <2>1, <3>2, <3>4, <3>6
    <3>8. ASSUME NEW a \in 1..i, Unbroken(samples, a, i) PROVE samples[a].health <= peak[i]
      <4>1. CASE a = i
        BY <2>1, <3>1, <3>2, <4>1
      <4>2. CASE a \in 1..i - 1
        <5>1. samples[a].health \in Nat /\ samples[a].health <= peak[i - 1]
          BY <2>2, <2>3, <3>5, <3>8, <4>2
        <5> QED BY <2>1, <3>1, <3>2, <5>1
      <4> QED BY <1>1, <4>1, <4>2
    <3> QED BY <1>3, <3>7, <3>8 DEF Peak
  <2> QED BY <2>4, <2>5
<1> QED BY <1>2, <1>3

\* What a survivor loses is the greatest fall between two samples without a gap,
\* an incapacitation or an unknown value between them, whatever the samples are.
THEOREM OneFall ==
  ASSUME NEW samples \in Samples
  PROVE  LossIsOneFallIn(samples)
<1> DEFINE n == Len(samples)
           Pairs == {x \in (DOMAIN samples) \X (DOMAIN samples) :
                        x[1] <= x[2] /\ Unbroken(samples, x[1], x[2])}
           Lost == {samples[k[1]].health - samples[k[2]].health : k \in Pairs}
<1>1. PICK peak \in [0..n -> Nat \cup {Nobody}] :
         /\ \A i \in 1..n : peak[i] = PeakAt(samples, peak, i)
         /\ Drawdown(samples) = Max({0} \cup Falls(samples, peak))
  BY PeakUnfolds
<1>2. \A i \in 1..n : Peak(samples, peak, i)
  <2> DEFINE S == {i \in 0..n : i > 0 => Peak(samples, peak, i)}
  <2>1. n \in Nat /\ 0 \in S
    BY SamplesAreTyped
  <2>2. ASSUME NEW i \in S, i < n PROVE i + 1 \in S
    <3>1. i + 1 \in 1..n /\ i + 1 \in 0..n /\ (i + 1) - 1 = i /\ (i + 1 > 1 => i > 0)
      BY <2>1, <2>2
    <3>2. Peak(samples, peak, i + 1)
      BY <1>1, <3>1, PeakStep
    <3> QED BY <3>1, <3>2
  <2>3. S \in SUBSET (0..n)
    OBVIOUS
  <2> HIDE DEF S
  <2>4. S = 0..n
    BY <2>1, <2>2, <2>3, Induction
  <2> QED BY <2>1, <2>4 DEF S
<1>3. /\ n \in Nat /\ DOMAIN samples = 1..n
      /\ \A i \in 1..n : Valid(samples[i]) => samples[i].health \in Nat
  BY SamplesAreTyped DEF Valid
<1>4. \A a, z \in 1..n : a <= z /\ Unbroken(samples, a, z) => Valid(samples[a]) /\ Valid(samples[z])
  <2> TAKE a, z \in 1..n
  <2>1. a <= z => a \in a..z /\ z \in a..z
    BY <1>3
  <2> QED BY <2>1 DEF Unbroken, Valid
<1>5. PICK m \in Nat : \A i \in 1..n : Valid(samples[i]) => samples[i].health <= m
  <2> DEFINE f == [i \in 1..n |-> IF Valid(samples[i]) THEN samples[i].health ELSE 0]
  <2>1. f \in [1..n -> Int]
    BY <1>3
  <2>2. \A i \in 1..n : Valid(samples[i]) => f[i] = samples[i].health
    OBVIOUS
  <2> HIDE DEF f
  <2>3. \E m \in Nat : \A i \in 1..n : f[i] <= m
    BY <1>3, <2>1, Bounded
  <2> QED BY <2>2, <2>3
<1>6. \A x \in Falls(samples, peak) : x \in Lost
  <2> SUFFICES ASSUME NEW i \in 1..n, Valid(samples[i])
               PROVE  peak[i] - samples[i].health \in Lost
    BY <1>3 DEF Falls
  <2>1. PICK a \in 1..i : Unbroken(samples, a, i) /\ peak[i] = samples[a].health
    BY <1>2 DEF Peak
  <2>2. <<a, i>> \in Pairs
    BY <1>3, <2>1
  <2> QED BY <2>1, <2>2
<1>7. \A x \in Lost : x \in Int /\ x <= m /\ \E y \in Falls(samples, peak) : x <= y
  <2> SUFFICES ASSUME NEW a \in 1..n, NEW z \in 1..n, a <= z, Unbroken(samples, a, z)
               PROVE  LET x == samples[a].health - samples[z].health
                      IN  x \in Int /\ x <= m /\ \E y \in Falls(samples, peak) : x <= y
    BY <1>3
  <2>1. /\ samples[a].health \in Nat /\ samples[z].health \in Nat /\ samples[a].health <= m
        /\ Valid(samples[z]) /\ a \in 1..z
    BY <1>3, <1>4, <1>5
  <2>2. samples[a].health <= peak[z] /\ peak[z] \in Nat
    <3>1. /\ \A b \in 1..z : Unbroken(samples, b, z) => samples[b].health <= peak[z]
          /\ \E b \in 1..z : Unbroken(samples, b, z) /\ peak[z] = samples[b].health
      BY <1>2, <2>1 DEF Peak
    <3>2. PICK b \in 1..z : Unbroken(samples, b, z) /\ peak[z] = samples[b].health
      BY <3>1
    <3>3. b \in 1..n /\ b <= z
      BY <1>3
    <3> QED BY <1>3, <1>4, <2>1, <3>1, <3>2, <3>3
  <2>3. peak[z] - samples[z].health \in Falls(samples, peak)
    BY <1>3, <2>1 DEF Falls
  <2> QED BY <2>1, <2>2, <2>3
<1> HIDE DEF Lost
<1>8. Max({0} \cup Falls(samples, peak)) = Max({0} \cup Lost)
  <2> DEFINE A == {0} \cup Falls(samples, peak)
             B == {0} \cup Lost
  <2>1. /\ A \subseteq B /\ B \in SUBSET Int /\ A \in SUBSET Int /\ A # {} /\ B # {}
        /\ \A x \in B : x <= m /\ \E y \in A : x <= y
        /\ \A x \in A : x <= m
    BY <1>6, <1>7
  <2> HIDE DEF A, B
  <2>2. m \in Int
    OBVIOUS
  <2>3. Max(A) \in A /\ \A x \in A : x <= Max(A)
    BY <2>1, <2>2, BoundedMax
  <2>4. Max(B) \in B /\ \A x \in B : x <= Max(B)
    BY <2>1, <2>2, BoundedMax
  <2>5. PICK y \in A : Max(B) <= y
    BY <2>1, <2>4
  <2>6. Max(A) \in Int /\ Max(B) \in Int /\ y \in Int /\ y <= Max(A) /\ Max(A) <= Max(B)
    BY <2>1, <2>3, <2>4
  <2>7. Max(A) = Max(B)
    BY <2>5, <2>6
  <2> QED BY <2>7 DEF A, B
<1>9. Drawdown(samples) = Max({0} \cup Lost)
  BY <1>1, <1>8
<1> QED BY <1>9, Zenon DEF LossIsOneFallIn, Lost, Unbroken

-----------------------------------------------------------------------------
(* Halves *)

\* Match states, in the order of their snapshots.
States ==
    {s \in Seq([tick : Nat, second : BOOLEAN \cup {Nobody}]) :
        \A i \in 2..Len(s) : s[i - 1].tick < s[i].tick}

\* The least of indices.
LEMMA LeastIndex ==
  ASSUME NEW n \in Nat, NEW S \in SUBSET (1..n), S # {}
  PROVE  Min(S) \in S
<1> DEFINE R == OpToRel(<, Nat)
<1>1. \A y, x \in Nat : y < x => <<y, x>> \in R
  BY DEF OpToRel
<1>2. S \subseteq Nat
  OBVIOUS
<1>3. PICK x \in S : \A y \in S : ~ (<<y, x>> \in R)
  BY <1>2, NatLessThanWellFounded, WFMin
<1> HIDE DEF R
<1>4. ASSUME NEW y \in S PROVE x <= y
  <2>1. ~(y < x)
    BY <1>1, <1>2, <1>3
  <2> QED BY <1>2, <2>1
<1> QED BY <1>4 DEF Min

LEMMA StatesAreTyped ==
  ASSUME NEW states \in States
  PROVE  /\ Len(states) \in Nat /\ DOMAIN states = 1..Len(states)
         /\ \A i \in 1..Len(states) : states[i].tick \in Nat
         /\ \A i \in 2..Len(states) : states[i].tick \in Nat \ {0}
<1> DEFINE State == [tick : Nat, second : BOOLEAN \cup {Nobody}]
<1>1. states \in Seq(State) /\ \A i \in 2..Len(states) : states[i - 1].tick < states[i].tick
  BY DEF States
<1> HIDE DEF State
<1>2. /\ Len(states) \in Nat /\ DOMAIN states = 1..Len(states)
      /\ \A i \in 1..Len(states) : states[i] \in State
  BY <1>1
<1>3. \A i \in 1..Len(states) : states[i].tick \in Nat
  BY <1>2 DEF State
<1>4. ASSUME NEW i \in 2..Len(states) PROVE states[i].tick \in Nat \ {0}
  <2>1. i \in 1..Len(states) /\ i - 1 \in 1..Len(states)
    BY <1>2
  <2>2. states[i - 1].tick \in Nat /\ states[i].tick \in Nat /\ states[i - 1].tick < states[i].tick
    BY <1>1, <1>3, <2>1
  <2> QED BY <2>2
<1> QED BY <1>2, <1>3, <1>4

\* A second half begins at a later tick than the first; or there is one half.
LEMMA RangesOfHalves ==
  ASSUME NEW states \in States, NEW last \in Nat
  PROVE  \/ \E t \in Nat \ {0} :
               HalfRanges(states, last) =
                  <<HalfRange("first", 0, t - 1), HalfRange("second", t, last)>>
         \/ \E id : HalfRanges(states, last) = <<HalfRange(id, 0, last)>>
<1> DEFINE turned == {i \in DOMAIN states :
                        states[i].second = TRUE /\ \E j \in 1..i - 1 : states[j].second = FALSE}
           known == {i \in DOMAIN states : states[i].second # Nobody}
           id == IF known = {} THEN "unknown"
                 ELSE IF states[Min(known)].second THEN "second" ELSE "first"
           start == states[Min(turned)].tick
<1>1. HalfRanges(states, last) =
        IF turned # {} THEN <<HalfRange("first", 0, Max({0, start - 1})),
                              HalfRange("second", start, last)>>
        ELSE <<HalfRange(id, 0, last)>>
  BY Zenon DEF HalfRanges
<1>2. CASE turned = {}
  BY <1>1, <1>2
<1>3. CASE turned # {}
  <2>1. turned \in SUBSET (1..Len(states)) /\ turned \in SUBSET (2..Len(states))
    BY StatesAreTyped
  <2> HIDE DEF turned
  <2>2. Min(turned) \in turned
    BY <1>3, <2>1, LeastIndex, StatesAreTyped
  <2>3. start \in Nat \ {0}
    BY <2>1, <2>2, StatesAreTyped
  <2> HIDE DEF start
  <2>4. Max({0, start - 1}) = start - 1
    BY <2>3, OfTwo
  <2> QED BY <1>1, <1>3, <2>3, <2>4
<1> QED BY <1>2, <1>3

LEMMA RangesAreTyped ==
  ASSUME NEW states \in States, NEW last \in Nat, NEW k \in DOMAIN HalfRanges(states, last)
  PROVE  LET r == HalfRanges(states, last)[k] IN r.start \in Int /\ r.end \in Int
<1> DEFINE ranges == HalfRanges(states, last)
<1>1. CASE \E t \in Nat \ {0} :
              ranges = <<HalfRange("first", 0, t - 1), HalfRange("second", t, last)>>
  <2>1. PICK t \in Nat \ {0} :
           ranges = <<HalfRange("first", 0, t - 1), HalfRange("second", t, last)>>
    BY <1>1
  <2>2. k \in 1..2 /\ ranges[1] = HalfRange("first", 0, t - 1)
        /\ ranges[2] = HalfRange("second", t, last)
    BY <2>1
  <2> HIDE DEF ranges
  <2> QED BY <2>2 DEF HalfRange, ranges
<1>2. CASE \E id : ranges = <<HalfRange(id, 0, last)>>
  <2>1. PICK id : ranges = <<HalfRange(id, 0, last)>>
    BY <1>2
  <2>2. k = 1 /\ ranges[1] = HalfRange(id, 0, last)
    BY <2>1
  <2> HIDE DEF ranges
  <2> QED BY <2>2 DEF HalfRange, ranges
<1> QED BY <1>1, <1>2, RangesOfHalves

\* Every tick belongs to one half, whatever the match states are.
THEOREM HalvesArePartition ==
  ASSUME NEW states \in States, NEW last \in Nat
  PROVE  HalvesPartition(HalfRanges(states, last), last)
<1> DEFINE ranges == HalfRanges(states, last)
           Of(t) == {k \in DOMAIN ranges : t \in ranges[k].start..ranges[k].end}
<1>1. ASSUME NEW t \in 0..last PROVE \E k : Of(t) = {k}
  <2>1. CASE \E s \in Nat \ {0} :
                ranges = <<HalfRange("first", 0, s - 1), HalfRange("second", s, last)>>
    <3>1. PICK s \in Nat \ {0} :
             ranges = <<HalfRange("first", 0, s - 1), HalfRange("second", s, last)>>
      BY <2>1
    <3> HIDE DEF ranges
    <3>2. /\ DOMAIN ranges = 1..2 /\ ranges[1].start = 0 /\ ranges[1].end = s - 1
          /\ ranges[2].start = s /\ ranges[2].end = last
      BY <3>1 DEF HalfRange
    <3>3. Of(t) = IF t < s THEN {1} ELSE {2}
      BY <3>2
    <3> QED BY <3>3
  <2>2. CASE \E id : ranges = <<HalfRange(id, 0, last)>>
    <3>1. PICK id : ranges = <<HalfRange(id, 0, last)>>
      BY <2>2
    <3> HIDE DEF ranges
    <3>2. DOMAIN ranges = 1..1 /\ ranges[1].start = 0 /\ ranges[1].end = last
      BY <3>1 DEF HalfRange
    <3>3. Of(t) = {1}
      BY <3>2
    <3> QED BY <3>3
  <2> QED BY <2>1, <2>2, RangesOfHalves
<1> HIDE DEF ranges
<1>2. \A t \in 0..last : Cardinality(Of(t)) = 1
  BY <1>1, FS_Singleton
<1> QED BY <1>2 DEF HalvesPartition, ranges

\* A half that is looked at alone has no clear that the whole recording has not.
LEMMA HalvesAddNoClear ==
  ASSUME NEW events, NEW range
  PROVE  ClearsAgree(events, ClearStats(events), range)
<1> DEFINE scoped == {e \in events : InRanges(e.tick, {range})}
<1>1. \A c : StartsOf(scoped, c) \subseteq StartsOf(events, c)
  BY DEF StartsOf, OfType
<1> SUFFICES ASSUME NEW w \in RebuildClearStats(events, {range})
             PROVE  Who(w) \in {Who(x) : x \in ClearStats(events)}
  BY DEF ClearsAgree
<1>2. PICK c \in OfType(scoped, "clear") :
         /\ StartsOf(scoped, c) # {}
         /\ w.tick = c.tick /\ w.clearer = c.actor /\ w.victim = c.victim
  <2>1. PICK c \in {x \in OfType(scoped, "clear") : StartsOf(scoped, x) # {}} :
           w = [tick |-> c.tick, clearer |-> c.actor, victim |-> c.victim,
                field |-> c.field, response |-> Response(scoped, c)]
    BY Zenon DEF RebuildClearStats
  <2> HIDE DEF scoped
  <2> QED BY <2>1
<1>3. c \in OfType(events, "clear") /\ StartsOf(events, c) # {}
  BY <1>1, <1>2 DEF OfType
<1> DEFINE stat == [tick |-> c.tick, clearer |-> c.actor, victim |-> c.victim,
                    response |-> Response(events, c)]
<1>4. stat \in ClearStats(events)
  BY <1>3 DEF ClearStats
<1>5. Who(stat) = Who(w)
  BY <1>2 DEF Who
<1> QED BY <1>4, <1>5

\* A row adds a point, unless it repeats the last one or says nothing.
Pointed(points, row) ==
    LET Repeats(point) == /\ row.health = point.health /\ row.upright = point.upright
                          /\ row.tick \div Second = point.tick \div Second
    IN  IF row.health = Nobody \/ (points # <<>> /\ Repeats(points[Len(points)]))
        THEN points ELSE Append(points, row)

\* The trace, as a function of the rows looked at.
LEMMA TraceUnfolds ==
  ASSUME NEW rows \in Samples
  PROVE  \E trace : /\ HealthTrace(rows) = trace[Len(rows)]
                    /\ trace[0] = <<>>
                    /\ \A i \in 1..Len(rows) : trace[i] = Pointed(trace[i - 1], rows[i])
<1> DEFINE n == Len(rows)
           T == Seq({rows[i] : i \in 1..n})
           F == [i \in 1..n |-> [t \in T |-> Pointed(t, rows[i])]]
           Step(g) == [s \in SUBSET (DOMAIN rows) |->
                         IF s = {} THEN <<>>
                         ELSE LET i == Max(s) IN Pointed(g[s \ {i}], rows[i])]
           chosen == CHOOSE g : g = Step(g)
           trace == [i \in 0..n |-> chosen[1..i]]
<1>1. n \in Nat /\ DOMAIN rows = 1..n
  BY SamplesAreTyped
<1>2. <<>> \in T
  OBVIOUS
<1>3. ASSUME NEW i \in 1..n, NEW t \in T PROVE Pointed(t, rows[i]) \in T
  <2>1. rows[i] \in {rows[j] : j \in 1..n}
    OBVIOUS
  <2> QED BY <2>1 DEF Pointed
<1> HIDE DEF T
<1>4. \A i \in 1..n, t \in T : F[i][t] = Pointed(t, rows[i])
  OBVIOUS
<1>5. Steps(F, n, T)
  BY <1>1, <1>3 DEF Steps
<1> HIDE DEF F, n
<1>6. PICK g : Folded(g, <<>>, F, n, T)
  BY <1>2, <1>5, Folding
<1>7. g = Step(g)
  <2>1. ASSUME NEW s \in SUBSET (1..n)
        PROVE  g[s] = IF s = {} THEN <<>> ELSE Pointed(g[s \ {Max(s)}], rows[Max(s)])
    <3>1. g[s] = IF s = {} THEN <<>> ELSE F[Max(s)][g[s \ {Max(s)}]]
      BY <1>6 DEF Folded
    <3>2. s # {} => Max(s) \in 1..n /\ g[s \ {Max(s)}] \in T
      <4>1. s # {} => Max(s) \in s
        BY <1>1, GreatestIndex
      <4>2. s \ {Max(s)} \in SUBSET (1..n)
        OBVIOUS
      <4> QED BY <1>6, <4>1, <4>2 DEF Folded
    <3> QED BY <1>4, <3>1, <3>2
  <2>2. g = [s \in SUBSET (1..n) |-> g[s]]
    BY <1>6 DEF Folded
  <2> QED BY <1>1, <2>1, <2>2
<1>8. chosen = Step(chosen)
  <2> HIDE DEF Step
  <2> QED BY <1>7
<1> HIDE DEF chosen
<1>9. HealthTrace(rows) = chosen[1..n]
  <2>1. HealthTrace(rows) = chosen[DOMAIN rows]
    BY Zenon DEF HealthTrace, FoldLeft, MapThenFoldSet, Pointed, chosen
  <2> QED BY <1>1, <2>1
<1>10. \A s \in SUBSET (1..n) :
          chosen[s] = IF s = {} THEN <<>> ELSE Pointed(chosen[s \ {Max(s)}], rows[Max(s)])
  <2> HIDE DEF T
  <2> QED BY <1>1, <1>8
<1>11. n \in 0..n /\ 0 \in 0..n /\ \A i \in 1..n : i \in 0..n /\ i - 1 \in 0..n
  BY <1>1
<1>12. trace[n] = chosen[1..n] /\ trace[0] = chosen[1..0]
       /\ \A i \in 1..n : trace[i] = chosen[1..i] /\ trace[i - 1] = chosen[1..i - 1]
  BY <1>11
<1>13. chosen[1..0] = <<>>
  <2>1. 1..0 = {} /\ 1..0 \in SUBSET (1..n)
    OBVIOUS
  <2> QED BY <1>10, <2>1
<1>14. ASSUME NEW i \in 1..n PROVE chosen[1..i] = Pointed(chosen[1..i - 1], rows[i])
  <2>1. 1..i \in SUBSET (1..n) /\ 1..i # {} /\ Max(1..i) = i /\ (1..i) \ {i} = 1..i - 1
    <3>1. i \in Nat \ {0} /\ i \in 1..i /\ 1..i \in SUBSET (1..n)
      BY <1>1
    <3> QED BY <3>1, LastIndex
  <2> QED BY <1>10, <2>1
<1> HIDE DEF trace
<1> QED BY <1>9, <1>12, <1>13, <1>14 DEF n

\* The points of the rows up to k: rows in their order, and for each row that says
\* something the last point up to it says it too.
Traced(points, rows, k) ==
    /\ points \in Seq({rows[i] : i \in 1..k})
    /\ \A i, j \in 1..Len(points) : i < j => points[i].tick < points[j].tick
    /\ \A i \in 1..k : rows[i].health # Nobody =>
          \E j \in 1..Len(points) :
             /\ points[j].tick <= rows[i].tick
             /\ points[j].health = rows[i].health /\ points[j].upright = rows[i].upright
             /\ \A l \in 1..Len(points) : l > j => points[l].tick > rows[i].tick

LEMMA RowIsTraced ==
  ASSUME NEW rows \in Samples, NEW k \in 1..Len(rows), NEW points, Traced(points, rows, k - 1)
  PROVE  Traced(Pointed(points, rows[k]), rows, k)
<1> DEFINE n == Len(points)
           row == rows[k]
           next == Pointed(points, row)
           Says(p, r) == p.health = r.health /\ p.upright = r.upright
<1>1. /\ k \in Nat /\ k \in 1..k /\ \A i \in 1..k : i = k \/ i \in 1..k - 1
      /\ \A i \in 1..k - 1 : i \in 1..k /\ i < k /\ i \in 1..Len(rows)
  BY SamplesAreTyped
<1>2. /\ n \in Nat /\ DOMAIN points = 1..n /\ points \in Seq({rows[i] : i \in 1..k})
      /\ \A j \in 1..n : \E i \in 1..k - 1 : points[j] = rows[i]
  <2> DEFINE Old == {rows[i] : i \in 1..k - 1}
             Now == {rows[i] : i \in 1..k}
  <2>1. points \in Seq(Old) /\ Old \subseteq Now
    BY <1>1 DEF Traced
  <2> HIDE DEF Old, Now
  <2>2. n \in Nat /\ DOMAIN points = 1..n /\ \A j \in 1..n : points[j] \in Old
    BY <2>1
  <2>3. \A j \in 1..Len(points) : points[j] \in Now
    BY <2>1, <2>2
  <2>4. points \in Seq(Now)
    BY <2>1, <2>3, Retyped
  <2> QED BY <2>2, <2>4 DEF Old, Now
<1>3. \A j \in 1..n : points[j].tick \in Nat /\ points[j].tick < row.tick /\ row.tick \in Nat
  <2> TAKE j \in 1..n
  <2>1. PICK i \in 1..k - 1 : points[j] = rows[i]
    BY <1>2
  <2> QED BY <1>1, <2>1, SamplesTick, TicksIncrease, SamplesAreTyped
<1>4. CASE row.health = Nobody
  <2>1. next = points
    BY <1>4 DEF Pointed
  <2>2. \A i \in 1..k : rows[i].health # Nobody => i \in 1..k - 1
    BY <1>1, <1>4
  <2> HIDE DEF next
  <2> QED BY <1>2, <2>1, <2>2 DEF Traced, next
<1>5. CASE row.health # Nobody /\ next = points
  <2>1. n \in 1..n /\ Says(points[n], row)
    <3>1. next # points \/ (points # <<>> /\ Says(points[n], row))
      <4>1. Len(Append(points, row)) # Len(points)
        <5> DEFINE Rows == {rows[i] : i \in 1..k}
        <5>1. row \in Rows /\ points \in Seq(Rows)
          BY <1>1, <1>2
        <5> HIDE DEF Rows, row
        <5>2. Len(Append(points, row)) = n + 1
          BY <5>1
        <5>3. n \in Nat
          BY <1>2
        <5> HIDE DEF n
        <5>4. Len(Append(points, row)) # n
          BY <5>2, <5>3
        <5> QED BY <5>4 DEF n
      <4> QED BY <1>5, <4>1 DEF Pointed
    <3>2. points # <<>> => n # 0
      BY <1>2
    <3> QED BY <1>2, <1>5, <3>1, <3>2
  <2>2. \A l \in 1..n : ~(l > n)
    BY <1>2
  <2>3. ASSUME NEW i \in 1..k, rows[i].health # Nobody
        PROVE  \E j \in 1..n : /\ points[j].tick <= rows[i].tick /\ Says(points[j], rows[i])
                               /\ \A l \in 1..n : l > j => points[l].tick > rows[i].tick
    <3>1. CASE i = k
      <4>1. points[n].tick <= row.tick
        BY <1>3, <2>1
      <4> QED BY <2>1, <2>2, <3>1, <4>1
    <3>2. CASE i \in 1..k - 1
      BY <2>3, <3>2 DEF Traced
    <3> QED BY <1>1, <3>1, <3>2
  <2> HIDE DEF next
  <2> QED BY <1>2, <1>5, <2>3 DEF Traced, next
<1>6. CASE row.health # Nobody /\ next # points
  <2>1. next = Append(points, row)
    BY <1>6 DEF Pointed
  <2> HIDE DEF next
  <2>2. row \in {rows[i] : i \in 1..k}
    BY <1>1
  <2>3. /\ next \in Seq({rows[i] : i \in 1..k}) /\ Len(next) = n + 1 /\ next[n + 1] = row
        /\ \A j \in 1..n : next[j] = points[j]
    BY <1>2, <2>1, <2>2
  <2>4. /\ n + 1 \in 1..n + 1 /\ \A j \in 1..n + 1 : j = n + 1 \/ j \in 1..n
        /\ \A j \in 1..n : j \in 1..n + 1 /\ j < n + 1 /\ ~(n + 1 < j)
        /\ \A j \in 1..n + 1 : ~(j > n + 1)
    BY <1>2
  <2>5. \A i, j \in 1..n + 1 : i < j => next[i].tick < next[j].tick
    <3> TAKE i, j \in 1..n + 1
    <3>1. CASE i = n + 1
      BY <2>4, <3>1
    <3>2. CASE i \in 1..n /\ j = n + 1
      BY <1>3, <2>3, <3>2
    <3>3. CASE i \in 1..n /\ j \in 1..n
      BY <2>3, <3>3 DEF Traced
    <3> QED BY <2>4, <3>1, <3>2, <3>3
  <2>6. ASSUME NEW i \in 1..k, rows[i].health # Nobody
        PROVE  \E j \in 1..n + 1 : /\ next[j].tick <= rows[i].tick /\ Says(next[j], rows[i])
                                   /\ \A l \in 1..n + 1 : l > j => next[l].tick > rows[i].tick
    <3>1. CASE i = k
      <4>1. row.tick <= row.tick
        BY SamplesAreTyped
      <4> QED BY <2>3, <2>4, <3>1, <4>1
    <3>2. CASE i \in 1..k - 1
      <4>1. PICK j \in 1..n : /\ points[j].tick <= rows[i].tick /\ Says(points[j], rows[i])
                              /\ \A l \in 1..n : l > j => points[l].tick > rows[i].tick
        BY <2>6, <3>2 DEF Traced
      <4>2. row.tick > rows[i].tick
        BY <1>1, <3>2, SamplesTick, TicksIncrease, SamplesAreTyped
      <4>3. \A l \in 1..n + 1 : l > j => next[l].tick > rows[i].tick
        BY <2>3, <2>4, <4>1, <4>2
      <4> QED BY <2>3, <2>4, <4>1, <4>3
    <3> QED BY <1>1, <3>1, <3>2
  <2> QED BY <2>3, <2>5, <2>6 DEF Traced, next
<1> QED BY <1>4, <1>5, <1>6

\* A range of ticks shows of each of its rows what the row said.
LEMMA TraceIsFaithful ==
  ASSUME NEW rows \in Samples, NEW range, range.start \in Int, range.end \in Int
  PROVE  TraceAgrees(HealthTrace(rows), rows, range)
<1>1. PICK trace : /\ HealthTrace(rows) = trace[Len(rows)]
                   /\ trace[0] = <<>>
                   /\ \A i \in 1..Len(rows) : trace[i] = Pointed(trace[i - 1], rows[i])
  BY TraceUnfolds
<1> DEFINE points == HealthTrace(rows)
           n == Len(points)
<1>2. Traced(points, rows, Len(rows))
  <2> DEFINE S == {i \in 0..Len(rows) : Traced(trace[i], rows, i)}
  <2>1. Traced(<<>>, rows, 0)
    BY DEF Traced
  <2>2. Len(rows) \in Nat /\ 0 \in S
    BY <1>1, <2>1, SamplesAreTyped
  <2>3. ASSUME NEW i \in S, i < Len(rows) PROVE i + 1 \in S
    <3>1. i + 1 \in 1..Len(rows) /\ i + 1 \in 0..Len(rows) /\ (i + 1) - 1 = i
      BY <2>2, <2>3
    <3>2. Traced(Pointed(trace[i], rows[i + 1]), rows, i + 1)
      BY <3>1, RowIsTraced
    <3> QED BY <1>1, <3>1, <3>2
  <2>4. S \in SUBSET (0..Len(rows))
    OBVIOUS
  <2> HIDE DEF S
  <2>5. S = 0..Len(rows)
    BY <2>2, <2>3, <2>4, Induction
  <2>6. Len(rows) \in S
    BY <2>2, <2>5
  <2> QED BY <1>1, <2>6 DEF S
<1> HIDE DEF points
<1>3. /\ n \in Nat /\ DOMAIN points = 1..n
      /\ \A j \in 1..n : points[j].tick \in Nat
  <2>1. points \in Seq({rows[i] : i \in 1..Len(rows)})
    BY <1>2 DEF Traced
  <2>2. \A j \in 1..n : \E i \in 1..Len(rows) : points[j] = rows[i]
    BY <2>1
  <2> QED BY <2>1, <2>2, SamplesAreTyped
<1> SUFFICES ASSUME NEW row \in ToSet(rows), row.health # Nobody, InRanges(row.tick, {range})
             PROVE  \E q \in ShownAt(ScopeStatePoints(points, {range}), row.tick) :
                        q.health = row.health /\ q.upright = row.upright
  BY DEF TraceAgrees, points
<1>4. PICK i \in 1..Len(rows) : row = rows[i]
  BY SamplesAreTyped DEF ToSet
<1>5. rows[i].health # Nobody /\ rows[i].tick \in range.start..range.end
  BY <1>4 DEF InRanges
<1>6. PICK j \in 1..n :
         /\ points[j].tick <= rows[i].tick
         /\ points[j].health = rows[i].health /\ points[j].upright = rows[i].upright
         /\ \A l \in 1..n : l > j => points[l].tick > rows[i].tick
  BY <1>2, <1>5 DEF Traced
<1> DEFINE prior == {l \in 1..n : points[l].tick < range.start}
           inside == {l \in 1..n : points[l].tick \in range.start..range.end}
           scoped == inside \cup IF prior = {} THEN {} ELSE {Max(prior)}
<1>7. ScopeStatePoints(points, {range}) = {points[l] : l \in scoped}
  <2>1. ScopeStatePoints(points, {range}) =
          UNION {{points[l] : l \in {m \in DOMAIN points : points[m].tick \in r.start..r.end}
                                     \cup IF {m \in DOMAIN points : points[m].tick < r.start} = {}
                                          THEN {}
                                          ELSE {Max({m \in DOMAIN points : points[m].tick < r.start})}} :
                 r \in {range}}
    BY Zenon DEF ScopeStatePoints
  <2> QED BY <1>3, <2>1
<1>8. rows[i].tick \in Nat
  BY SamplesAreTyped
<1>9. j \in scoped
  <2>1. CASE points[j].tick >= range.start
    <3>1. points[j].tick \in range.start..range.end
      BY <1>3, <1>5, <1>6, <1>8, <2>1
    <3> QED BY <3>1
  <2>2. CASE points[j].tick < range.start
    <3>1. j \in prior /\ prior \in SUBSET (1..n)
      BY <2>2
    <3>2. \A l \in 1..n : l \in prior => l <= j
      BY <1>3, <1>5, <1>6, <1>8
    <3> HIDE DEF prior, inside
    <3>3. Max(prior) \in prior /\ \A l \in prior : l <= Max(prior)
      BY <1>3, <3>1, GreatestIndex
    <3>4. Max(prior) = j
      <4>1. Max(prior) \in 1..n /\ j <= Max(prior) /\ Max(prior) <= j
        BY <3>1, <3>2, <3>3
      <4> QED BY <1>3, <4>1
    <3> QED BY <3>1, <3>4
  <2> QED BY <1>3, <2>1, <2>2
<1>10. scoped \subseteq 1..n
  <2>1. prior # {} => Max(prior) \in prior
    <3>1. prior \in SUBSET (1..n)
      OBVIOUS
    <3> HIDE DEF prior
    <3> QED BY <1>3, <3>1, GreatestIndex
  <2> QED BY <2>1
<1>11. \A l \in 1..n : points[l].tick <= rows[i].tick => points[l].tick <= points[j].tick
  <2> TAKE l \in 1..n
  <2>1. CASE l > j
    BY <1>3, <1>6, <1>8, <2>1
  <2>2. CASE l = j
    BY <1>3, <2>2
  <2>3. CASE l < j
    BY <1>2, <1>3, <2>3 DEF Traced
  <2> QED BY <1>3, <2>1, <2>2, <2>3
<1> HIDE DEF scoped
<1>12. points[j] \in ShownAt({points[l] : l \in scoped}, rows[i].tick)
  BY <1>6, <1>9, <1>10, <1>11 DEF ShownAt
<1> QED BY <1>4, <1>6, <1>7, <1>12

-----------------------------------------------------------------------------
(* Clears *)

\* A chase: the fields of a player name players, and no two players of one class
\* let go of the same victim in one snapshot.
Chase(chase, Body) ==
    LET players == DOMAIN chase.rows
    IN /\ Nobody \notin players
       /\ \A p \in players :
             /\ chase.rows[p] \in Seq(Body) /\ Ticking(chase.rows[p])
             /\ \A i \in 1..Len(chase.rows[p]), f \in PinFields :
                   chase.rows[p][i].pin[f] \in players \cup {Nobody}
       /\ \A p, q \in players : \A e \in PinEnds(chase, p), d \in PinEnds(chase, q) :
             e.victim # Nobody /\ e.victim = d.victim /\ e.tick = d.tick /\ e.class = d.class
                => p = q

LEMMA TimelineOf ==
  ASSUME NEW chase
  PROVE  LET all == Timeline(chase)
             players == DOMAIN chase.rows
         IN  /\ OfType(all, "pin_start") = UNION {PinStarts(chase, p) : p \in players}
             /\ OfType(all, "pin_end") = UNION {PinEnds(chase, p) : p \in players}
             /\ OfType(all, "clear") = UNION {Clears(chase, p) : p \in players}
<1>1. \A p : \A e \in PinStarts(chase, p) : e.type = "pin_start"
  BY DEF PinStarts, Event
<1>2. \A p : \A e \in PinEnds(chase, p) : e.type = "pin_end"
  BY DEF PinEnds, Event
<1>3. \A p : \A e \in Clears(chase, p) : e.type = "clear"
  BY DEF Clears, Event
<1>4. "pin_start" # "pin_end" /\ "pin_start" # "clear" /\ "pin_end" # "clear"
  OBVIOUS
<1> QED BY <1>1, <1>2, <1>3, <1>4 DEF Timeline, OfType

LEMMA NamesOfPlayers ==
  ASSUME NEW chase, NEW v, NEW t
  PROVE  Named(chase, v, t) # Nobody => Named(chase, v, t) = v /\ v # Nobody /\ At(chase, v, t)
BY DEF Named

\* A clear is told of the moment a player lets go.
EndedBy(chase, p, c, clear) ==
    /\ c \in Releases(chase.rows[p]) /\ Freed(chase, p, c) # Nobody
    /\ clear.tick = chase.rows[p][c[1]].tick /\ clear.victim = Freed(chase, p, c)
    /\ clear.class = chase.rows[p][c[1]].class

\* The starts it is matched with are grips of that player.
Matched(chase, p, c, clear) ==
    LET rows == chase.rows[p]
        v == Freed(chase, p, c)
        starts == StartsOf(Timeline(chase), clear)
        grips == Grips(rows, v, c[1])
    IN  /\ v \in DOMAIN chase.rows /\ v = rows[c[1] - 1].pin[c[2]]
        /\ \A s \in starts : \E j \in grips : s.tick = rows[j].tick
        /\ Plain(chase) => \A j \in grips : \E s \in starts : s.tick = rows[j].tick

\* Its response is the time since the last of them.
Measured(chase, p, c, clear) ==
    LET rows == chase.rows[p]
        starts == StartsOf(Timeline(chase), clear)
        grips == Grips(rows, Freed(chase, p, c), c[1])
    IN  /\ starts # {} <=> grips # {}
        /\ grips # {} =>
              Response(Timeline(chase), clear) = rows[c[1]].tick - rows[Max(grips)].tick

\* The starts a clear is matched with are grips of its pinner, and if everybody is
\* in sight they are all of them.
LEMMA StartsAreGrips ==
  ASSUME NEW Body, NEW chase, Chase(chase, Body), NEW p \in DOMAIN chase.rows,
         NEW c, NEW clear, EndedBy(chase, p, c, clear)
  PROVE  Matched(chase, p, c, clear)
<1> DEFINE rows == chase.rows[p]
           players == DOMAIN chase.rows
           i == c[1]
           f == c[2]
           v == Freed(chase, p, c)
           starts == StartsOf(Timeline(chase), clear)
           grips == Grips(rows, v, i)
           n == Len(rows)
           own == Event("pin_end", rows[i], p, v, f)
<1> /\ c \in Releases(rows) /\ v # Nobody /\ clear.tick = rows[i].tick
    /\ clear.victim = v /\ clear.class = rows[i].class
  BY DEF EndedBy
<1>1. /\ i \in 2..n /\ f \in PinFields /\ rows[i - 1].pin[f] # rows[i].pin[f]
      /\ n \in Nat /\ i - 1 \in 1..n /\ i \in 1..n
  <2>1. n \in Nat
    BY DEF Chase, Ticking
  <2>2. i \in 2..n /\ f \in PinFields /\ rows[i - 1].pin[f] # rows[i].pin[f]
    BY DEF Releases, Changes
  <2> QED BY <2>1, <2>2
<1>2. v = rows[i - 1].pin[f] /\ v # Nobody /\ v \in players
  <2>1. v = rows[i - 1].pin[f]
    BY NamesOfPlayers DEF Freed
  <2>2. rows[i - 1].pin[f] \in players \cup {Nobody}
    BY <1>1 DEF Chase
  <2> QED BY <2>1, <2>2
<1>3. /\ own \in PinEnds(chase, p) /\ own.victim = v /\ own.tick = rows[i].tick
      /\ own.class = rows[i].class /\ own.actor = p
  BY DEF PinEnds, Event
<1>4. ASSUME NEW s \in starts PROVE \E j \in grips : s.tick = rows[j].tick
  <2>1. PICK e \in OfType(Timeline(chase), "pin_end") :
           /\ e.tick = rows[i].tick /\ e.victim = v /\ e.class = rows[i].class
           /\ s.tick <= e.tick /\ s.actor = e.actor /\ s.victim = e.victim
    BY DEF StartsOf
  <2>2. PICK q \in players : e \in PinEnds(chase, q)
    BY TimelineOf
  <2>3. q = p
    <3>1. \A r \in players : \A a \in PinEnds(chase, r), d \in PinEnds(chase, p) :
             a.victim # Nobody /\ a.victim = d.victim /\ a.tick = d.tick /\ a.class = d.class
                => r = p
      BY DEF Chase
    <3> HIDE DEF own, v, i
    <3> QED BY <1>2, <1>3, <2>1, <2>2, <3>1
  <2>4. e.actor = p
    BY <2>2, <2>3 DEF PinEnds, Event
  <2>5. PICK r \in players : s \in PinStarts(chase, r)
    BY TimelineOf DEF StartsOf
  <2>6. PICK b \in Changes(chase.rows[r]) :
           /\ chase.rows[r][b[1]].pin[b[2]] # Nobody
           /\ s = Event("pin_start", chase.rows[r][b[1]], r,
                        Named(chase, chase.rows[r][b[1]].pin[b[2]], chase.rows[r][b[1]].tick), b[2])
    BY <2>5, Zenon DEF PinStarts
  <2>7. s.actor = r /\ s.tick = chase.rows[r][b[1]].tick
        /\ s.victim = Named(chase, chase.rows[r][b[1]].pin[b[2]], chase.rows[r][b[1]].tick)
    BY <2>6 DEF Event
  <2>8. r = p
    BY <2>1, <2>4, <2>7
  <2> DEFINE j == b[1]
             g == b[2]
  <2>9. j \in 2..n /\ g \in PinFields /\ rows[j - 1].pin[g] # rows[j].pin[g]
    BY <2>8 DEF Changes
  <2>10. rows[j].pin[g] = v
    <3> DEFINE w == rows[j].pin[g]
               t == rows[j].tick
    <3>1. s.victim = Named(chase, w, t) /\ s.victim = v
      BY <2>1, <2>7, <2>8
    <3> HIDE DEF w, t, v
    <3>2. w = v
      BY <1>2, <3>1, NamesOfPlayers
    <3> QED BY <3>2 DEF w
  <2>11. s.tick = rows[j].tick /\ rows[j].tick <= rows[i].tick
    BY <2>1, <2>7, <2>8
  <2> HIDE DEF j, g, i, f, v
  <2>12. j <= i
    <3>1. i \in Nat /\ j \in Nat /\ i \in 1..n /\ j \in 1..n
      BY <1>1, <2>9
    <3>2. Ticking(rows)
      BY DEF Chase
    <3>3. rows[i].tick \in Nat /\ rows[j].tick \in Nat
      BY <3>1, <3>2 DEF Ticking
    <3>4. i < j => rows[i].tick < rows[j].tick
      BY <3>1, <3>2, TicksIncrease
    <3> QED BY <2>11, <3>1, <3>3, <3>4
  <2>13. j \in 2..i
    BY <1>1, <2>9, <2>12
  <2>14. j \in grips
    BY <2>9, <2>10, <2>13 DEF Grips
  <2> QED BY <2>11, <2>14
<1>5. ASSUME Plain(chase), NEW j \in grips PROVE \E s \in starts : s.tick = rows[j].tick
  <2>1. PICK g \in PinFields : rows[j].pin[g] = v /\ rows[j - 1].pin[g] # v
    BY DEF Grips
  <2>2. j \in 2..i /\ j \in 2..n /\ j \in 1..n
    <3>1. j \in 2..i
      BY DEF Grips
    <3> QED BY <1>1, <3>1
  <2> DEFINE s == Event("pin_start", rows[j], p, Named(chase, v, rows[j].tick), g)
  <2>3. s \in PinStarts(chase, p)
    <3>1. <<j, g>> \in Changes(rows) /\ rows[j].pin[g] = v /\ rows[j].pin[g] # Nobody
      BY <1>2, <2>1, <2>2 DEF Changes
    <3> DEFINE b == <<j, g>>
    <3>2. b[1] = j /\ b[2] = g
      OBVIOUS
    <3> HIDE DEF b, v
    <3>3. b \in {x \in Changes(rows) : rows[x[1]].pin[x[2]] # Nobody}
      BY <3>1, <3>2 DEF b
    <3>4. s = Event("pin_start", rows[b[1]], p,
                    Named(chase, rows[b[1]].pin[b[2]], rows[b[1]].tick), b[2])
      BY <3>1, <3>2
    <3> QED BY <3>3, <3>4, Zenon DEF PinStarts
  <2>4. At(chase, v, rows[j].tick)
    <3>1. Len(chase.rows[v]) = n /\ chase.rows[p] \in Seq(Body) /\ chase.rows[v] \in Seq(Body)
      BY <1>2, <1>5 DEF Plain, Chase
    <3>2. j \in DOMAIN chase.rows[p] /\ j \in DOMAIN chase.rows[v]
      BY <2>2, <3>1
    <3>3. chase.rows[v][j].tick = rows[j].tick
      BY <1>2, <1>5, <3>2 DEF Plain
    <3> QED BY <3>2, <3>3 DEF At
  <2>5. s.tick = rows[j].tick /\ s.actor = p /\ s.victim = v
    BY <1>2, <2>4 DEF Event, Named
  <2>6. rows[j].tick <= rows[i].tick
    <3>1. Ticking(rows) /\ i \in 1..n /\ j \in 1..n /\ j \in Nat /\ i \in Nat /\ (j = i \/ j < i)
      BY <1>1, <2>2 DEF Chase
    <3>2. rows[i].tick \in Nat /\ rows[j].tick \in Nat
      BY <3>1 DEF Ticking
    <3>3. j < i => rows[j].tick < rows[i].tick
      BY <3>1, TicksIncrease
    <3> QED BY <3>1, <3>2, <3>3
  <2>7. s \in OfType(Timeline(chase), "pin_start") /\ own \in OfType(Timeline(chase), "pin_end")
    BY <1>3, <2>3, TimelineOf
  <2> HIDE DEF s, own, v, i
  <2>8. s \in starts
    BY <1>3, <2>5, <2>6, <2>7 DEF StartsOf, i, v
  <2> QED BY <2>5, <2>8
<1> QED BY <1>2, <1>4, <1>5 DEF Matched

\* With everybody in sight a clear is matched if its pinner has a grip, and its
\* response is the time since the last one.
LEMMA ResponseSinceGrip ==
  ASSUME NEW Body, NEW chase, Chase(chase, Body), Plain(chase), NEW p \in DOMAIN chase.rows,
         NEW c, NEW clear, EndedBy(chase, p, c, clear)
  PROVE  Measured(chase, p, c, clear)
<1> DEFINE rows == chase.rows[p]
           n == Len(rows)
           starts == StartsOf(Timeline(chase), clear)
           grips == Grips(rows, Freed(chase, p, c), c[1])
           ticks == {s.tick : s \in starts}
<1>1. /\ \A s \in starts : \E j \in grips : s.tick = rows[j].tick
      /\ \A j \in grips : \E s \in starts : s.tick = rows[j].tick
  <2>1. Matched(chase, p, c, clear)
    BY StartsAreGrips
  <2> QED BY <2>1 DEF Matched
<1>2. n \in Nat /\ Ticking(rows)
  BY DEF Chase, Ticking
<1>3. grips \in SUBSET (1..n)
  <2>1. c[1] \in 2..n
    BY DEF EndedBy, Releases, Changes
  <2>2. grips \subseteq 2..c[1]
    BY DEF Grips
  <2> QED BY <1>2, <2>1, <2>2
<1>4. Response(Timeline(chase), clear) = rows[c[1]].tick - Max(ticks)
  BY DEF Response, EndedBy
<1> HIDE DEF rows, n, starts, grips
<1>5. ASSUME grips # {} PROVE Max(ticks) = rows[Max(grips)].tick
  <2> DEFINE m == Max(grips)
  <2>1. m \in grips /\ \A j \in grips : j <= m
    BY <1>2, <1>3, <1>5, GreatestIndex
  <2>2. \A j \in 1..n : rows[j].tick \in Nat
    BY <1>2 DEF Ticking, n
  <2>3. \A j \in grips : rows[j].tick <= rows[m].tick
    <3> TAKE j \in grips
    <3>1. j \in 1..n /\ m \in 1..n /\ j <= m /\ j \in Nat /\ m \in Nat
      <4>1. j \in 1..n /\ m \in 1..n
        BY <1>3, <2>1
      <4>2. j <= m
        BY <2>1
      <4> QED BY <1>2, <4>1, <4>2
    <3>2. j < m => rows[j].tick < rows[m].tick
      BY <1>2, <3>1, TicksIncrease DEF n
    <3>3. rows[j].tick \in Nat /\ rows[m].tick \in Nat
      BY <2>2, <3>1
    <3>4. CASE j = m
      BY <3>3, <3>4
    <3> QED BY <3>1, <3>2, <3>3, <3>4
  <2> HIDE DEF m
  <2>4. rows[m].tick \in ticks /\ \A t \in ticks : t \in Nat /\ t <= rows[m].tick
    BY <1>1, <1>3, <2>1, <2>2, <2>3
  <2> HIDE DEF ticks
  <2>5. ticks \in SUBSET Int /\ ticks # {} /\ rows[m].tick \in Int
    BY <2>4
  <2>6. Max(ticks) \in ticks /\ \A t \in ticks : t <= Max(ticks)
    BY <2>4, <2>5, BoundedMax
  <2>7. Max(ticks) \in Nat /\ Max(ticks) <= rows[m].tick /\ rows[m].tick <= Max(ticks)
        /\ rows[m].tick \in Nat
    BY <2>4, <2>6
  <2> QED BY <2>7 DEF m
<1>6. starts # {} <=> grips # {}
  BY <1>1
<1> QED BY <1>4, <1>5, <1>6 DEF Measured, rows, starts, grips

\* A player killed lets a victim go once, however many fields held it.
LEMMA ClearsOfPlayer ==
  ASSUME NEW Body, NEW chase, Chase(chase, Body), NEW p \in DOMAIN chase.rows,
         NEW clear \in Clears(chase, p)
  PROVE  LET rows == chase.rows[p]
         IN  \E c \in Releases(rows) :
                /\ EndedBy(chase, p, c, clear)
                /\ clear.actor = Killer(chase, p, rows[c[1]].tick)
                /\ Killings(chase, p, rows[c[1]].tick) # {}
                /\ <<c[1], Freed(chase, p, c)>> \in LetGo(rows, DOMAIN chase.rows)
<1> DEFINE rows == chase.rows[p]
           players == DOMAIN chase.rows
<1>1. PICK c \in Releases(rows) :
         /\ ReleasedByKill(chase, p, c)
         /\ clear = Event("clear", rows[c[1]], Killer(chase, p, rows[c[1]].tick),
                          Freed(chase, p, c), c[2])
  BY Zenon DEF Clears
<1> DEFINE i == c[1]
           v == Freed(chase, p, c)
<1>2. /\ clear.tick = rows[i].tick /\ clear.class = rows[i].class
      /\ clear.victim = v /\ clear.actor = Killer(chase, p, rows[i].tick)
  BY <1>1 DEF Event
<1>3. /\ v # Nobody /\ Killings(chase, p, rows[i].tick) # {}
      /\ \A f \in PinFields : rows[i].pin[f] # rows[i - 1].pin[c[2]]
  BY <1>1 DEF ReleasedByKill
<1>4. v \in players /\ v = rows[i - 1].pin[c[2]]
  <2>1. EndedBy(chase, p, c, clear)
    BY <1>2, <1>3 DEF EndedBy
  <2>2. Matched(chase, p, c, clear)
    BY <2>1, StartsAreGrips
  <2> QED BY <2>2 DEF Matched
<1>5. i \in 2..Len(rows) /\ c[2] \in PinFields
  BY DEF Releases, Changes
<1>6. <<i, v>> \in LetGo(rows, players)
  <2>1. Holds(rows[i - 1], v) /\ ~Holds(rows[i], v)
    BY <1>3, <1>4, <1>5 DEF Holds
  <2> HIDE DEF i, v
  <2> QED BY <1>4, <1>5, <2>1 DEF LetGo
<1>7. EndedBy(chase, p, c, clear)
  BY <1>2, <1>3 DEF EndedBy
<1> QED BY <1>2, <1>3, <1>6, <1>7

\* The clears of a chase are its kills.
LEMMA ClearsOfChase ==
  ASSUME NEW Body, NEW chase, Chase(chase, Body)
  PROVE  ClearsAreKillsIn(chase)
<1> DEFINE all == Timeline(chase)
           players == DOMAIN chase.rows
           stats == ClearStats(all)
           kills == UNION {Kills(chase, p) : p \in players}
           Kill(p, i, v) ==
              [tick |-> chase.rows[p][i].tick, clearer |-> Killer(chase, p, chase.rows[p][i].tick),
               victim |-> v,
               response |-> chase.rows[p][i].tick
                              - chase.rows[p][Max(Grips(chase.rows[p], v, i))].tick]
           Stat(c) == [tick |-> c.tick, clearer |-> c.actor, victim |-> c.victim,
                       response |-> Response(all, c)]
<1>1. ASSUME NEW p \in players, NEW i, NEW v, <<i, v>> \in LetGo(chase.rows[p], players),
             Grips(chase.rows[p], v, i) # {}, Killings(chase, p, chase.rows[p][i].tick) # {}
      PROVE  Kill(p, i, v) \in kills
  <2> DEFINE k == <<i, v>>
  <2>1. k[1] = i /\ k[2] = v
    OBVIOUS
  <2> HIDE DEF k
  <2>2. k \in {x \in LetGo(chase.rows[p], players) :
                  /\ Grips(chase.rows[p], x[2], x[1]) # {}
                  /\ Killings(chase, p, chase.rows[p][x[1]].tick) # {}}
    BY <1>1, <2>1 DEF k
  <2>3. Kill(p, k[1], k[2]) \in Kills(chase, p)
    BY <2>2, Zenon DEF Kills
  <2> QED BY <2>1, <2>3
<1>2. ASSUME NEW c \in OfType(all, "clear"), StartsOf(all, c) # {}
      PROVE  \E p \in players : \E i, v :
                /\ Kill(p, i, v) \in kills
                /\ c.tick = chase.rows[p][i].tick /\ c.victim = v
                /\ c.actor = Killer(chase, p, chase.rows[p][i].tick)
                /\ Plain(chase) => Stat(c) = Kill(p, i, v)
  <2>1. PICK p \in players : c \in Clears(chase, p)
    BY TimelineOf
  <2> DEFINE rows == chase.rows[p]
  <2>2. PICK r \in Releases(rows) :
           /\ EndedBy(chase, p, r, c) /\ c.actor = Killer(chase, p, rows[r[1]].tick)
           /\ Killings(chase, p, rows[r[1]].tick) # {}
           /\ <<r[1], Freed(chase, p, r)>> \in LetGo(rows, players)
    BY <2>1, ClearsOfPlayer
  <2> DEFINE i == r[1]
             v == Freed(chase, p, r)
  <2>3. Grips(rows, v, i) # {}
    <3>1. Matched(chase, p, r, c)
      BY <2>2, StartsAreGrips
    <3>2. \A s \in StartsOf(all, c) : \E j \in Grips(rows, v, i) : s.tick = rows[j].tick
      BY <3>1 DEF Matched
    <3> QED BY <1>2, <3>2
  <2>4. Kill(p, i, v) \in kills
    BY <1>1, <2>2, <2>3
  <2>5. ASSUME Plain(chase) PROVE Stat(c) = Kill(p, i, v)
    <3>1. Measured(chase, p, r, c)
      BY <2>2, <2>5, ResponseSinceGrip
    <3>2. Response(all, c) = rows[i].tick - rows[Max(Grips(rows, v, i))].tick
      BY <2>3, <3>1 DEF Measured
    <3> QED BY <2>2, <3>2 DEF EndedBy
  <2>6. c.tick = rows[i].tick /\ c.victim = v
    BY <2>2 DEF EndedBy
  <2> HIDE DEF Kill, Stat, kills
  <2> QED BY <2>2, <2>4, <2>5, <2>6
<1>3. {Who(s) : s \in stats} \subseteq {Who(k) : k \in kills}
  <2> SUFFICES ASSUME NEW s \in stats PROVE \E k \in kills : Who(s) = Who(k)
    OBVIOUS
  <2>1. PICK c \in OfType(all, "clear") : StartsOf(all, c) # {} /\ s = Stat(c)
    BY Zenon DEF ClearStats
  <2>2. PICK p \in players : \E i, v :
           /\ Kill(p, i, v) \in kills
           /\ c.tick = chase.rows[p][i].tick /\ c.victim = v
           /\ c.actor = Killer(chase, p, chase.rows[p][i].tick)
    BY <1>2, <2>1
  <2>3. PICK i, v :
           /\ Kill(p, i, v) \in kills
           /\ c.tick = chase.rows[p][i].tick /\ c.victim = v
           /\ c.actor = Killer(chase, p, chase.rows[p][i].tick)
    BY <2>2
  <2>4. Who(s) = Who(Kill(p, i, v))
    BY <2>1, <2>3 DEF Who
  <2> QED BY <2>3, <2>4
<1>4. ASSUME Plain(chase), NEW s \in stats PROVE s \in kills
  <2>1. PICK c \in OfType(all, "clear") : StartsOf(all, c) # {} /\ s = Stat(c)
    BY Zenon DEF ClearStats
  <2> HIDE DEF Stat, Kill, kills
  <2> QED BY <1>2, <1>4, <2>1
<1>5. ASSUME Plain(chase), NEW k \in kills PROVE k \in stats
  <2>1. PICK p \in players : k \in Kills(chase, p)
    OBVIOUS
  <2> DEFINE rows == chase.rows[p]
  <2>2. PICK x \in LetGo(rows, players) :
           /\ Grips(rows, x[2], x[1]) # {} /\ Killings(chase, p, rows[x[1]].tick) # {}
           /\ k = Kill(p, x[1], x[2])
    BY <2>1, Zenon DEF Kills
  <2> DEFINE i == x[1]
             v == x[2]
             n == Len(rows)
  <2>3. /\ i \in 2..n /\ v \in players /\ Holds(rows[i - 1], v) /\ ~Holds(rows[i], v)
    BY DEF LetGo
  <2>4. PICK f \in PinFields : rows[i - 1].pin[f] = v
    BY <2>3 DEF Holds
  <2>5. v # Nobody /\ \A g \in PinFields : rows[i].pin[g] # v
    BY <2>3 DEF Chase, Holds
  <2> DEFINE c == <<i, f>>
  <2>6. c[1] = i /\ c[2] = f
    OBVIOUS
  <2> HIDE DEF c
  <2>7. c \in Changes(rows)
    BY <2>3, <2>4, <2>5 DEF Changes, c
  <2>8. rows[i].pin[f] = Nobody
    <3>1. Nobody \in {rows[c[1] - 1].pin[c[2]], rows[c[1]].pin[c[2]]}
      BY <1>5, <2>7 DEF Plain
    <3> QED BY <2>4, <2>5, <2>6, <3>1
  <2>9. c \in Releases(rows)
    BY <2>6, <2>7, <2>8 DEF Releases
  <2>10. Freed(chase, p, c) = v
    <3>1. Len(chase.rows[v]) = n /\ chase.rows[p] \in Seq(Body) /\ chase.rows[v] \in Seq(Body)
      BY <1>5, <2>3 DEF Plain, Chase
    <3>2. i - 1 \in DOMAIN chase.rows[p] /\ i - 1 \in DOMAIN chase.rows[v]
      BY <2>3, <3>1
    <3>3. chase.rows[v][i - 1].tick = rows[i - 1].tick
      BY <1>5, <2>3, <3>2 DEF Plain
    <3>4. At(chase, v, rows[i - 1].tick)
      BY <3>2, <3>3 DEF At
    <3> QED BY <2>4, <2>5, <2>6, <3>4 DEF Freed, Named
  <2> DEFINE clear == Event("clear", rows[i], Killer(chase, p, rows[i].tick), v, f)
  <2>11. clear \in Clears(chase, p)
    <3>1. ReleasedByKill(chase, p, c)
      BY <2>2, <2>4, <2>5, <2>6, <2>10 DEF ReleasedByKill
    <3>2. clear = Event("clear", rows[c[1]], Killer(chase, p, rows[c[1]].tick),
                        Freed(chase, p, c), c[2])
      BY <2>6, <2>10
    <3> HIDE DEF clear
    <3> QED BY <2>9, <3>1, <3>2, Zenon DEF Clears
  <2>12. clear.tick = rows[i].tick /\ clear.class = rows[i].class /\ clear.victim = v
         /\ clear.actor = Killer(chase, p, rows[i].tick)
    BY DEF Event
  <2>13. clear \in OfType(all, "clear")
    BY <2>11, TimelineOf
  <2> HIDE DEF clear
  <2>14. StartsOf(all, clear) # {}
         /\ Response(all, clear) = rows[i].tick - rows[Max(Grips(rows, v, i))].tick
    <3>1. EndedBy(chase, p, c, clear)
      BY <2>5, <2>6, <2>9, <2>10, <2>12 DEF EndedBy
    <3>2. Measured(chase, p, c, clear)
      BY <1>5, <3>1, ResponseSinceGrip
    <3>3. /\ StartsOf(all, clear) # {} <=> Grips(rows, v, i) # {}
          /\ Grips(rows, v, i) # {} =>
                Response(all, clear) = rows[i].tick - rows[Max(Grips(rows, v, i))].tick
      BY <2>6, <2>10, <3>2 DEF Measured
    <3> QED BY <2>2, <3>3
  <2>15. Stat(clear) = k
    BY <2>2, <2>12, <2>14
  <2> QED BY <2>13, <2>14, <2>15, Zenon DEF ClearStats
<1> QED BY <1>3, <1>4, <1>5, Zenon DEF ClearsAreKillsIn

-----------------------------------------------------------------------------
(* The properties of recordings *)

\* What is recorded of a chase, of the lives of finitely many players in the order
\* of snapshots, or of the health of a survivor.
WellRecorded(Body) ==
    /\ recording.tick \in Nat
    /\ recording.kind = "chase" => Chase(recording, Body)
    /\ recording.kind = "walk" =>
          /\ IsFiniteSet(DOMAIN recording.rows)
          /\ \A p \in DOMAIN recording.rows :
                recording.rows[p] \in Seq(Body) /\ Ticking(recording.rows[p])
    /\ recording.kind = "wound" => recording.samples \in Samples

\* The lives of a recording are the longest stretches of rows, its hits are apart,
\* and what is lost in one is a fall between two samples: HitsAreApart, for every
\* recording and every gap.
THEOREM RecordedHitsAreApart ==
  ASSUME NEW Body, WellRecorded(Body)
  PROVE  HitsAreApart
<1>1. CASE recording.kind = "walk"
  <2>1. ASSUME NEW p \in DOMAIN recording.rows
        PROVE  LivesAreWhole(recording.rows[p], recording.deaths)
    <3>1. recording.rows[p] \in Seq(Body)
      BY <1>1 DEF WellRecorded
    <3> QED BY <3>1, WholeLives
  <2>2. HitsAreApartIn(OrdinaryLives(recording))
    <3>1. /\ IsFiniteSet(DOMAIN recording.rows)
          /\ \A p \in DOMAIN recording.rows :
                recording.rows[p] \in Seq(Body) /\ Ticking(recording.rows[p])
      BY <1>1 DEF WellRecorded
    <3>2. InOrder(OrdinaryLives(recording)) /\ \E L : OrdinaryLives(recording) \in Seq(L)
      BY <3>1, OrdinaryLivesInOrder
    <3> QED BY <3>2, HitsStandApart
  <2> QED BY <1>1, <2>1, <2>2 DEF HitsAreApart
<1>2. CASE recording.kind = "wound"
  <2>1. recording.samples \in Samples
    BY <1>2 DEF WellRecorded
  <2>2. LossIsOneFallIn(recording.samples)
    BY <2>1, OneFall
  <2> QED BY <1>2, <2>2 DEF HitsAreApart
<1>3. CASE recording.kind \notin {"walk", "wound"}
  BY <1>3 DEF HitsAreApart
<1> QED BY <1>1, <1>2, <1>3

\* The halves of a recording divide its ticks, and one that is looked at alone says
\* what the rows of its ticks said and has no clear of its own: HalvesAgree, for
\* every recording and wherever the halves turn.
THEOREM RecordedHalvesAgree ==
  ASSUME NEW Body, WellRecorded(Body), MatchStates \subseteq States
  PROVE  HalvesAgree
<1> DEFINE points == IF recording.kind = "wound" THEN HealthTrace(recording.samples) ELSE <<>>
           events == IF recording.kind = "chase" THEN Timeline(recording) ELSE {}
           clears == ClearStats(events)
<1>1. recording.tick \in Nat
  BY DEF WellRecorded
<1>2. ASSUME NEW states \in MatchStates
      PROVE  LET ranges == HalfRanges(states, recording.tick)
             IN  /\ HalvesPartition(ranges, recording.tick)
                 /\ \A k \in DOMAIN ranges :
                       /\ points # <<>> => TraceAgrees(points, recording.samples, ranges[k])
                       /\ ClearsAgree(events, clears, ranges[k])
  <2> DEFINE ranges == HalfRanges(states, recording.tick)
  <2>1. states \in States
    OBVIOUS
  <2>2. HalvesPartition(ranges, recording.tick)
    BY <1>1, <2>1, HalvesArePartition
  <2> HIDE DEF points, events
  <2>3. ASSUME NEW k \in DOMAIN ranges PROVE ClearsAgree(events, clears, ranges[k])
    BY HalvesAddNoClear
  <2>4. ASSUME NEW k \in DOMAIN ranges, points # <<>>
        PROVE  TraceAgrees(points, recording.samples, ranges[k])
    <3>1. recording.kind = "wound" /\ points = HealthTrace(recording.samples)
      BY <2>4 DEF points
    <3>2. recording.samples \in Samples
      BY <3>1 DEF WellRecorded
    <3>3. ranges[k].start \in Int /\ ranges[k].end \in Int
      BY <1>1, <2>1, RangesAreTyped
    <3> QED BY <3>1, <3>2, <3>3, TraceIsFaithful
  <2> QED BY <2>2, <2>3, <2>4
<1> QED BY <1>2, Zenon DEF HalvesAgree

\* Every clear that is counted is a victim let go by a pinner killed around that
\* row, and with everybody in sight none is missed: ClearsAreKills, for every chase.
THEOREM RecordedClearsAreKills ==
  ASSUME NEW Body, WellRecorded(Body)
  PROVE  ClearsAreKills
BY ClearsOfChase DEF WellRecorded, ClearsAreKills

-----------------------------------------------------------------------------
(* The process of the parser *)

\* The exit is that of the leader.
ExitInv ==
    /\ code # "none" => Leader \notin alive
    /\ exitSeen => code # "none"

\* A local promise settles on the exit only; a settled one has no timers but the
\* forced kill that an output limit sets.
SettledInv ==
    /\ outcome \notin {"none", "down"} => host = "hosted" \/ code # "none"
    /\ outcome # "none" => timers \subseteq (IF terminal = "output" THEN {"forceKill"} ELSE {})

\* Whoever was given up was told so.
SignalInv ==
    terminal # NoReason => alive \subseteq doomed \cup (IF host = "local" THEN deaf ELSE {})

\* What was received without being given up is within the limit.
LimitInv == terminal = NoReason => Received <= Limit

ChildInv == ParserTypeOK /\ ExitInv /\ SettledInv /\ SignalInv /\ LimitInv /\ ResultIsWhole

-----------------------------------------------------------------------------
(* Numbers *)

\* A non-empty set of natural numbers has a least element, which Min chooses.
LEMMA MinIn == ASSUME NEW S \in SUBSET Nat, S # {} PROVE Min(S) \in S
<1> DEFINE R == OpToRel(<, Nat)
<1>1. \A y, x \in Nat : y < x => <<y, x>> \in R
  BY DEF OpToRel
<1>2. PICK x \in S : \A y \in S : ~ (<<y, x>> \in R)
  BY NatLessThanWellFounded, WFMin
<1> HIDE DEF R
<1>3. ASSUME NEW y \in S PROVE x <= y
  <2>1. y \in Nat /\ x \in Nat
    OBVIOUS
  <2>2. ~ (<<y, x>> \in R)
    BY <1>2
  <2>3. ~(y < x)
    BY <1>1, <2>1, <2>2
  <2> QED BY <2>1, <2>3
<1> QED BY <1>3 DEF Min

LEMMA ReportsAreThousandths ==
  Len(Reports) = 7 /\ \A i \in 1 .. 7 : Reports[i] \in 0 .. 960
BY DEF Reports

\* The progress and its ceiling after the next line.
LEMMA ProgressIsBounded ==
  ASSUME lines + 1 \in 1 .. 7, reported \in 200 .. 900
  PROVE  /\ Max({reported, Scaled(Reports[lines + 1])}) \in 200 .. 900
         /\ Min({900, Scaled(NextMilestone(Reports[lines + 1])) - 5}) \in 200 .. 900
<1> DEFINE n == Reports[lines + 1]
           m == NextMilestone(n)
<1>1. n \in 0 .. 960
  BY ReportsAreThousandths
<1> HIDE DEF n
<1>2. Scaled(n) \in 200 .. 900
  BY <1>1 DEF Scaled
<1>3. m \in 140 .. 1000
  <2> DEFINE ahead == {k \in Milestones : k > n}
  <2>1. 1000 \in ahead /\ ahead \subseteq 140 .. 1000
    BY <1>1 DEF Milestones
  <2>2. Min(ahead) = NextMilestone(n)
    BY DEF NextMilestone
  <2> HIDE DEF ahead
  <2>3. \A k \in ahead : k \in 140 .. 1000 /\ k \in Nat
    BY <2>1
  <2>4. Min(ahead) \in ahead
    BY <2>1, <2>3, MinIn
  <2> QED BY <2>2, <2>3, <2>4
<1> HIDE DEF m
<1>4. Scaled(m) - 5 \in 293 .. 895
  <2>1. PICK q \in 98 .. 700 : q = (7 * m) \div 10
    BY <1>3
  <2>2. Scaled(m) = 200 + q
    BY <2>1 DEF Scaled
  <2>3. 200 + q - 5 \in 293 .. 895
    OBVIOUS
  <2> QED BY <2>2, <2>3
<1> DEFINE r == reported
           x == Scaled(n)
           y == Scaled(m) - 5
<1>5. r \in 200 .. 900 /\ x \in 200 .. 900 /\ y \in 293 .. 895
  BY <1>2, <1>4
<1> HIDE DEF r, x, y
<1>6. Max({r, x}) \in 200 .. 900
  BY <1>5 DEF Max
<1>7. Min({900, y}) \in 200 .. 900
  BY <1>5 DEF Min
<1> QED BY <1>6, <1>7 DEF n, m, r, x, y

LEMMA BeatIsBounded ==
  ASSUME reported \in 200 .. 900, ceiling \in 200 .. 900
  PROVE  Beat \in 200 .. 900
<1>1. PICK r \in 200 .. 900 : r = reported
  OBVIOUS
<1>2. PICK c \in 200 .. 900 : c = ceiling
  OBVIOUS
<1>3. PICK x \in Int : x = r + 8
  OBVIOUS
<1>4. Min({c, x}) = IF c <= x THEN c ELSE x
  BY DEF Min
<1> QED BY <1>1, <1>2, <1>3, <1>4 DEF Beat

-----------------------------------------------------------------------------
(* Types *)

LEMMA InitIsKept == ParserInit => ChildInv
<1> SUFFICES ASSUME ParserInit PROVE ChildInv
  OBVIOUS
<1>1. ParserTypeOK
  <2>1. size \in 1 .. MaxChunks /\ 0 \in 0 .. size /\ 0 \in 0 .. Len(Reports)
    BY ReportsAreThousandths, ParserAssumption DEF ParserInit
  <2>2. /\ host \in {"local", "hosted"} /\ deaf \subseteq Processes
        /\ doomed \subseteq alive /\ alive \subseteq Processes
        /\ code \in {"none", "unspawned"} /\ exitSeen \in BOOLEAN
    BY DEF ParserInit, Processes
  <2>3. /\ reported = 200 /\ ceiling = 223 /\ terminal = NoReason /\ outcome = "none"
        /\ timers \subseteq {"timeout", "cancellation", "heartbeat"} /\ cancelled = FALSE
        /\ written = 0 /\ got = 0 /\ phase = 0 /\ lines = 0
    BY DEF ParserInit
  <2>4. /\ written \in 0 .. size /\ got \in 0 .. written
        /\ phase \in 0 .. Len(Reports) /\ lines \in 0 .. phase
    BY <2>1, <2>3
  <2>5. reported \in 200 .. 900 /\ ceiling \in 200 .. 900
    BY <2>3
  <2> QED BY <2>1, <2>2, <2>3, <2>4, <2>5 DEF ParserTypeOK
<1>2. ExitInv /\ SettledInv /\ SignalInv /\ ResultIsWhole
  BY DEF ParserInit, ExitInv, SettledInv, SignalInv, ResultIsWhole
<1>3. LimitInv
  BY ParserAssumption DEF ParserInit, LimitInv, Received, Limit
<1> QED BY <1>1, <1>2, <1>3 DEF ChildInv

Reason == {"timeout", "cancelled", "output"}
Outcome == {"none", "down", "value", "timeout", "cancelled", "output",
            "unspawned", "status", "invalid", "unattested"}
Timer == {"timeout", "cancellation", "heartbeat", "forceKill"}

LEMMA TerminateIsTyped ==
  ASSUME ParserTypeOK, NEW reason \in Reason, Terminate(reason), alive' = alive
  PROVE  /\ doomed' \subseteq alive' /\ timers' \subseteq Timer
         /\ terminal' \in Reason /\ outcome' \in Outcome
<1>1. /\ doomed \subseteq alive /\ timers \subseteq Timer
      /\ terminal \in Reason \cup {NoReason} /\ outcome \in Outcome
  BY DEF ParserTypeOK, Reason, Outcome, Timer
<1>2. CASE host = "hosted"
  <2>1. /\ Signal("KILL") /\ Finish(reason)
        /\ terminal' = IF terminal = NoReason THEN reason ELSE terminal
    BY <1>2 DEF Terminate
  <2>2. outcome' \in Outcome /\ timers' \subseteq Timer
    BY <1>1, <2>1 DEF Finish, Reason, Outcome
  <2> QED BY <1>1, <2>1, <2>2 DEF Signal
<1>3. CASE host # "hosted" /\ terminal = NoReason
  BY <1>1, <1>3 DEF Terminate, Signal, Timer
<1>4. CASE host # "hosted" /\ terminal # NoReason
  BY <1>1, <1>4 DEF Terminate
<1> QED BY <1>2, <1>3, <1>4

LEMMA ParserIsTyped ==
  ASSUME ParserTypeOK,
         (\E p \in Processes : Fork(p) \/ Die(p)) \/ Report \/ Write \/ Cancel
  PROVE  ParserTypeOK'
<1>1. ASSUME NEW p \in Processes, Fork(p) PROVE ParserTypeOK'
  BY <1>1 DEF Fork, ParserTypeOK, caller
<1>2. ASSUME NEW p \in Processes, Die(p) PROVE ParserTypeOK'
  BY <1>2 DEF Die, ParserTypeOK, caller
<1>3. CASE Report
  BY <1>3, ReportsAreThousandths DEF Report, ParserTypeOK, caller
<1>4. CASE Write
  BY <1>4, ParserAssumption DEF Write, ParserTypeOK, caller
<1>5. CASE Cancel
  BY <1>5 DEF Cancel, ParserTypeOK, caller, processGroup
<1> QED BY <1>1, <1>2, <1>3, <1>4, <1>5

LEMMA CallbacksAreTyped ==
  ASSUME ParserTypeOK, Callbacks
  PROVE  ParserTypeOK'
<1>1. CASE TimeoutFires
  BY <1>1, TerminateIsTyped DEF TimeoutFires, ParserTypeOK, Reason, Outcome, Timer
<1>2. CASE CancellationFires
  BY <1>2, TerminateIsTyped DEF CancellationFires, ParserTypeOK, Reason, Outcome, Timer
<1>3. CASE ForceKillFires
  BY <1>3 DEF ForceKillFires, Signal, ParserTypeOK
<1>4. CASE HeartbeatFires
  <2>1. Beat \in 200 .. 900
    BY <1>4, BeatIsBounded DEF HeartbeatFires, ParserTypeOK
  <2>2. reported' \in 200 .. 900
    <3>1. reported' = Beat \/ reported' = reported
      BY <1>4 DEF HeartbeatFires
    <3>2. reported \in 200 .. 900
      BY DEF ParserTypeOK
    <3>3. CASE reported' = Beat
      BY <2>1, <3>3, Zenon
    <3>4. CASE reported' = reported
      BY <3>2, <3>4, Zenon
    <3> QED BY <3>1, <3>3, <3>4
  <2>3. timers' \subseteq Timer /\ outcome' \in Outcome
    BY <1>4 DEF HeartbeatFires, ParserTypeOK, Timer, Outcome
  <2> QED BY <1>4, <2>2, <2>3 DEF HeartbeatFires, ParserTypeOK, processGroup, Timer, Outcome
<1>5. CASE StdoutData
  <2>1. got' \in 0 .. written' /\ written' = written /\ size' = size /\ alive' = alive
    BY <1>5, ParserAssumption DEF StdoutData, ParserTypeOK
  <2>2. CASE Terminate("output")
    BY <1>5, <2>1, <2>2, TerminateIsTyped DEF StdoutData, ParserTypeOK, Reason, Outcome, Timer
  <2>3. CASE UNCHANGED <<doomed, terminal, outcome, timers>>
    BY <1>5, <2>1, <2>3 DEF StdoutData, ParserTypeOK
  <2> QED BY <1>5, <2>2, <2>3 DEF StdoutData
<1>6. CASE StderrData
  <2>1. lines' \in 0 .. phase' /\ phase' = phase /\ alive' = alive /\ lines + 1 \in 1 .. 7
    BY <1>6, ReportsAreThousandths DEF StderrData, ParserTypeOK
  <2>2. reported' \in 200 .. 900 /\ ceiling' \in 200 .. 900
    <3>1. /\ Max({reported, Scaled(Reports[lines + 1])}) \in 200 .. 900
          /\ Min({900, Scaled(NextMilestone(Reports[lines + 1])) - 5}) \in 200 .. 900
      BY <2>1, ProgressIsBounded DEF ParserTypeOK
    <3>2. reported \in 200 .. 900 /\ ceiling \in 200 .. 900
      BY DEF ParserTypeOK
    <3> QED BY <1>6, <3>1, <3>2 DEF StderrData
  <2>3. CASE Terminate("output")
    <3>1. "output" \in Reason
      BY DEF Reason
    <3>2. /\ doomed' \subseteq alive' /\ timers' \subseteq Timer
          /\ terminal' \in Reason /\ outcome' \in Outcome
      BY <2>1, <2>3, <3>1, TerminateIsTyped
    <3>3. UNCHANGED <<host, deaf, alive, code, size, written, phase, exitSeen, got, cancelled>>
      BY <1>6 DEF StderrData
    <3> QED BY <2>1, <2>2, <3>2, <3>3 DEF ParserTypeOK, Reason, Outcome, Timer
  <2>4. CASE UNCHANGED <<doomed, terminal, outcome, timers>>
    <3>1. UNCHANGED <<host, deaf, alive, code, size, written, phase, exitSeen, got, cancelled>>
      BY <1>6 DEF StderrData
    <3> QED BY <2>1, <2>2, <2>4, <3>1 DEF ParserTypeOK
  <2> QED BY <1>6, <2>3, <2>4 DEF StderrData
<1>7. CASE SpawnError
  BY <1>7 DEF SpawnError, Finish, ParserTypeOK, processGroup
<1>8. CASE Exit
  <2>1. Verdict \in Outcome
    BY <1>8 DEF Verdict, ParserTypeOK, Outcome
  <2>2. outcome' \in Outcome /\ timers' \subseteq Timer
    BY <1>8, <2>1 DEF Exit, Finish, ParserTypeOK, Outcome, Timer
  <2> QED BY <1>8, <2>2 DEF Exit, ParserTypeOK, processGroup, Outcome, Timer
<1> QED BY <1>1, <1>2, <1>3, <1>4, <1>5, <1>6, <1>7, <1>8 DEF Callbacks

LEMMA StepIsTyped == ParserTypeOK /\ [ParserNext]_parserVars => ParserTypeOK'
<1> SUFFICES ASSUME ParserTypeOK, [ParserNext]_parserVars PROVE ParserTypeOK'
  OBVIOUS
<1>1. CASE UNCHANGED parserVars
  BY <1>1 DEF parserVars, processGroup, caller, ParserTypeOK
<1> QED BY <1>1, ParserIsTyped, CallbacksAreTyped DEF ParserNext

-----------------------------------------------------------------------------
(* The other parts of the invariant *)

\* What giving a parser up does to them: it is told, whether or not the promise
\* was settled before.
LEMMA TerminateKeeps ==
  ASSUME ChildInv, NEW reason \in Reason, Terminate(reason), Up,
         outcome # "none" => reason = "output",
         alive' = alive, host' = host, deaf' = deaf, code' = code
  PROVE  SettledInv' /\ SignalInv' /\ terminal' # NoReason
<1>1. alive \subseteq Processes /\ host \in {"local", "hosted"} /\ NoReason \notin Reason
  BY ParserAssumption DEF ChildInv, ParserTypeOK, Reason
<1>2. CASE host = "hosted"
  <2>1. /\ Signal("KILL") /\ Finish(reason)
        /\ terminal' = IF terminal = NoReason THEN reason ELSE terminal
    BY <1>2 DEF Terminate
  <2>2. SignalInv'
    BY <1>2, <2>1 DEF Signal, SignalInv
  <2>3. terminal' # NoReason
    BY <1>1, <2>1
  <2>4. SettledInv'
    BY <1>1, <1>2, <2>1 DEF Finish, ChildInv, SettledInv, Up
  <2> QED BY <2>2, <2>3, <2>4
<1>3. CASE host = "local" /\ terminal = NoReason
  <2>1. Signal("TERM") /\ timers' = {"forceKill"} /\ outcome' = outcome /\ terminal' = reason
    BY <1>3 DEF Terminate
  <2>2. SignalInv'
    BY <1>3, <2>1 DEF Signal, SignalInv
  <2>3. SettledInv'
    BY <1>3, <2>1 DEF ChildInv, SettledInv
  <2> QED BY <1>1, <2>1, <2>2, <2>3
<1>4. CASE host = "local" /\ terminal # NoReason
  BY <1>4 DEF Terminate, ChildInv, SettledInv, SignalInv
<1> QED BY <1>1, <1>2, <1>3, <1>4

\* The leader ends once, and its exit is reported after that.
LEMMA ExitIsKept == ChildInv /\ [ParserNext]_parserVars => ExitInv'
<1> SUFFICES ASSUME ChildInv, [ParserNext]_parserVars PROVE ExitInv'
  OBVIOUS
<1>1. ASSUME NEW p \in Processes, Fork(p) PROVE ExitInv'
  BY <1>1, ParserAssumption DEF Fork, Running, ChildInv, ExitInv, caller
<1>2. ASSUME NEW p \in Processes, Die(p) PROVE ExitInv'
  BY <1>2 DEF Die, ChildInv, ExitInv, caller
<1>3. ASSUME alive' = alive, code' = code, exitSeen' = exitSeen PROVE ExitInv'
  BY <1>3 DEF ChildInv, ExitInv
<1>4. CASE SpawnError \/ Exit
  BY <1>4 DEF SpawnError, Exit, ChildInv, ExitInv, processGroup
<1> QED
  BY <1>1, <1>2, <1>3, <1>4
     DEF ParserNext, Callbacks, parserVars, processGroup, caller, Report, Write, Cancel, TimeoutFires,
         CancellationFires, ForceKillFires, HeartbeatFires, StdoutData, StderrData

\* A step that settles nothing and gives nobody up.
LEMMA OthersKeep ==
  ASSUME ChildInv, UNCHANGED <<host, deaf, terminal, outcome, timers>>,
         code # "none" => code' # "none",
         alive' \ doomed' \subseteq alive \ doomed \/ terminal = NoReason
  PROVE  SettledInv' /\ SignalInv'
BY DEF ChildInv, SettledInv, SignalInv

LEMMA SettlementIsKept == ChildInv /\ [ParserNext]_parserVars => SettledInv' /\ SignalInv'
<1> SUFFICES ASSUME ChildInv, [ParserNext]_parserVars PROVE SettledInv' /\ SignalInv'
  OBVIOUS
<1>1. ASSUME NEW p \in Processes, Fork(p) PROVE SettledInv' /\ SignalInv'
  BY <1>1, OthersKeep DEF Fork, caller
<1>2. ASSUME NEW p \in Processes, Die(p) PROVE SettledInv' /\ SignalInv'
  <2>1. code # "none" => code' # "none"
    BY <1>2 DEF Die
  <2>2. alive' \ doomed' \subseteq alive \ doomed
    BY <1>2 DEF Die
  <2> QED BY <1>2, <2>1, <2>2, OthersKeep DEF Die, caller
<1>3. CASE Report \/ Write \/ Cancel
  BY <1>3, OthersKeep DEF Report, Write, Cancel, caller, processGroup
<1>4. CASE TimeoutFires
  <2>1. outcome = "none"
    BY <1>4 DEF TimeoutFires, ChildInv, SettledInv
  <2> QED BY <1>4, <2>1, TerminateKeeps DEF TimeoutFires, Reason
<1>5. CASE CancellationFires
  <2>1. outcome = "none"
    BY <1>5 DEF CancellationFires, ChildInv, SettledInv
  <2> QED BY <1>5, <2>1, TerminateKeeps DEF CancellationFires, Reason
<1>6. CASE ForceKillFires
  <2>1. /\ Signal("KILL") /\ timers' \subseteq timers
        /\ UNCHANGED <<host, deaf, alive, code, terminal, outcome>>
    BY <1>6 DEF ForceKillFires
  <2> QED BY <2>1 DEF Signal, ChildInv, SettledInv, SignalInv
<1>7. CASE HeartbeatFires
  <2>1. CASE cancelled
    BY <1>7, <2>1 DEF HeartbeatFires, ChildInv, SettledInv, SignalInv, processGroup
  <2>2. CASE ~cancelled
    BY <1>7, <2>2, OthersKeep DEF HeartbeatFires, processGroup
  <2> QED BY <2>1, <2>2
<1>8. CASE StdoutData
  <2>1. CASE Terminate("output")
    BY <1>8, <2>1, TerminateKeeps DEF StdoutData, Flowing, Reason
  <2>2. CASE UNCHANGED <<doomed, terminal, outcome, timers>>
    BY <1>8, <2>2, OthersKeep DEF StdoutData
  <2> QED BY <1>8, <2>1, <2>2 DEF StdoutData
<1>9. CASE StderrData
  <2>1. CASE Terminate("output")
    BY <1>9, <2>1, TerminateKeeps DEF StderrData, Flowing, Reason
  <2>2. CASE UNCHANGED <<doomed, terminal, outcome, timers>>
    BY <1>9, <2>2, OthersKeep DEF StderrData
  <2> QED BY <1>9, <2>1, <2>2 DEF StderrData
<1>10. CASE SpawnError \/ Exit
  <2>1. code # "none" /\ UNCHANGED <<host, deaf, alive, doomed, code, terminal>>
    BY <1>10 DEF SpawnError, Exit, processGroup
  <2>2. (outcome' = outcome /\ timers' = timers) \/ timers' = {}
    BY <1>10 DEF SpawnError, Exit, Finish
  <2>3. outcome # "none" => outcome' = outcome /\ timers' = timers
    BY <1>10 DEF SpawnError, Exit, Finish
  <2> QED BY <2>1, <2>2, <2>3 DEF ChildInv, SettledInv, SignalInv
<1>11. CASE UNCHANGED parserVars
  BY <1>11, OthersKeep DEF parserVars, caller, processGroup
<1> QED
  BY <1>1, <1>2, <1>3, <1>4, <1>5, <1>6, <1>7, <1>8, <1>9, <1>10, <1>11 DEF ParserNext, Callbacks

\* Data over the limit gives the parser up.
LEMMA LimitIsKept == ChildInv /\ [ParserNext]_parserVars => LimitInv'
<1> SUFFICES ASSUME ChildInv, [ParserNext]_parserVars, terminal' = NoReason
             PROVE  (Received <= Limit)'
  BY DEF LimitInv
<1>1. got \in Nat /\ lines \in Nat /\ host \in {"local", "hosted"}
  BY ParserAssumption, ReportsAreThousandths DEF ChildInv, ParserTypeOK
<1>2. ASSUME terminal' = terminal, UNCHANGED <<host, got, lines>> PROVE (Received <= Limit)'
  BY <1>2 DEF ChildInv, LimitInv, Received, Limit
<1>3. CASE TimeoutFires \/ CancellationFires
  BY <1>3, ParserAssumption DEF TimeoutFires, CancellationFires, Terminate
<1>4. CASE StdoutData
  <2>1. CASE Received + 1 > Limit
    BY <1>4, <2>1, ParserAssumption DEF StdoutData, Terminate
  <2>2. CASE ~(Received + 1 > Limit)
    BY <1>1, <1>4, <2>2, ParserAssumption DEF StdoutData, Received, Limit
  <2> QED BY <2>1, <2>2
<1>5. CASE StderrData
  <2>1. CASE host = "local" /\ Received + 1 > Limit
    BY <1>5, <2>1, ParserAssumption DEF StderrData, Terminate
  <2>2. CASE host = "local" /\ ~(Received + 1 > Limit)
    BY <1>1, <1>5, <2>2, ParserAssumption DEF StderrData, Received, Limit
  <2>3. CASE host = "hosted"
    BY <1>5, <2>3 DEF StderrData, Received, Limit, ChildInv, LimitInv
  <2> QED BY <1>1, <2>1, <2>2, <2>3
<1> QED
  BY <1>2, <1>3, <1>4, <1>5
     DEF ParserNext, Callbacks, parserVars, processGroup, caller, Fork, Die, Report, Write, Cancel,
         ForceKillFires, HeartbeatFires, SpawnError, Exit

\* Only the exit hands a result on, and only a whole one.
LEMMA ExitIsWhole == ChildInv /\ Exit /\ outcome # "value" => ResultIsWhole'
<1> SUFFICES ASSUME ChildInv, Exit, outcome = "none", Verdict = "value", outcome' = "value"
             PROVE  ResultIsWhole'
  BY DEF Exit, Finish, ResultIsWhole
<1>1. terminal = NoReason /\ code = "ok" /\ ~(got < size)
  <2>1. terminal = NoReason
    BY DEF Verdict, ChildInv, ParserTypeOK
  <2>2. code \in {"ok", "unattested", "bad"}
    BY DEF Exit
  <2> QED BY <2>1, <2>2 DEF Verdict
<1>2. /\ got \in Nat /\ size \in Nat /\ lines \in Nat /\ got <= size
      /\ LocalLimit \in Nat /\ HostedLimit \in Nat
  BY ParserAssumption, ReportsAreThousandths DEF ChildInv, ParserTypeOK
<1>3. got <= Limit
  BY <1>1, <1>2 DEF ChildInv, LimitInv, Received, Limit
<1>4. UNCHANGED <<host, code, got, size, terminal>>
  BY DEF Exit, processGroup
<1> QED BY <1>1, <1>2, <1>3, <1>4, ParserAssumption DEF ResultIsWhole, Limit

\* A result that was handed on stays what it was: its parser has ended, all of it
\* is here, and no timer is left to give it up.
LEMMA HandedOnIsKept ==
  ChildInv /\ [ParserNext]_parserVars /\ ParserTypeOK' /\ outcome = "value" => ResultIsWhole'
<1> SUFFICES ASSUME ChildInv, [ParserNext]_parserVars, ParserTypeOK', outcome = "value"
             PROVE  ResultIsWhole'
  OBVIOUS
<1>1. /\ code = "ok" /\ got = size /\ got <= Limit
      /\ terminal \notin {"timeout", "cancelled"}
  BY DEF ChildInv, ResultIsWhole
<1>2. /\ Leader \notin alive /\ "timeout" \notin timers /\ "cancellation" \notin timers
      /\ "heartbeat" \notin timers
  BY <1>1 DEF ChildInv, ExitInv, SettledInv
<1>3. /\ got \in Nat /\ size \in Nat /\ written \in Nat /\ written <= size
  BY ParserAssumption DEF ChildInv, ParserTypeOK
<1>4. ASSUME UNCHANGED <<host, code, got, size>>, terminal' \in {terminal, "output"}
      PROVE  ResultIsWhole'
  BY <1>1, <1>4 DEF ResultIsWhole, Limit
<1>5. ASSUME NEW p \in Processes, Fork(p) PROVE ResultIsWhole'
  BY <1>4, <1>5 DEF Fork, caller
<1>6. ASSUME NEW p \in Processes, Die(p) PROVE ResultIsWhole'
  BY <1>2, <1>4, <1>6 DEF Die, caller
<1>7. CASE StderrData
  BY <1>4, <1>7 DEF StderrData, Terminate
<1>8. ~StdoutData
  BY <1>1, <1>3 DEF StdoutData
<1>9. CASE Report \/ Write \/ Cancel \/ ForceKillFires \/ SpawnError \/ Exit \/ UNCHANGED parserVars
  BY <1>4, <1>9
     DEF Report, Write, Cancel, ForceKillFires, SpawnError, Exit, parserVars, caller, processGroup
<1> QED
  BY <1>2, <1>5, <1>6, <1>7, <1>8, <1>9
     DEF ParserNext, Callbacks, TimeoutFires, CancellationFires, HeartbeatFires

LEMMA WholenessIsKept ==
  ChildInv /\ [ParserNext]_parserVars /\ ParserTypeOK' => ResultIsWhole'
<1> SUFFICES ASSUME ChildInv, [ParserNext]_parserVars, ParserTypeOK', outcome # "value",
                    outcome' = "value"
             PROVE  ResultIsWhole'
  BY HandedOnIsKept DEF ResultIsWhole
<1>1. ASSUME NEW reason \in Reason, Terminate(reason) PROVE FALSE
  BY <1>1 DEF Terminate, Finish, Reason
<1>2. ASSUME outcome' = outcome PROVE FALSE
  BY <1>2
<1>3. CASE Exit
  BY <1>3, ExitIsWhole
<1>4. CASE TimeoutFires \/ CancellationFires \/ StdoutData \/ StderrData
  BY <1>1, <1>2, <1>4 DEF TimeoutFires, CancellationFires, StdoutData, StderrData, Reason
<1>5. CASE HeartbeatFires \/ SpawnError
  BY <1>2, <1>5 DEF HeartbeatFires, SpawnError, Finish
<1> QED
  BY <1>2, <1>3, <1>4, <1>5
     DEF ParserNext, Callbacks, parserVars, caller, Fork, Die, Report, Write, Cancel, ForceKillFires

LEMMA StepIsKept == ChildInv /\ [ParserNext]_parserVars => ChildInv'
BY StepIsTyped, ExitIsKept, SettlementIsKept, LimitIsKept, WholenessIsKept DEF ChildInv

LEMMA ParserIsKept == ParserSpec => []ChildInv
<1> QED BY InitIsKept, StepIsKept, PTL DEF ParserSpec

-----------------------------------------------------------------------------

\* Every variable of the two callers' state stays in its range: among the rest,
\* the progress that is reported never leaves 200 .. 900 thousandths, whatever
\* lines and heartbeats come (engine.ts, hosted-main.ts).
THEOREM ParserTypeCorrect == ParserSpec => []ParserTypeOK
<1>1. ChildInv => ParserTypeOK
  BY DEF ChildInv
<1> QED BY <1>1, ParserIsKept, PTL

\* An analysis that is handed on was written to its end by a parser that ended
\* well, was received whole and within the limit, and no timer had given it up:
\* for any result, any limit, and whatever comes after the exit.
THEOREM WholeResults == ParserSpec => []ResultIsWhole
<1>1. ChildInv => ResultIsWhole
  BY DEF ChildInv
<1> QED BY <1>1, ParserIsKept, PTL

\* A settled promise has no timer but the forced kill that late data may set, and
\* of a parser that was given up nothing runs on but the helpers that ignore
\* SIGTERM while their leader did not: for any number of processes, whichever
\* ignore the signal (terminate and finish, engine.ts and hosted-main.ts).
THEOREM NothingLeft == ParserSpec => []NothingIsLeft
<1>1. ChildInv => NothingIsLeft
  <2> SUFFICES ASSUME ChildInv, outcome \notin {"none", "down"} PROVE NothingIsLeft
    BY DEF NothingIsLeft
  <2>1. timers \subseteq (IF terminal = "output" THEN {"forceKill"} ELSE {})
    BY DEF ChildInv, SettledInv
  <2>2. host = "local" => Leader \notin alive
    BY DEF ChildInv, SettledInv, ExitInv
  <2>3. ASSUME terminal # NoReason
        PROVE  alive \subseteq doomed \cup IF host = "local" THEN deaf \ {Leader} ELSE {}
    BY <2>2, <2>3 DEF ChildInv, SignalInv
  <2> QED BY <2>1, <2>3 DEF NothingIsLeft
<1> QED BY <1>1, ParserIsKept, PTL
=============================================================================
