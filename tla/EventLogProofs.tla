--------------------------- MODULE EventLogProofs ---------------------------
(***************************************************************************)
(* The event log, for any number of subscribers and sessions, any queue    *)
(* and page size and any scenario.  The inductive invariant has three      *)
(* layers.  FileInv is about the file and the daemon: what no writer may   *)
(* still take away (Settled), and where the synced part, the high-water    *)
(* mark, the frame in flight and the acknowledged frames lie in it.        *)
(* SubsInv adds the subscribers: Exact relates the snapshot, the replay,   *)
(* the queue and the frames received of one of them to the log.            *)
(* HearingInv adds the sessions: HearsAll relates the two entries of a     *)
(* session, and the copies that a notification pass took of them, to what  *)
(* was passed on.  Exact and HearsAll are stated of values, so that a      *)
(* lemma about them is a lemma about one reader, and the file may change   *)
(* beyond its settled part (KeepsPrefix) under either.                     *)
(***************************************************************************)
EXTENDS EventLog, TLAPS

-----------------------------------------------------------------------------
(* The log *)

TypeInv ==
    /\ limits \in Scenarios
    /\ events \in Nat /\ events <= limits.events
    /\ powers \in Nat /\ rollbacks \in Nat
    /\ log \in Seq(Frames) /\ Contiguous /\ Len(log) <= events
    /\ torn \in BOOLEAN
    /\ synced \in Nat
    /\ writing \in 1 .. MaxEvents \cup {None}
    /\ up \in BOOLEAN
    /\ high \in 0 .. MaxEvents /\ registry \in 0 .. MaxEvents
    /\ lane \in Frames \cup {None}
    /\ acked \subseteq Frames

\* Complete frames that no writer may still take away.
Settled == IF Unlocked THEN Len(log) ELSE Len(log) - 1

\* A frame in flight is the last of the log; what is acknowledged lies in the synced
\* part and below the high-water mark, which stays in the settled part.
LogInv ==
    /\ synced <= Settled
    /\ writing # None => up /\ lane = None
    /\ lane # None => up /\ log # <<>> /\ lane = log[Len(log)] /\ synced = Len(log)
    /\ lane # None => high < Len(log)
    /\ up => high <= Settled
    /\ ~up => high = 0
    /\ \A f \in acked : f.seq <= synced /\ log[f.seq] = f
    /\ up => \A f \in acked : f.seq <= high
    /\ Kept => registry <= Settled

-----------------------------------------------------------------------------
(* Streams *)

SubsType ==
    /\ stream \in [Clients -> 0 .. MaxEvents \cup {None}]
    /\ listed \subseteq {c \in Clients : stream[c] # None}
    /\ queue \in [Clients -> Seq(Frames)]
    /\ \A c \in Clients : Len(queue[c]) <= QueueCapacity
    /\ replay \in [Clients -> Seq(Frames) \cup {None}]
    /\ got \in [Clients -> Seq(Frames)]
    /\ \A c \in Clients : stream[c] # None => up

\* The end of a stream, and how far the log is known to subscribers.
LastSeq(g) == IF g = <<>> THEN 0 ELSE g[Len(g)].seq
Bound == IF up THEN high ELSE Len(log)

\* The state of one subscriber, for the log l known up to b and the acknowledged
\* frames ak: client c with the stream st (None or the snapshot), the list of the
\* daemon, its queue, its replay and what it got.
Exact(l, b, ak, st, c, ls, q, rp, g) ==
    /\ Increasing(g)
    /\ LastSeq(g) <= b
    /\ \A f \in ak : f.seq <= LastSeq(g) => \E i \in DOMAIN g : g[i] = f
    /\ st = None => q = <<>> /\ rp = None /\ c \notin ls
    /\ st # None =>
          /\ st <= b
          /\ Increasing(q)
          /\ \A i \in DOMAIN q : q[i] \in ak /\ q[i].seq > st
          /\ \A f \in ak : f.seq > st /\ f.seq > LastSeq(g) =>
                \/ \E i \in DOMAIN q : q[i] = f
                \/ c \notin ls /\ \A i \in DOMAIN q : f.seq > q[i].seq
          /\ rp = None => LastSeq(g) <= st
          /\ rp = <<>> => LastSeq(g) >= st /\ \A i \in DOMAIN q : q[i].seq > LastSeq(g)
          /\ rp # None /\ rp # <<>> =>
                /\ LastSeq(g) + Len(rp) = st
                /\ \A i \in DOMAIN rp : rp[i] = l[LastSeq(g) + i]

StreamInv ==
    Kept => \A c \in Clients :
        Exact(log, Bound, acked, stream[c], c, listed, queue[c], replay[c], got[c])

-----------------------------------------------------------------------------
(* Sessions *)

States == {"untracked", "idle", "polling", "reading", "failed"}

\* Only a pass has a page, an offset is of this log or an earlier one, and a session
\* that tracks nothing has heard nothing.
Plain(st, o, p, h, rb) ==
    /\ st \in {"polling", "reading"} <=> p # None
    /\ o.log <= rb
    /\ p # None => p.offset.log <= rb /\ p.next.log <= rb
    /\ st = "untracked" => h = <<>>

SessionType ==
    /\ session \in [Sessions -> States]
    /\ initializing \subseteq Sessions
    /\ seen \in [Sessions -> Nat]
    /\ offset \in [Sessions -> Offsets]
    /\ page \in [Sessions -> Passes \cup {None}]
    /\ from \in [Sessions -> Nat]
    /\ heard \in [Sessions -> Seq(Frames)]
    /\ \A s \in Sessions : Plain(session[s], offset[s], page[s], heard[s], rollbacks)
    /\ Kept => rollbacks = 0

Begins(n, fr, sn) == n <= fr \/ n <= sn

\* Every frame of l after fr and up to sn was heard, and nothing after sn.
HeardBetween(l, fr, sn, h) ==
    /\ \A i \in fr + 1 .. sn : \E j \in DOMAIN h : h[j] = l[i]
    /\ \A j \in DOMAIN h : h[j].seq <= sn

\* A notification pass that remembers seen; one that has read starts where nothing
\* is missing.
PassOK(l, m, st, o, p, fr, h) ==
    /\ p.seen <= m
    /\ HeardBetween(l, fr, p.seen, h)
    /\ Begins(o.frames, fr, p.seen) /\ Begins(p.offset.frames, fr, p.seen)
    /\ st = "reading" =>
          /\ p.next.frames <= m
          /\ Len(p.frames) <= p.next.frames
          /\ Begins(p.next.frames - Len(p.frames), fr, p.seen)
          /\ \A i \in DOMAIN p.frames : p.frames[i] = l[p.next.frames - Len(p.frames) + i]

Placed(l, m, h) == \A j \in DOMAIN h : h[j].seq <= m /\ h[j] = l[h[j].seq]

\* The state of session s, for the log l that is settled up to m and the sessions is
\* that are initializing.
HearsAll(l, m, st, s, is, sn, o, p, fr, h) ==
    /\ Increasing(h)
    /\ Placed(l, m, h)
    /\ sn <= m /\ fr <= m /\ o.frames <= m
    /\ Begins(o.frames, fr, sn)
    /\ \A j \in DOMAIN h : h[j].seq <= sn
    /\ s \notin is => HeardBetween(l, fr, sn, h)
    /\ p # None => p.offset.frames <= m
    /\ p # None => PassOK(l, m, st, o, p, fr, h)

SessionInv ==
    Kept => \A s \in Sessions :
        HearsAll(log, Settled, session[s], s, initializing, seen[s], offset[s], page[s],
                 from[s], heard[s])

-----------------------------------------------------------------------------
(* Sequences *)

LEMMA SeqFacts ==
    ASSUME NEW S, NEW l \in Seq(S)
    PROVE  /\ DOMAIN l = 1 .. Len(l) /\ Len(l) \in Nat
           /\ \A i \in 1 .. Len(l) : l[i] \in S
           /\ l = <<>> <=> Len(l) = 0
OBVIOUS

LEMMA Appended ==
    ASSUME NEW S, NEW l \in Seq(S), NEW f \in S
    PROVE  /\ Append(l, f) \in Seq(S) /\ Len(Append(l, f)) = Len(l) + 1
           /\ \A i \in 1 .. Len(l) : Append(l, f)[i] = l[i]
           /\ Append(l, f)[Len(l) + 1] = f
OBVIOUS

LEMMA Ranged ==
    ASSUME NEW S, NEW l \in Seq(S), NEW a \in Nat, NEW b \in Nat, b <= Len(l)
    PROVE  /\ SubSeq(l, a + 1, b) \in Seq(S)
           /\ Len(SubSeq(l, a + 1, b)) = IF a < b THEN b - a ELSE 0
           /\ \A i \in 1 .. Len(SubSeq(l, a + 1, b)) : SubSeq(l, a + 1, b)[i] = l[a + i]
OBVIOUS

LEMMA Prefixed ==
    ASSUME NEW S, NEW l \in Seq(S), NEW b \in Nat, b <= Len(l)
    PROVE  /\ SubSeq(l, 1, b) \in Seq(S)
           /\ Len(SubSeq(l, 1, b)) = b
           /\ \A i \in 1 .. b : SubSeq(l, 1, b)[i] = l[i]
OBVIOUS

LEMMA Tailed ==
    ASSUME NEW S, NEW l \in Seq(S), l # <<>>
    PROVE  /\ Tail(l) \in Seq(S) /\ Len(Tail(l)) = Len(l) - 1
           /\ Head(l) = l[1] /\ Head(l) \in S /\ Len(l) > 0
           /\ \A i \in 1 .. Len(Tail(l)) : Tail(l)[i] = l[i + 1]
OBVIOUS

LEMMA Joined ==
    ASSUME NEW S, NEW l \in Seq(S), NEW k \in Seq(S)
    PROVE  /\ l \o k \in Seq(S) /\ Len(l \o k) = Len(l) + Len(k)
           /\ \A i \in 1 .. Len(l) : (l \o k)[i] = l[i]
           /\ \A i \in 1 .. Len(k) : (l \o k)[Len(l) + i] = k[i]
OBVIOUS

-----------------------------------------------------------------------------
(* The log keeps its type *)

\* What the sequence numbers of a contiguous log are.
Numbered(l) == \A i \in DOMAIN l : l[i].seq = i

LEMMA TailIsLength ==
    ASSUME log \in Seq(Frames), Contiguous
    PROVE  TailSequence = Len(log)
BY SeqFacts DEF TailSequence, Contiguous

LEMMA NoneIsNotEmpty == None # <<>>
<1>1. <<>> \in Seq(Frames)
  OBVIOUS
<1> QED
  BY <1>1, NoneIsNoValue

LEMMA FrameFacts ==
    ASSUME NEW f \in Frames
    PROVE  f.seq \in Nat /\ f.seq >= 1 /\ f.seq \in 1 .. MaxEvents /\ f # None
BY EventLogAssumption, NoneIsNoValue DEF Frames

\* The log is cut to a prefix.
LEMMA CutLog ==
    ASSUME NEW l \in Seq(Frames), Numbered(l), NEW n \in Nat, n <= Len(l)
    PROVE  /\ SubSeq(l, 1, n) \in Seq(Frames) /\ Numbered(SubSeq(l, 1, n))
           /\ Len(SubSeq(l, 1, n)) = n
           /\ \A i \in 1 .. n : SubSeq(l, 1, n)[i] = l[i]
<1>1. /\ SubSeq(l, 1, n) \in Seq(Frames) /\ Len(SubSeq(l, 1, n)) = n
      /\ \A i \in 1 .. n : SubSeq(l, 1, n)[i] = l[i]
  BY Prefixed
<1>2. DOMAIN SubSeq(l, 1, n) = 1 .. n /\ DOMAIN l = 1 .. Len(l)
  BY <1>1, SeqFacts
<1> QED
  BY <1>1, <1>2 DEF Numbered

\* The next frame is appended.
LEMMA GrowLog ==
    ASSUME NEW l \in Seq(Frames), Numbered(l), NEW f \in Frames, f.seq = Len(l) + 1
    PROVE  /\ Append(l, f) \in Seq(Frames) /\ Numbered(Append(l, f))
           /\ Len(Append(l, f)) = Len(l) + 1
           /\ Append(l, f)[Len(l) + 1] = f
           /\ \A i \in 1 .. Len(l) : Append(l, f)[i] = l[i]
<1>1. /\ Append(l, f) \in Seq(Frames) /\ Len(Append(l, f)) = Len(l) + 1
      /\ \A i \in 1 .. Len(l) : Append(l, f)[i] = l[i]
      /\ Append(l, f)[Len(l) + 1] = f
  BY Appended
<1>2. DOMAIN Append(l, f) = 1 .. Len(l) + 1 /\ DOMAIN l = 1 .. Len(l) /\ Len(l) \in Nat
  BY <1>1, SeqFacts
<1> QED
  BY <1>1, <1>2 DEF Numbered

-----------------------------------------------------------------------------
(* The log is the authority *)

FileInv == TypeInv /\ LogInv

\* What a step may never do to the settled part of a log that is kept.
KeepsPrefix == Settled <= Settled' /\ \A i \in 1 .. Settled : log'[i] = log[i]

fileVars == <<limits, events, powers, rollbacks, log, torn, synced, writing, up, high,
              registry, lane, acked>>

LEMMA LogFacts ==
    ASSUME FileInv
    PROVE  /\ log \in Seq(Frames) /\ Len(log) \in Nat /\ DOMAIN log = 1 .. Len(log)
           /\ Numbered(log) /\ TailSequence = Len(log)
           /\ \A i \in 1 .. Len(log) : log[i] \in Frames /\ log[i].seq = i
           /\ log = <<>> <=> Len(log) = 0
           /\ Settled \in Nat /\ Settled <= Len(log)
           /\ writing # None => Len(log) > 0 /\ Settled = Len(log) - 1
           /\ writing = None => Settled = Len(log)
           /\ limits.events \in 0 .. MaxEvents /\ MaxEvents \in Nat
           /\ events <= MaxEvents
<1>1. log \in Seq(Frames) /\ Contiguous /\ limits \in Scenarios /\ events \in Nat
      /\ events <= limits.events /\ synced \in Nat /\ synced <= Settled
  BY DEF FileInv, TypeInv, LogInv
<1>2. Len(log) \in Nat /\ DOMAIN log = 1 .. Len(log) /\ (log = <<>> <=> Len(log) = 0)
      /\ \A i \in 1 .. Len(log) : log[i] \in Frames
  BY <1>1, SeqFacts
<1>3. TailSequence = Len(log)
  BY <1>1, TailIsLength
<1>4. Numbered(log)
  BY <1>1 DEF Contiguous, Numbered
<1>5. limits.events \in 0 .. MaxEvents /\ MaxEvents \in Nat
  BY <1>1, EventLogAssumption
<1>6. \A i \in 1 .. Len(log) : log[i].seq = i
  BY <1>2, <1>4 DEF Numbered
<1>7. /\ Settled \in Nat /\ Settled <= Len(log)
      /\ writing # None => Len(log) > 0 /\ Settled = Len(log) - 1
      /\ writing = None => Settled = Len(log)
  <2>1. CASE writing = None
    BY <2>1, <1>2 DEF Settled, Unlocked
  <2>2. CASE writing # None
    <3>1. Settled = Len(log) - 1
      BY <2>2 DEF Settled, Unlocked
    <3> QED
      BY <3>1, <2>2, <1>1, <1>2
  <2> QED
    BY <2>1, <2>2
<1>8. events <= MaxEvents
  BY <1>1, <1>5
<1> QED
  BY <1>1, <1>2, <1>3, <1>4, <1>5, <1>6, <1>7, <1>8

LEMMA FileSame ==
    ASSUME FileInv, UNCHANGED fileVars
    PROVE  FileInv' /\ KeepsPrefix
<1>1. TypeInv'
  BY DEF FileInv, TypeInv, Contiguous, fileVars
<1>2. LogInv'
  BY DEF FileInv, LogInv, Settled, Unlocked, Kept, fileVars
<1>3. KeepsPrefix
  <2>1. Settled' = Settled /\ log' = log /\ Settled \in Nat
    BY LogFacts DEF Settled, Unlocked, fileVars
  <2> QED
    BY <2>1 DEF KeepsPrefix
<1> QED
  BY <1>1, <1>2, <1>3 DEF FileInv

LEMMA FileWrite ==
    ASSUME FileInv, WriteEvent, UNCHANGED limits
    PROVE  FileInv' /\ KeepsPrefix
<1> DEFINE f == [seq |-> Len(log) + 1, event |-> events + 1]
<1>1. /\ log \in Seq(Frames) /\ Len(log) \in Nat /\ Numbered(log) /\ TailSequence = Len(log)
      /\ Settled = Len(log) /\ limits.events \in 0 .. MaxEvents /\ MaxEvents \in Nat
  BY LogFacts DEF WriteEvent, Unlocked
<1>2. /\ up /\ lane = None /\ writing = None /\ events < limits.events
      /\ events' = events + 1 /\ log' = Append(log, f) /\ torn' = FALSE
      /\ writing' = events + 1
      /\ UNCHANGED <<synced, registry, up, high, lane, acked, powers, rollbacks, limits>>
  BY <1>1 DEF WriteEvent, Unlocked, NextSequence, daemon
<1>3. events \in Nat /\ Len(log) <= events
  BY DEF FileInv, TypeInv
<1>4. f \in Frames /\ f.seq = Len(log) + 1
  BY <1>1, <1>2, <1>3 DEF Frames
<1>5. /\ log' \in Seq(Frames) /\ Numbered(log') /\ Len(log') = Len(log) + 1
      /\ \A i \in 1 .. Len(log) : log'[i] = log[i]
  <2> HIDE DEF f
  <2> QED
  BY <1>1, <1>2, <1>4, GrowLog
<1>6. writing' # None /\ writing' \in 1 .. MaxEvents
  BY <1>1, <1>2, <1>3, NoneIsNoValue
<1>7. Settled' = Len(log)
  BY <1>1, <1>5, <1>6 DEF Settled, Unlocked
<1>8. TypeInv'
  <2>1. Contiguous'
    BY <1>5 DEF Contiguous, Numbered
  <2>2. events' \in Nat /\ events' <= limits'.events /\ Len(log') <= events'
    BY <1>1, <1>2, <1>3, <1>5
  <2> QED
    BY <2>1, <2>2, <1>2, <1>5, <1>6 DEF FileInv, TypeInv
<1>9. Kept' = Kept
  BY <1>2 DEF Kept
<1>10. LogInv'
  <2>1. \A g \in acked : g \in Frames /\ g.seq <= synced /\ log[g.seq] = g /\ g.seq <= high
    BY <1>2 DEF FileInv, TypeInv, LogInv
  <2>2. synced <= Len(log) /\ synced \in Nat
    BY <1>1 DEF FileInv, TypeInv, LogInv
  <2>3. \A g \in acked : log'[g.seq] = g
    BY <2>1, <2>2, <1>1, <1>5, FrameFacts
  <2> QED
    BY <2>1, <2>3, <1>1, <1>2, <1>5, <1>6, <1>7, <1>9 DEF FileInv, LogInv
<1>11. KeepsPrefix
  BY <1>1, <1>5, <1>7 DEF KeepsPrefix
<1> QED
  BY <1>8, <1>10, <1>11 DEF FileInv

LEMMA FileSynced ==
    ASSUME FileInv, Synced, UNCHANGED limits
    PROVE  FileInv' /\ KeepsPrefix
<1>1. /\ log \in Seq(Frames) /\ Len(log) \in Nat /\ Len(log) > 0 /\ Settled = Len(log) - 1
      /\ \A i \in 1 .. Len(log) : log[i] \in Frames /\ log[i].seq = i
      /\ log # <<>>
  <2>1. writing # None
    BY DEF Synced, Unlocked
  <2>2. Len(log) > 0 /\ Settled = Len(log) - 1
    BY <2>1, LogFacts
  <2>3. log \in Seq(Frames) /\ Len(log) \in Nat
        /\ \A i \in 1 .. Len(log) : log[i] \in Frames /\ log[i].seq = i
    BY LogFacts
  <2>4. log # <<>>
    BY <2>2, <2>3, SeqFacts
  <2> QED
    BY <2>2, <2>3, <2>4
<1>2. /\ up /\ writing # None /\ synced' = Len(log) /\ writing' = None
      /\ lane' = log[Len(log)]
      /\ UNCHANGED <<log, torn, registry, up, high, acked, events, powers, rollbacks, limits>>
  BY DEF Synced, SyncEvent, Unlocked, bounds
<1>3. log[Len(log)] \in Frames /\ Settled' = Len(log)
  BY <1>1, <1>2 DEF Settled, Unlocked
<1>4. TypeInv'
  BY <1>1, <1>2, <1>3 DEF FileInv, TypeInv, Contiguous
<1>5. LogInv'
  <2>1. \A g \in acked : g \in Frames /\ g.seq <= synced /\ log[g.seq] = g /\ g.seq <= high
    BY <1>2 DEF FileInv, TypeInv, LogInv
  <2>2. synced <= Len(log) - 1 /\ synced \in Nat /\ high <= Len(log) - 1 /\ high \in Nat
        /\ registry \in Nat /\ (Kept => registry <= Len(log) - 1)
    BY <1>1, <1>2, LogFacts DEF FileInv, TypeInv, LogInv
  <2>3. \A g \in acked : g.seq <= Len(log)
    BY <2>1, <2>2, <1>1, FrameFacts
  <2>4. Kept' = Kept
    BY <1>2 DEF Kept
  <2> QED
    BY <2>1, <2>2, <2>3, <2>4, <1>1, <1>2, <1>3, NoneIsNoValue DEF LogInv
<1>6. KeepsPrefix
  BY <1>1, <1>2, <1>3 DEF KeepsPrefix
<1> QED
  BY <1>4, <1>5, <1>6 DEF FileInv

\* What an append that does not end leaves is a log that holds the settled part.
LEMMA Leaves ==
    ASSUME FileInv, NEW frames, NEW partial \in BOOLEAN, Interrupted(frames, partial)
    PROVE  /\ frames \in Seq(Frames) /\ Numbered(frames)
           /\ Len(frames) \in Nat /\ Settled <= Len(frames) /\ Len(frames) <= Len(log)
           /\ \A i \in 1 .. Settled : frames[i] = log[i]
<1>1. /\ log \in Seq(Frames) /\ Len(log) \in Nat /\ Numbered(log)
      /\ Settled \in Nat /\ Settled <= Len(log)
  BY LogFacts
<1>2. CASE frames = log
  BY <1>1, <1>2
<1>3. CASE frames # log
  <2>1. writing # None /\ frames = SubSeq(log, 1, Len(log) - 1)
    BY <1>3 DEF Interrupted, Unlocked
  <2>2. Settled = Len(log) - 1
    BY <2>1, LogFacts
  <2>3. frames = SubSeq(log, 1, Settled)
    BY <2>1, <2>2
  <2> QED
    BY <2>3, <1>1, CutLog
<1> QED
  BY <1>2, <1>3

\* The append ends without success, or the daemon with it.
LEMMA FileCut ==
    ASSUME FileInv,
           log' \in Seq(Frames), Numbered(log'), Len(log') \in Nat,
           Settled <= Len(log'), Len(log') <= Len(log),
           \A i \in 1 .. Settled : log'[i] = log[i],
           torn' \in BOOLEAN, writing' = None, lane' = None,
           \/ up' = up /\ high' = high
           \/ up' = FALSE /\ high' = 0,
           UNCHANGED <<limits, events, powers, rollbacks, synced, registry, acked>>
    PROVE  FileInv' /\ KeepsPrefix
<1>1. /\ log \in Seq(Frames) /\ Len(log) \in Nat /\ Settled \in Nat /\ MaxEvents \in Nat
      /\ Settled <= Len(log)
  BY LogFacts
<1>2. Settled' = Len(log')
  BY DEF Settled, Unlocked
<1>3. events \in Nat /\ Len(log) <= events /\ high \in 0 .. MaxEvents /\ up \in BOOLEAN
      /\ synced \in Nat /\ synced <= Settled /\ registry \in Nat
      /\ (Kept => registry <= Settled) /\ (up => high <= Settled) /\ (~up => high = 0)
  BY <1>1 DEF FileInv, TypeInv, LogInv
<1>4. TypeInv'
  <2>1. Contiguous'
    BY DEF Contiguous, Numbered
  <2>2. Len(log') <= events
    BY <1>1, <1>3
  <2>3. up' \in BOOLEAN
    BY <1>3, Zenon
  <2>4. high' \in 0 .. MaxEvents
    BY <1>1, <1>3
  <2> QED
    BY <2>1, <2>2, <2>3, <2>4 DEF FileInv, TypeInv
<1>5. LogInv'
  <2>1. \A g \in acked : g \in Frames /\ g.seq <= synced /\ log[g.seq] = g
    BY DEF FileInv, TypeInv, LogInv
  <2>2. \A g \in acked : log'[g.seq] = g
    BY <2>1, <1>1, <1>3, FrameFacts
  <2>3. up' => \A g \in acked : g.seq <= high'
    BY DEF FileInv, LogInv
  <2>4. (up' => high' <= Len(log')) /\ (~up' => high' = 0) /\ synced <= Len(log')
        /\ (Kept => registry <= Len(log'))
    BY <1>1, <1>3
  <2>5. Kept' = Kept
    BY DEF Kept
  <2> QED
    BY <2>1, <2>2, <2>3, <2>4, <2>5, <1>2 DEF LogInv
<1>6. KeepsPrefix
  BY <1>2 DEF KeepsPrefix
<1> QED
  BY <1>4, <1>5, <1>6 DEF FileInv

LEMMA FileFails ==
    ASSUME FileInv, AppendFails, UNCHANGED limits
    PROVE  FileInv' /\ KeepsPrefix
<1>1. PICK frames \in {log, SubSeq(log, 1, Len(log) - 1)}, partial \in BOOLEAN :
          Interrupted(frames, partial) /\ log' = frames /\ torn' = partial
  BY DEF AppendFails
<1>2. /\ frames \in Seq(Frames) /\ Numbered(frames)
      /\ Len(frames) \in Nat /\ Settled <= Len(frames) /\ Len(frames) <= Len(log)
      /\ \A i \in 1 .. Settled : frames[i] = log[i]
  BY <1>1, Leaves
<1>3. /\ writing # None /\ writing' = None
      /\ UNCHANGED <<limits, events, powers, rollbacks, synced, registry, acked, up, high, lane>>
  BY DEF AppendFails, Unlocked, daemon
<1>4. lane' = None
  BY <1>3 DEF FileInv, LogInv
<1> QED
  BY <1>1, <1>2, <1>3, <1>4, FileCut

LEMMA FileKill ==
    ASSUME FileInv, Kill, UNCHANGED limits
    PROVE  FileInv' /\ KeepsPrefix
<1>1. PICK frames \in {log, SubSeq(log, 1, Len(log) - 1)}, partial \in BOOLEAN :
          Interrupted(frames, partial) /\ log' = frames /\ torn' = partial
  BY DEF Kill
<1>2. /\ frames \in Seq(Frames) /\ Numbered(frames)
      /\ Len(frames) \in Nat /\ Settled <= Len(frames) /\ Len(frames) <= Len(log)
      /\ \A i \in 1 .. Settled : frames[i] = log[i]
  BY <1>1, Leaves
<1>3. /\ writing' = None /\ lane' = None /\ up' = FALSE /\ high' = 0
      /\ UNCHANGED <<limits, events, powers, rollbacks, synced, registry, acked>>
  BY DEF Kill, Down
<1> QED
  BY <1>1, <1>2, <1>3, FileCut

LEMMA FilePower ==
    ASSUME FileInv, PowerFailure, UNCHANGED limits
    PROVE  FileInv' /\ ~Kept
<1>1. PICK n \in synced .. Len(log) :
          /\ log' = SubSeq(log, 1, n) /\ synced' = n
          /\ IF n < Len(log) THEN torn' \in BOOLEAN ELSE torn' \in {FALSE, torn}
  BY DEF PowerFailure
<1>2. /\ writing' = None /\ lane' = None /\ up' = FALSE /\ high' = 0
      /\ powers < limits.powers /\ powers' = powers + 1
      /\ UNCHANGED <<limits, events, rollbacks, registry, acked>>
  BY DEF PowerFailure, Down
<1>3. /\ log \in Seq(Frames) /\ Len(log) \in Nat /\ Numbered(log) /\ MaxEvents \in Nat
  BY LogFacts
<1>4. synced \in Nat /\ torn \in BOOLEAN /\ powers \in Nat /\ events \in Nat /\ Len(log) <= events
  BY DEF FileInv, TypeInv
<1>5. n \in Nat /\ n <= Len(log) /\ synced <= n
  BY <1>1, <1>3, <1>4
<1>6. /\ log' \in Seq(Frames) /\ Numbered(log') /\ Len(log') = n
      /\ \A i \in 1 .. n : log'[i] = log[i]
  BY <1>1, <1>3, <1>5, CutLog
<1>7. Settled' = n
  BY <1>2, <1>6 DEF Settled, Unlocked
<1>8. limits.powers \in Nat
  BY EventLogAssumption DEF FileInv, TypeInv
<1>9. ~Kept /\ ~Kept'
  BY <1>2, <1>4, <1>8 DEF Kept
<1>10. TypeInv'
  <2>1. Contiguous'
    BY <1>6 DEF Contiguous, Numbered
  <2>2. Len(log') <= events /\ powers' \in Nat
    BY <1>2, <1>3, <1>4, <1>5, <1>6
  <2>3. torn' \in BOOLEAN
    BY <1>1, <1>4
  <2>4. high' \in 0 .. MaxEvents /\ synced' \in Nat
    BY <1>1, <1>2, <1>3, <1>5
  <2> QED
    BY <2>1, <2>2, <2>3, <2>4, <1>2, <1>6 DEF FileInv, TypeInv
<1>11. LogInv'
  <2>1. \A g \in acked : g \in Frames /\ g.seq <= synced /\ log[g.seq] = g
    BY DEF FileInv, TypeInv, LogInv
  <2>2. \A g \in acked : log'[g.seq] = g /\ g.seq <= n
    BY <2>1, <1>3, <1>4, <1>5, <1>6, FrameFacts
  <2>3. synced' = n /\ n <= n
    BY <1>1, <1>5
  <2> QED
    BY <2>2, <2>3, <1>2, <1>7, <1>9, Zenon DEF LogInv
<1> QED
  BY <1>9, <1>10, <1>11 DEF FileInv

LEMMA FileRollBack ==
    ASSUME FileInv, RollBack, UNCHANGED limits
    PROVE  FileInv' /\ ~Kept
<1>1. /\ up /\ lane = None /\ writing = None /\ rollbacks < limits.rollbacks
      /\ rollbacks' = rollbacks + 1 /\ log' = <<>> /\ torn' = FALSE /\ synced' = 0
      /\ high' = 0 /\ registry' = 0 /\ acked' = {}
      /\ UNCHANGED <<limits, events, powers, writing, up, lane>>
  BY DEF RollBack, Unlocked
<1>2. limits.rollbacks \in Nat /\ rollbacks \in Nat /\ events \in Nat /\ MaxEvents \in Nat
  BY EventLogAssumption DEF FileInv, TypeInv
<1>3. ~Kept /\ ~Kept'
  BY <1>1, <1>2 DEF Kept
<1>4. log' \in Seq(Frames) /\ Len(log') = 0 /\ DOMAIN log' = {}
  BY <1>1
<1>5. TypeInv'
  <2>1. Contiguous'
    BY <1>4 DEF Contiguous
  <2>2. rollbacks' \in Nat /\ synced' \in Nat /\ Len(log') <= events'
    BY <1>1, <1>2, <1>4
  <2>3. high' \in 0 .. MaxEvents /\ registry' \in 0 .. MaxEvents /\ acked' \subseteq Frames
    BY <1>1, <1>2
  <2>4. torn' \in BOOLEAN
    BY <1>1, Zenon
  <2> QED
    BY <2>1, <2>2, <2>3, <2>4, <1>1, <1>4, Zenon DEF FileInv, TypeInv
<1>6. LogInv'
  <2>1. Settled' = 0
    BY <1>1, <1>4 DEF Settled, Unlocked
  <2> QED
    BY <2>1, <1>1, <1>3 DEF LogInv
<1> QED
  BY <1>3, <1>5, <1>6 DEF FileInv

LEMMA FilePublish ==
    ASSUME FileInv, Publish, UNCHANGED limits
    PROVE  FileInv' /\ KeepsPrefix
<1>1. /\ up /\ lane # None /\ lane.seq >= high /\ high' = lane.seq
      /\ acked' = acked \cup {lane} /\ lane' = None
      /\ UNCHANGED <<limits, events, powers, rollbacks, log, torn, synced, writing, registry, up>>
  BY DEF Publish, file, bounds
<1>2. /\ log \in Seq(Frames) /\ Len(log) \in Nat /\ MaxEvents \in Nat
      /\ \A i \in 1 .. Len(log) : log[i] \in Frames /\ log[i].seq = i
  BY LogFacts
<1>3. /\ log # <<>> /\ lane = log[Len(log)] /\ synced = Len(log) /\ writing = None
      /\ high < Len(log) /\ synced <= Settled
  BY <1>1 DEF FileInv, LogInv
<1>4. Len(log) >= 1
  BY <1>2, <1>3, SeqFacts
<1>5. lane \in Frames /\ lane.seq = Len(log)
  BY <1>2, <1>3, <1>4
<1>6. Settled' = Len(log) /\ Settled = Len(log)
  BY <1>1, <1>3 DEF Settled, Unlocked
<1>7. TypeInv'
  <2>1. Contiguous' /\ high' \in 0 .. MaxEvents /\ acked' \subseteq Frames
    BY <1>1, <1>2, <1>5, FrameFacts DEF FileInv, TypeInv, Contiguous
  <2> QED
    BY <2>1, <1>1 DEF FileInv, TypeInv
<1>8. LogInv'
  <2>1. \A g \in acked : g \in Frames /\ g.seq <= synced /\ log[g.seq] = g
    BY DEF FileInv, TypeInv, LogInv
  <2>2. \A g \in acked' : g.seq <= synced' /\ log'[g.seq] = g
    BY <2>1, <1>1, <1>2, <1>3, <1>5
  <2>3. \A g \in acked' : g.seq <= high'
    BY <2>2, <1>1, <1>3, <1>5
  <2>4. Kept' = Kept /\ (Kept => registry <= Settled)
    BY <1>1 DEF Kept, FileInv, LogInv
  <2>5. high' <= Settled' /\ synced' <= Settled'
    BY <1>1, <1>2, <1>3, <1>5, <1>6
  <2> QED
    BY <2>2, <2>3, <2>4, <2>5, <1>1, <1>3, <1>6, Zenon DEF LogInv
<1>9. KeepsPrefix
  BY <1>1, <1>2, <1>6 DEF KeepsPrefix
<1> QED
  BY <1>7, <1>8, <1>9 DEF FileInv

LEMMA FilePersist ==
    ASSUME FileInv, Persist, UNCHANGED limits
    PROVE  FileInv' /\ KeepsPrefix
<1>1. /\ up /\ registry' = high
      /\ UNCHANGED <<limits, events, powers, rollbacks, log, torn, synced, writing, up, high,
                     lane, acked>>
  BY DEF Persist, file, bounds
<1>2. Settled' = Settled /\ Kept' = Kept /\ log' = log /\ Settled \in Nat
  BY <1>1, LogFacts DEF Settled, Unlocked, Kept
<1>3. TypeInv'
  <2>1. registry' \in 0 .. MaxEvents /\ Contiguous'
    BY <1>1 DEF FileInv, TypeInv, Contiguous
  <2> QED
    BY <2>1, <1>1 DEF FileInv, TypeInv
<1>4. LogInv'
  BY <1>1, <1>2 DEF FileInv, LogInv
<1>5. KeepsPrefix
  BY <1>2 DEF KeepsPrefix
<1> QED
  BY <1>3, <1>4, <1>5 DEF FileInv

LEMMA FileStart ==
    ASSUME FileInv, Start, UNCHANGED limits
    PROVE  FileInv' /\ KeepsPrefix
<1>1. /\ ~up /\ up' = TRUE /\ high' = TailSequence /\ registry' = TailSequence
      /\ UNCHANGED <<limits, events, powers, rollbacks, log, torn, synced, writing, lane, acked>>
  BY DEF Start, file, bounds
<1>2. writing = None /\ lane = None /\ synced <= Settled
  BY <1>1 DEF FileInv, LogInv
<1>3. TailSequence = Len(log) /\ Settled = Len(log) /\ Len(log) \in Nat /\ events <= MaxEvents
      /\ MaxEvents \in Nat
  BY <1>2, LogFacts
<1>4. Settled' = Settled /\ Kept' = Kept /\ log' = log
  BY <1>1 DEF Settled, Unlocked, Kept
<1>5. TypeInv'
  <2>1. registry' \in 0 .. MaxEvents /\ high' \in 0 .. MaxEvents /\ Contiguous'
    BY <1>1, <1>3 DEF FileInv, TypeInv, Contiguous
  <2>2. up' \in BOOLEAN
    BY <1>1, Zenon
  <2> QED
    BY <2>1, <2>2, <1>1 DEF FileInv, TypeInv
<1>6. LogInv'
  <2>1. \A g \in acked : g \in Frames /\ g.seq <= synced /\ log[g.seq] = g
    BY DEF FileInv, TypeInv, LogInv
  <2>2. synced \in Nat
    BY DEF FileInv, TypeInv
  <2>3. \A g \in acked : g.seq <= Len(log)
    BY <2>1, <2>2, <1>2, <1>3, FrameFacts
  <2> QED
    BY <2>1, <2>3, <1>1, <1>2, <1>3, <1>4 DEF LogInv
<1>7. KeepsPrefix
  BY <1>3, <1>4 DEF KeepsPrefix
<1> QED
  BY <1>5, <1>6, <1>7 DEF FileInv

\* Steps of subscribers and sessions leave the log and the daemon alone.
LEMMA ReaderSteps ==
    ASSUME Next,
           \/ \E c \in Clients \cap limits.readers : ClientStep(c) \/ Disconnect(c)
           \/ \E s \in Sessions \cap limits.readers : SessionStep(s) \/ InitializeSeen(s)
    PROVE  UNCHANGED fileVars
<1>1. UNCHANGED limits
  BY DEF Next
<1>2. ASSUME NEW c \in Clients, ClientStep(c) \/ Disconnect(c)
      PROVE  UNCHANGED <<file, daemon, events, powers, rollbacks>>
  BY <1>2 DEF ClientStep, Subscribe, LoadReplay, SendReplay, SendLive, EndStream, Disconnect, bounds
<1>3. ASSUME NEW s \in Sessions, SessionStep(s) \/ InitializeSeen(s)
      PROVE  UNCHANGED <<file, daemon, events, powers, rollbacks>>
  BY <1>3 DEF SessionStep, Track, InitializeSeen, InitializeOffset, BeginPass, ReadPage,
              ReadFails, Deliver, DeliverSome, bounds
<1> QED
  BY <1>1, <1>2, <1>3 DEF fileVars, file, daemon

LEMMA FileStep ==
    ASSUME FileInv, [Next]_vars
    PROVE  FileInv' /\ (Kept => KeepsPrefix)
<1>1. CASE UNCHANGED vars
  BY <1>1, FileSame DEF vars, moves, file, daemon, bounds, fileVars
<1>2. CASE Next
  <2>1. UNCHANGED limits
    BY <1>2 DEF Next
  <2>2. CASE \/ \E c \in Clients \cap limits.readers : ClientStep(c) \/ Disconnect(c)
             \/ \E s \in Sessions \cap limits.readers : SessionStep(s) \/ InitializeSeen(s)
    BY <1>2, <2>2, ReaderSteps, FileSame
  <2>3. CASE WriteEvent
    BY <2>1, <2>3, FileWrite
  <2>4. CASE Synced
    BY <2>1, <2>4, FileSynced
  <2>5. CASE AppendFails
    BY <2>1, <2>5, FileFails
  <2>6. CASE Publish
    BY <2>1, <2>6, FilePublish
  <2>7. CASE Persist
    BY <2>1, <2>7, FilePersist
  <2>8. CASE RollBack
    BY <2>1, <2>8, FileRollBack
  <2>9. CASE Kill
    BY <2>1, <2>9, FileKill
  <2>10. CASE PowerFailure
    BY <2>1, <2>10, FilePower
  <2>11. CASE Start
    BY <2>1, <2>11, FileStart
  <2> QED
    BY <1>2, <2>2, <2>3, <2>4, <2>5, <2>6, <2>7, <2>8, <2>9, <2>10, <2>11 DEF Next
<1> QED
  BY <1>1, <1>2

LEMMA FileInit ==
    ASSUME Init
    PROVE  FileInv
<1>1. log = <<>> /\ Len(log) = 0 /\ DOMAIN log = {} /\ log \in Seq(Frames)
  BY DEF Init
<1>2. limits.events \in 0 .. MaxEvents /\ MaxEvents \in Nat
  BY EventLogAssumption DEF Init
<1>3. Settled = 0
  BY <1>1 DEF Settled, Unlocked, Init
<1>4. TypeInv
  <2>1. torn \in BOOLEAN /\ up \in BOOLEAN
    BY Zenon DEF Init
  <2>2. events \in Nat /\ events <= limits.events /\ powers \in Nat /\ rollbacks \in Nat
        /\ Len(log) <= events /\ synced \in Nat /\ high \in 0 .. MaxEvents
        /\ registry \in 0 .. MaxEvents
    BY <1>1, <1>2 DEF Init
  <2>3. Contiguous
    BY <1>1 DEF Contiguous
  <2> QED
    BY <2>1, <2>2, <2>3, <1>1 DEF TypeInv, Init
<1>5. LogInv
  BY <1>3 DEF LogInv, Init
<1> QED
  BY <1>4, <1>5 DEF FileInv

\* The settled part of the log, the acknowledged frames in it and the high-water marks
\* stay consistent through failed appends, kills, power failures and rollbacks.
THEOREM LogIsConsistent == Spec => []FileInv
<1>1. Init => FileInv
  BY FileInit
<1>2. FileInv /\ [Next]_vars => FileInv'
  BY FileStep
<1> QED
  BY <1>1, <1>2, PTL DEF Spec

LEMMA FileImplies ==
    ASSUME FileInv
    PROVE  LogIsAuthority
<1>1. TailSequence = Len(log) /\ Settled <= Len(log) /\ Settled \in Nat /\ Len(log) \in Nat
  BY LogFacts
<1>2. registry \in Nat /\ synced \in Nat /\ synced <= Settled
      /\ (Kept => registry <= Settled) /\ acked \subseteq Frames
      /\ \A f \in acked : f.seq <= synced /\ log[f.seq] = f
  BY EventLogAssumption DEF FileInv, TypeInv, LogInv
<1>3. RegistryNotAhead
  BY <1>1, <1>2 DEF RegistryNotAhead
<1>4. AckedEventsKept
  BY <1>1, <1>2, FrameFacts DEF AckedEventsKept
<1> QED
  BY <1>3, <1>4 DEF LogIsAuthority

\* For every scenario: an acknowledged event stays at its place in the log through
\* failed appends, kills and power failures, and the durable registry never knows more
\* events than the log while no power fails and no admission is rolled back.
THEOREM LogLasts == Spec => []LogIsAuthority
<1>1. FileInv => LogIsAuthority
  BY FileImplies
<1> QED
  BY <1>1, LogIsConsistent, PTL

-----------------------------------------------------------------------------
(* One subscriber *)

LEMMA LastFacts ==
    ASSUME NEW g \in Seq(Frames), Increasing(g)
    PROVE  /\ LastSeq(g) \in Nat
           /\ \A i \in DOMAIN g : g[i] \in Frames /\ g[i].seq \in Nat /\ g[i].seq <= LastSeq(g)
<1>1. DOMAIN g = 1 .. Len(g) /\ Len(g) \in Nat /\ (g = <<>> <=> Len(g) = 0)
      /\ \A i \in 1 .. Len(g) : g[i] \in Frames
  BY SeqFacts
<1>2. \A i \in 1 .. Len(g) : g[i].seq \in Nat
  BY <1>1, FrameFacts
<1>3. CASE g = <<>>
  BY <1>1, <1>3 DEF LastSeq
<1>4. CASE g # <<>>
  <2>1. Len(g) >= 1 /\ LastSeq(g) = g[Len(g)].seq
    BY <1>1, <1>4 DEF LastSeq
  <2> SUFFICES ASSUME NEW i \in 1 .. Len(g) PROVE g[i].seq <= g[Len(g)].seq
    BY <1>1, <1>2, <2>1
  <2>2. CASE i = Len(g)
    BY <2>2, <1>2, <2>1
  <2>3. CASE i < Len(g)
    BY <2>3, <1>1, <1>2, <2>1 DEF Increasing
  <2>4. i = Len(g) \/ i < Len(g)
    <3>1. Len(g) \in Nat
      BY <1>1
    <3> QED
      BY <3>1
  <2> QED
    BY <2>2, <2>3, <2>4
<1> QED
  BY <1>3, <1>4

\* A frame is received at the end.
LEMMA GotNext ==
    ASSUME NEW g \in Seq(Frames), Increasing(g), NEW f \in Frames, f.seq > LastSeq(g)
    PROVE  /\ Append(g, f) \in Seq(Frames) /\ Increasing(Append(g, f))
           /\ LastSeq(Append(g, f)) = f.seq
           /\ \A i \in DOMAIN g : i \in DOMAIN Append(g, f) /\ Append(g, f)[i] = g[i]
           /\ \E i \in DOMAIN Append(g, f) : Append(g, f)[i] = f
<1> DEFINE h == Append(g, f)
<1>1. h \in Seq(Frames) /\ Len(h) = Len(g) + 1 /\ (\A i \in 1 .. Len(g) : h[i] = g[i])
      /\ h[Len(g) + 1] = f
  BY Appended
<1>2. DOMAIN g = 1 .. Len(g) /\ Len(g) \in Nat /\ DOMAIN h = 1 .. Len(g) + 1
  BY <1>1, SeqFacts
<1>3. \A i \in 1 .. Len(g) : g[i].seq \in Nat /\ g[i].seq <= LastSeq(g)
  BY <1>2, LastFacts
<1>4. LastSeq(g) \in Nat /\ f.seq \in Nat
  BY LastFacts, FrameFacts
<1> HIDE DEF h
<1>5. Increasing(h)
  <2> SUFFICES ASSUME NEW i \in 1 .. Len(g) + 1, NEW j \in 1 .. Len(g) + 1, i < j
               PROVE  h[i].seq < h[j].seq
    BY <1>2 DEF Increasing
  <2>1. i \in 1 .. Len(g) /\ h[i] = g[i]
    BY <1>1, <1>2
  <2>2. CASE j = Len(g) + 1
    BY <2>1, <2>2, <1>1, <1>3, <1>4
  <2>3. CASE j \in 1 .. Len(g)
    <3>1. h[j] = g[j]
      BY <2>3, <1>1
    <3> QED
      BY <3>1, <2>1, <2>3, <1>2 DEF Increasing
  <2> QED
    BY <2>2, <2>3, <1>2
<1>6. LastSeq(h) = f.seq
  <2>1. h # <<>>
    BY <1>1, <1>2, SeqFacts
  <2> QED
    BY <2>1, <1>1 DEF LastSeq
<1>7. Len(g) + 1 \in DOMAIN h
  BY <1>2
<1> QED
  BY <1>1, <1>2, <1>5, <1>6, <1>7 DEF h

\* The log l up to b, and the acknowledged frames in it.
Held(l, b, ak) ==
    /\ l \in Seq(Frames) /\ Numbered(l)
    /\ b \in Nat /\ b <= Len(l)
    /\ ak \subseteq Frames
    /\ \A f \in ak : f.seq <= b /\ l[f.seq] = f

LEMMA HeldFacts ==
    ASSUME NEW l, NEW b, NEW ak, Held(l, b, ak)
    PROVE  /\ b \in Nat /\ Len(l) \in Nat /\ b <= Len(l) /\ DOMAIN l = 1 .. Len(l)
           /\ \A i \in 1 .. b : l[i] \in Frames /\ l[i].seq = i
           /\ \A f \in ak : f \in Frames /\ f.seq \in Nat /\ f.seq >= 1 /\ f.seq <= b
                            /\ l[f.seq] = f
<1>1. l \in Seq(Frames) /\ Numbered(l) /\ b \in Nat /\ b <= Len(l) /\ ak \subseteq Frames
      /\ \A f \in ak : f.seq <= b /\ l[f.seq] = f
  BY DEF Held
<1>2. DOMAIN l = 1 .. Len(l) /\ Len(l) \in Nat /\ \A i \in 1 .. Len(l) : l[i] \in Frames
  BY <1>1, SeqFacts
<1>3. \A i \in 1 .. b : l[i] \in Frames /\ l[i].seq = i
  BY <1>1, <1>2 DEF Numbered
<1> QED
  BY <1>1, <1>2, <1>3, FrameFacts

\* A client without a stream, or whose stream is closed.
LEMMA ExactClosed ==
    ASSUME NEW l, NEW b, NEW ak, NEW st, NEW c, NEW ls, NEW q, NEW rp, NEW g,
           Exact(l, b, ak, st, c, ls, q, rp, g),
           NEW l2, NEW b2, b \in Nat, b2 \in Nat, b <= b2, LastSeq(g) \in Nat,
           NEW ls2, c \notin ls2
    PROVE  Exact(l2, b2, ak, None, c, ls2, <<>>, None, g)
BY DEF Exact

\* The log changes beyond what subscribers know.
LEMMA ExactLog ==
    ASSUME NEW l, NEW b, NEW ak, NEW st, NEW c, NEW ls, NEW q, NEW rp, NEW g,
           Held(l, b, ak), Exact(l, b, ak, st, c, ls, q, rp, g),
           g \in Seq(Frames), rp = None \/ rp \in Seq(Frames), st = None \/ st \in Nat,
           NEW l2, \A i \in 1 .. b : l2[i] = l[i]
    PROVE  Exact(l2, b, ak, st, c, ls, q, rp, g)
<1>1. LastSeq(g) \in Nat
  BY LastFacts DEF Exact
<1>2. ASSUME st # None, rp # None, rp # <<>>
      PROVE  \A i \in DOMAIN rp : l2[LastSeq(g) + i] = l[LastSeq(g) + i]
  <2>1. DOMAIN rp = 1 .. Len(rp) /\ Len(rp) \in Nat
    BY <1>2, SeqFacts
  <2>2. LastSeq(g) + Len(rp) = st /\ st <= b /\ b \in Nat
    BY <1>2 DEF Exact, Held
  <2> QED
    BY <2>1, <2>2, <1>1, <1>2
<1> QED
  BY <1>2 DEF Exact

\* A client subscribes.
LEMMA ExactSubscribe ==
    ASSUME NEW l, NEW b, NEW ak, NEW c, NEW ls, NEW q, NEW rp, NEW g,
           Held(l, b, ak), Exact(l, b, ak, None, c, ls, q, rp, g), NEW ls2, c \in ls2
    PROVE  Exact(l, b, ak, b, c, ls2, <<>>, None, g)
<1>1. b \in Nat /\ \A f \in ak : f.seq \in Nat /\ f.seq <= b
  BY HeldFacts
<1>2. b # None /\ b <= b
  BY <1>1, NoneIsNoValue
<1>3. None # <<>>
  BY NoneIsNotEmpty
<1>4. \A f \in ak : ~(f.seq > b)
  BY <1>1
<1> QED
  BY <1>2, <1>3, <1>4 DEF Exact, Increasing

\* The replay is loaded.
LEMMA ExactLoad ==
    ASSUME NEW l, NEW b, NEW ak, NEW st \in Nat, NEW c, NEW ls, NEW q \in Seq(Frames),
           NEW g \in Seq(Frames),
           Held(l, b, ak), Exact(l, b, ak, st, c, ls, q, None, g)
    PROVE  Exact(l, b, ak, st, c, ls, q, SelectReplay(l, st, LastSeq(g)), g)
<1> DEFINE rp == SelectReplay(l, st, LastSeq(g))
<1>1. LastSeq(g) \in Nat /\ st # None
  BY LastFacts, NoneIsNoValue DEF Exact
<1>2. LastSeq(g) <= st /\ st <= b /\ b \in Nat /\ b <= Len(l) /\ Len(l) \in Nat
      /\ l \in Seq(Frames)
  BY <1>1, HeldFacts DEF Exact, Held
<1>3. rp = SubSeq(l, LastSeq(g) + 1, st)
  <2>1. (IF st < Len(l) THEN st ELSE Len(l)) = st
    BY <1>2
  <2> QED
    BY <2>1 DEF SelectReplay
<1>4. /\ rp \in Seq(Frames) /\ Len(rp) = (IF LastSeq(g) < st THEN st - LastSeq(g) ELSE 0)
      /\ \A i \in 1 .. Len(rp) : rp[i] = l[LastSeq(g) + i]
  <2>1. st <= Len(l)
    BY <1>2
  <2>2. /\ SubSeq(l, LastSeq(g) + 1, st) \in Seq(Frames)
        /\ Len(SubSeq(l, LastSeq(g) + 1, st)) = IF LastSeq(g) < st THEN st - LastSeq(g) ELSE 0
        /\ \A i \in 1 .. Len(SubSeq(l, LastSeq(g) + 1, st)) :
              SubSeq(l, LastSeq(g) + 1, st)[i] = l[LastSeq(g) + i]
    BY <2>1, <1>1, <1>2, Ranged
  <2> HIDE DEF rp
  <2> QED
    BY <2>2, <1>3, Zenon
<1> HIDE DEF rp
<1>5. rp # None /\ DOMAIN rp = 1 .. Len(rp) /\ Len(rp) \in Nat
      /\ (rp = <<>> <=> Len(rp) = 0)
  BY <1>4, SeqFacts, NoneIsNoValue
<1>6. ASSUME rp = <<>>
      PROVE  LastSeq(g) >= st /\ \A i \in DOMAIN q : q[i].seq > LastSeq(g)
  <2>1. LastSeq(g) = st
    BY <1>6, <1>1, <1>2, <1>4, <1>5
  <2> QED
    BY <2>1, <1>1, <1>2 DEF Exact
<1>7. ASSUME rp # <<>>
      PROVE  LastSeq(g) + Len(rp) = st /\ \A i \in DOMAIN rp : rp[i] = l[LastSeq(g) + i]
  BY <1>7, <1>1, <1>2, <1>4, <1>5
<1> QED
  BY <1>1, <1>5, <1>6, <1>7 DEF Exact, rp

\* A frame of the replay is sent.
LEMMA ExactReplay ==
    ASSUME NEW l, NEW b, NEW ak, NEW st \in Nat, NEW c, NEW ls, NEW q \in Seq(Frames),
           NEW rp \in Seq(Frames), rp # <<>>, NEW g \in Seq(Frames),
           Held(l, b, ak), Exact(l, b, ak, st, c, ls, q, rp, g)
    PROVE  Exact(l, b, ak, st, c, ls, q, Tail(rp), Append(g, Head(rp)))
<1> DEFINE f == Head(rp)
           h == Append(g, f)
           r2 == Tail(rp)
<1>1. st # None /\ rp # None
  BY NoneIsNoValue
<1>2. LastSeq(g) \in Nat /\ b \in Nat
  BY LastFacts, HeldFacts DEF Exact
<1>3. /\ LastSeq(g) + Len(rp) = st /\ st <= b
      /\ \A i \in DOMAIN rp : rp[i] = l[LastSeq(g) + i]
  BY <1>1 DEF Exact
<1>4. /\ r2 \in Seq(Frames) /\ Len(r2) = Len(rp) - 1 /\ f = rp[1] /\ f \in Frames
      /\ Len(rp) > 0 /\ \A i \in 1 .. Len(r2) : r2[i] = rp[i + 1]
  BY Tailed
<1> HIDE DEF f, r2
<1>5. /\ DOMAIN rp = 1 .. Len(rp) /\ Len(rp) \in Nat /\ DOMAIN r2 = 1 .. Len(r2)
      /\ Len(r2) \in Nat /\ (r2 = <<>> <=> Len(r2) = 0) /\ r2 # None
  BY <1>4, SeqFacts, NoneIsNoValue
<1>6. f = l[LastSeq(g) + 1] /\ LastSeq(g) + 1 \in 1 .. b
  BY <1>2, <1>3, <1>4, <1>5
<1>7. f.seq = LastSeq(g) + 1
  BY <1>6, HeldFacts
<1>8. /\ Increasing(h) /\ LastSeq(h) = f.seq
      /\ \A i \in DOMAIN g : i \in DOMAIN h /\ h[i] = g[i]
      /\ \E i \in DOMAIN h : h[i] = f
  <2>1. f.seq > LastSeq(g) /\ Increasing(g)
    BY <1>2, <1>7 DEF Exact
  <2> QED
    BY <2>1, <1>4, GotNext
<1> HIDE DEF h
<1>9. \A k \in ak : k.seq <= LastSeq(h) => \E i \in DOMAIN h : h[i] = k
  <2> SUFFICES ASSUME NEW k \in ak, k.seq <= LastSeq(h) PROVE \E i \in DOMAIN h : h[i] = k
    OBVIOUS
  <2>1. k.seq \in Nat /\ l[k.seq] = k
    BY HeldFacts
  <2>2. CASE k.seq <= LastSeq(g)
    <3>1. PICK i \in DOMAIN g : g[i] = k
      BY <2>2 DEF Exact
    <3> QED
      BY <3>1, <1>8
  <2>3. CASE k.seq = LastSeq(g) + 1
    BY <2>1, <2>3, <1>6, <1>8
  <2>4. k.seq <= LastSeq(g) \/ k.seq = LastSeq(g) + 1
    BY <2>1, <1>2, <1>7, <1>8
  <2> QED
    BY <2>2, <2>3, <2>4
<1>10. LastSeq(h) <= b /\ LastSeq(h) = LastSeq(g) + 1 /\ LastSeq(h) <= st
  BY <1>2, <1>3, <1>4, <1>5, <1>7, <1>8
<1>11. ASSUME r2 = <<>>
       PROVE  LastSeq(h) >= st /\ \A i \in DOMAIN q : q[i].seq > LastSeq(h)
  <2>1. LastSeq(h) = st
    BY <1>11, <1>2, <1>3, <1>4, <1>5, <1>10
  <2> QED
    BY <2>1, <1>1 DEF Exact
<1>12. ASSUME r2 # <<>>
       PROVE  LastSeq(h) + Len(r2) = st /\ \A i \in DOMAIN r2 : r2[i] = l[LastSeq(h) + i]
  <2>1. LastSeq(h) + Len(r2) = st
    BY <1>2, <1>3, <1>4, <1>5, <1>10
  <2>2. ASSUME NEW i \in DOMAIN r2 PROVE r2[i] = l[LastSeq(h) + i]
    <3>1. i + 1 \in DOMAIN rp /\ r2[i] = rp[i + 1] /\ i \in Nat
      BY <2>2, <1>4, <1>5
    <3>2. LastSeq(g) + (i + 1) = LastSeq(h) + i
      BY <3>1, <1>2, <1>10
    <3> QED
      BY <3>1, <3>2, <1>3
  <2> QED
    BY <2>1, <2>2
<1>13. \A k \in ak : k.seq > st /\ k.seq > LastSeq(h) =>
           \/ \E i \in DOMAIN q : q[i] = k
           \/ c \notin ls /\ \A i \in DOMAIN q : k.seq > q[i].seq
  <2> SUFFICES ASSUME NEW k \in ak, k.seq > st
               PROVE  \/ \E i \in DOMAIN q : q[i] = k
                      \/ c \notin ls /\ \A i \in DOMAIN q : k.seq > q[i].seq
    OBVIOUS
  <2>1. k.seq > LastSeq(g)
    <3>1. k.seq \in Nat
      BY HeldFacts
    <3> QED
      BY <3>1, <1>2, <1>3, <1>5
  <2> QED
    BY <2>1, <1>1 DEF Exact
<1>14. Exact(l, b, ak, st, c, ls, q, r2, h)
  BY <1>1, <1>5, <1>8, <1>9, <1>10, <1>11, <1>12, <1>13 DEF Exact
<1> QED
  BY <1>14 DEF f, h, r2

\* A frame of the queue is sent.
LEMMA ExactLive ==
    ASSUME NEW l, NEW b, NEW ak, NEW st \in Nat, NEW c, NEW ls, NEW q \in Seq(Frames), q # <<>>,
           NEW g \in Seq(Frames),
           Held(l, b, ak), Exact(l, b, ak, st, c, ls, q, <<>>, g)
    PROVE  Exact(l, b, ak, st, c, ls, Tail(q), <<>>, Append(g, Head(q)))
<1> DEFINE f == Head(q)
           h == Append(g, f)
           q2 == Tail(q)
<1>1. st # None /\ <<>> # None
  BY NoneIsNoValue, NoneIsNotEmpty
<1>2. LastSeq(g) \in Nat /\ b \in Nat
  BY LastFacts, HeldFacts DEF Exact
<1>3. /\ st <= b /\ LastSeq(g) >= st /\ Increasing(q) /\ Increasing(g)
      /\ \A i \in DOMAIN q : q[i] \in ak /\ q[i].seq > st /\ q[i].seq > LastSeq(g)
      /\ \A k \in ak : k.seq > st /\ k.seq > LastSeq(g) =>
                \/ \E i \in DOMAIN q : q[i] = k
                \/ c \notin ls /\ \A i \in DOMAIN q : k.seq > q[i].seq
      /\ \A k \in ak : k.seq <= LastSeq(g) => \E i \in DOMAIN g : g[i] = k
  BY <1>1 DEF Exact
<1>4. /\ q2 \in Seq(Frames) /\ Len(q2) = Len(q) - 1 /\ f = q[1] /\ f \in Frames
      /\ Len(q) > 0 /\ \A i \in 1 .. Len(q2) : q2[i] = q[i + 1]
  BY Tailed
<1> HIDE DEF f, q2
<1>5. /\ DOMAIN q = 1 .. Len(q) /\ Len(q) \in Nat /\ DOMAIN q2 = 1 .. Len(q2)
      /\ Len(q2) \in Nat
  BY <1>4, SeqFacts
<1>6. 1 \in DOMAIN q /\ f \in ak /\ f.seq > LastSeq(g) /\ f.seq \in Nat /\ f.seq <= b
  <2>1. 1 \in DOMAIN q
    BY <1>4, <1>5
  <2>2. f \in ak /\ f.seq > LastSeq(g)
    BY <2>1, <1>3, <1>4
  <2> QED
    BY <2>1, <2>2, HeldFacts
<1>7. /\ Increasing(h) /\ LastSeq(h) = f.seq
      /\ \A i \in DOMAIN g : i \in DOMAIN h /\ h[i] = g[i]
      /\ \E i \in DOMAIN h : h[i] = f
  BY <1>3, <1>4, <1>6, GotNext
<1> HIDE DEF h
<1>8. \A i \in DOMAIN q2 : i + 1 \in DOMAIN q /\ q2[i] = q[i + 1] /\ q2[i].seq > f.seq
  <2> SUFFICES ASSUME NEW i \in DOMAIN q2
               PROVE  i + 1 \in DOMAIN q /\ q2[i] = q[i + 1] /\ q2[i].seq > f.seq
    OBVIOUS
  <2>1. i + 1 \in DOMAIN q /\ q2[i] = q[i + 1] /\ 1 < i + 1
    BY <1>4, <1>5
  <2>2. q[1].seq < q[i + 1].seq
    BY <2>1, <1>3, <1>6 DEF Increasing
  <2>3. q[i + 1] \in ak
    BY <2>1, <1>3
  <2>4. q[i + 1].seq \in Nat
    BY <2>3, HeldFacts
  <2> QED
    BY <2>1, <2>2, <2>4, <1>4, <1>6
<1>9. Increasing(q2)
  <2> SUFFICES ASSUME NEW i \in DOMAIN q2, NEW j \in DOMAIN q2, i < j
               PROVE  q2[i].seq < q2[j].seq
    BY DEF Increasing
  <2>1. q2[i] = q[i + 1] /\ q2[j] = q[j + 1] /\ i + 1 \in DOMAIN q /\ j + 1 \in DOMAIN q
    BY <1>8
  <2>2. i + 1 < j + 1
    BY <1>5
  <2> QED
    BY <2>1, <2>2, <1>3 DEF Increasing
<1>10. \A k \in ak : k.seq <= LastSeq(h) => \E i \in DOMAIN h : h[i] = k
  <2> SUFFICES ASSUME NEW k \in ak, k.seq <= f.seq PROVE \E i \in DOMAIN h : h[i] = k
    BY <1>7
  <2>1. k.seq \in Nat /\ st \in Nat
    BY HeldFacts
  <2>2. CASE k.seq <= LastSeq(g)
    <3>1. PICK i \in DOMAIN g : g[i] = k
      BY <2>2, <1>3
    <3> QED
      BY <3>1, <1>7
  <2>3. CASE k.seq > LastSeq(g)
    <3>1. k.seq > st
      BY <2>1, <2>3, <1>2, <1>3
    <3>2. ~(k.seq > f.seq)
      BY <2>1, <1>6
    <3>3. PICK i \in DOMAIN q : q[i] = k
      BY <3>1, <3>2, <2>3, <1>3, <1>4, <1>6
    <3>4. i = 1
      <4>1. SUFFICES ASSUME 1 < i PROVE FALSE
        BY <1>5, <3>3
      <4>2. q[1].seq < q[i].seq
        BY <4>1, <3>3, <1>3, <1>6 DEF Increasing
      <4> QED
        BY <4>2, <3>3, <2>1, <1>4, <1>6
    <3> QED
      BY <3>3, <3>4, <1>4, <1>7
  <2> QED
    BY <2>1, <2>2, <2>3, <1>2
<1>11. \A k \in ak : k.seq > st /\ k.seq > LastSeq(h) =>
           \/ \E i \in DOMAIN q2 : q2[i] = k
           \/ c \notin ls /\ \A i \in DOMAIN q2 : k.seq > q2[i].seq
  <2> SUFFICES ASSUME NEW k \in ak, k.seq > st, k.seq > f.seq
               PROVE  \/ \E i \in DOMAIN q2 : q2[i] = k
                      \/ c \notin ls /\ \A i \in DOMAIN q2 : k.seq > q2[i].seq
    BY <1>7
  <2>1. k.seq \in Nat /\ k.seq > LastSeq(g)
    <3>1. k.seq \in Nat
      BY HeldFacts
    <3> QED
      BY <3>1, <1>2, <1>6
  <2>2. CASE \E i \in DOMAIN q : q[i] = k
    <3>1. PICK i \in DOMAIN q : q[i] = k
      BY <2>2
    <3>2. i # 1
      BY <3>1, <2>1, <1>4, <1>6
    <3>3. i - 1 \in DOMAIN q2 /\ (i - 1) + 1 = i
      BY <3>1, <3>2, <1>4, <1>5
    <3>4. q2[i - 1] = q[(i - 1) + 1]
      BY <3>3, <1>8
    <3> QED
      BY <3>1, <3>3, <3>4
  <2>3. CASE c \notin ls /\ \A i \in DOMAIN q : k.seq > q[i].seq
    BY <2>3, <1>8
  <2> QED
    BY <2>1, <2>2, <2>3, <1>3
<1>12. \A i \in DOMAIN q2 : q2[i] \in ak /\ q2[i].seq > st /\ q2[i].seq > LastSeq(h)
  BY <1>3, <1>7, <1>8
<1>13. LastSeq(h) <= b /\ LastSeq(h) >= st
  BY <1>2, <1>3, <1>6, <1>7
<1>14. Exact(l, b, ak, st, c, ls, q2, <<>>, h)
  BY <1>1, <1>3, <1>7, <1>9, <1>10, <1>11, <1>12, <1>13 DEF Exact
<1> QED
  BY <1>14 DEF f, h, q2

\* A frame is published to a client.
LEMMA ExactPublish ==
    ASSUME NEW l, NEW b, NEW ak, NEW st, st = None \/ st \in Nat, NEW c, NEW ls,
           NEW q \in Seq(Frames), NEW rp, NEW g \in Seq(Frames),
           Held(l, b, ak), Exact(l, b, ak, st, c, ls, q, rp, g),
           NEW f \in Frames, b < f.seq, NEW ls2, NEW q2,
           \/ c \in ls /\ q2 = Append(q, f)
           \/ c \notin ls2 /\ q2 = q
    PROVE  Exact(l, f.seq, ak \cup {f}, st, c, ls2, q2, rp, g)
<1> DEFINE ak2 == ak \cup {f}
<1>1. LastSeq(g) \in Nat /\ b \in Nat /\ f.seq \in Nat /\ LastSeq(g) <= b
  BY LastFacts, HeldFacts, FrameFacts DEF Exact
<1>2. Increasing(g) /\ LastSeq(g) <= f.seq /\ ~(f.seq <= LastSeq(g))
  BY <1>1 DEF Exact
<1>3. \A k \in ak2 : k.seq <= LastSeq(g) => \E i \in DOMAIN g : g[i] = k
  BY <1>2 DEF Exact
<1>4. CASE st = None
  <2>1. c \notin ls /\ q = <<>> /\ rp = None
    BY <1>4 DEF Exact
  <2>2. q2 = <<>> /\ c \notin ls2
    BY <2>1
  <2> QED
    BY <1>2, <1>3, <1>4, <2>1, <2>2 DEF Exact
<1>5. CASE st # None
  <2>1. /\ st \in Nat /\ st <= b /\ Increasing(q)
        /\ \A i \in DOMAIN q : q[i] \in ak /\ q[i].seq > st
        /\ \A k \in ak : k.seq > st /\ k.seq > LastSeq(g) =>
                \/ \E i \in DOMAIN q : q[i] = k
                \/ c \notin ls /\ \A i \in DOMAIN q : k.seq > q[i].seq
    BY <1>5 DEF Exact
  <2>2. \A i \in DOMAIN q : q[i].seq \in Nat /\ q[i].seq <= b /\ f.seq > q[i].seq
    <3>1. \A i \in DOMAIN q : q[i].seq \in Nat /\ q[i].seq <= b
      BY <2>1, HeldFacts
    <3> QED
      BY <3>1, <1>1
  <2>3. st <= f.seq /\ f.seq > st /\ f.seq > LastSeq(g)
    BY <2>1, <1>1
  <2>4. CASE c \in ls /\ q2 = Append(q, f)
    <3>1. q2 = Append(q, f)
      BY <2>4
    <3>2. LastSeq(q) < f.seq
      <4>1. DOMAIN q = 1 .. Len(q) /\ Len(q) \in Nat /\ (q = <<>> <=> Len(q) = 0)
        BY SeqFacts
      <4>2. CASE q = <<>>
        BY <4>2, <1>1 DEF LastSeq
      <4>3. CASE q # <<>>
        <5>1. Len(q) \in DOMAIN q /\ LastSeq(q) = q[Len(q)].seq
          BY <4>1, <4>3 DEF LastSeq
        <5> QED
          BY <5>1, <2>2, <1>1
      <4> QED
        BY <4>2, <4>3
    <3>3. f.seq > LastSeq(q)
      <4>1. LastSeq(q) \in Nat
        BY <2>1, LastFacts
      <4> QED
        BY <4>1, <3>2, <1>1
    <3>4. /\ Increasing(q2)
          /\ \A i \in DOMAIN q : i \in DOMAIN q2 /\ q2[i] = q[i]
          /\ \E i \in DOMAIN q2 : q2[i] = f
      BY <2>1, <3>1, <3>3, GotNext
    <3>5. \A i \in DOMAIN q2 : q2[i] = f \/ (i \in DOMAIN q /\ q2[i] = q[i])
      <4>1. DOMAIN q = 1 .. Len(q) /\ Len(q) \in Nat
        BY SeqFacts
      <4>2. q2 \in Seq(Frames) /\ Len(q2) = Len(q) + 1 /\ q2[Len(q) + 1] = f
        BY <3>1, Appended
      <4>3. DOMAIN q2 = 1 .. Len(q2)
        BY <4>2, SeqFacts
      <4>4. \A i \in DOMAIN q2 : i = Len(q) + 1 \/ i \in DOMAIN q
        BY <4>1, <4>2, <4>3
      <4> QED
        BY <4>2, <4>4, <3>4
    <3>6. \A i \in DOMAIN q2 : q2[i] \in ak2 /\ q2[i].seq > st
      BY <3>5, <2>1, <2>3
    <3>7. \A k \in ak2 : k.seq > st /\ k.seq > LastSeq(g) => \E i \in DOMAIN q2 : q2[i] = k
      <4> SUFFICES ASSUME NEW k \in ak2, k.seq > st, k.seq > LastSeq(g)
                   PROVE  \E i \in DOMAIN q2 : q2[i] = k
        OBVIOUS
      <4>1. CASE k = f
        BY <4>1, <3>4
      <4>2. CASE k \in ak
        <5>1. PICK i \in DOMAIN q : q[i] = k
          BY <4>2, <2>1, <2>4
        <5> QED
          BY <5>1, <3>4
      <4> QED
        BY <4>1, <4>2
    <3>8. ASSUME rp = <<>>
          PROVE  LastSeq(g) >= st /\ \A i \in DOMAIN q2 : q2[i].seq > LastSeq(g)
      BY <3>5, <3>8, <2>3, <1>5 DEF Exact
    <3> QED
      BY <1>2, <1>3, <1>5, <2>3, <3>4, <3>6, <3>7, <3>8 DEF Exact
  <2>5. CASE c \notin ls2 /\ q2 = q
    <3>2. \A i \in DOMAIN q : q[i] \in ak2
      BY <2>1
    <3>3. \A k \in ak2 : k.seq > st /\ k.seq > LastSeq(g) =>
              \/ \E i \in DOMAIN q : q[i] = k
              \/ \A i \in DOMAIN q : k.seq > q[i].seq
      BY <2>1, <2>2
    <3> QED
      BY <1>2, <1>3, <1>5, <2>1, <2>3, <2>5, <3>2, <3>3 DEF Exact
  <2> QED
    BY <2>4, <2>5
<1> QED
  BY <1>4, <1>5

-----------------------------------------------------------------------------
(* All subscribers *)

SubsInv == SubsType /\ StreamInv

LEMMA HeldNow ==
    ASSUME FileInv
    PROVE  Held(log, Bound, acked) /\ Bound <= Settled
<1>1. /\ log \in Seq(Frames) /\ Numbered(log) /\ Len(log) \in Nat
      /\ Settled \in Nat /\ Settled <= Len(log)
  BY LogFacts
<1>2. /\ acked \subseteq Frames /\ synced \in Nat /\ synced <= Settled /\ high \in Nat
      /\ \A f \in acked : f.seq <= synced /\ log[f.seq] = f
  BY EventLogAssumption DEF FileInv, TypeInv, LogInv
<1>3. CASE up
  <2>1. Bound = high /\ high <= Settled /\ \A f \in acked : f.seq <= high
    BY <1>3 DEF Bound, FileInv, LogInv
  <2> QED
    BY <2>1, <1>1, <1>2 DEF Held
<1>4. CASE ~up
  <2>1. writing = None
    BY <1>4 DEF FileInv, LogInv
  <2>2. Settled = Len(log)
    BY <2>1, LogFacts
  <2>3. Bound = Len(log)
    BY <1>4 DEF Bound
  <2>4. \A f \in acked : f.seq <= Len(log)
    BY <2>2, <1>1, <1>2, FrameFacts
  <2> QED
    BY <2>2, <2>3, <2>4, <1>1, <1>2 DEF Held
<1> QED
  BY <1>3, <1>4

LEMMA ClientFacts ==
    ASSUME SubsInv, Kept, NEW c \in Clients
    PROVE  /\ Exact(log, Bound, acked, stream[c], c, listed, queue[c], replay[c], got[c])
           /\ stream[c] = None \/ stream[c] \in Nat
           /\ queue[c] \in Seq(Frames) /\ got[c] \in Seq(Frames)
           /\ replay[c] = None \/ replay[c] \in Seq(Frames)
           /\ LastSeq(got[c]) \in Nat
<1>1. Exact(log, Bound, acked, stream[c], c, listed, queue[c], replay[c], got[c])
  BY DEF SubsInv, StreamInv
<1>2. /\ stream[c] = None \/ stream[c] \in Nat
      /\ queue[c] \in Seq(Frames) /\ got[c] \in Seq(Frames)
      /\ replay[c] = None \/ replay[c] \in Seq(Frames)
  BY EventLogAssumption DEF SubsInv, SubsType
<1>3. Increasing(got[c])
  BY <1>1 DEF Exact
<1> QED
  BY <1>1, <1>2, <1>3, LastFacts

\* Steps that leave the subscribers and what they know of the log alone.
LEMMA SubsSame ==
    ASSUME FileInv, SubsInv, UNCHANGED <<subs, limits, acked>>, up => up',
           Kept => Bound' = Bound /\ KeepsPrefix
    PROVE  SubsInv'
<1>1. SubsType'
  BY DEF SubsInv, SubsType, subs
<1>2. ASSUME Kept', NEW c \in Clients
      PROVE  Exact(log', Bound', acked', stream'[c], c, listed', queue'[c], replay'[c], got'[c])
  <2>1. Kept /\ Bound' = Bound /\ acked' = acked /\ listed' = listed
        /\ stream'[c] = stream[c] /\ queue'[c] = queue[c] /\ replay'[c] = replay[c]
        /\ got'[c] = got[c] /\ KeepsPrefix
    BY <1>2 DEF Kept, subs
  <2>2. Held(log, Bound, acked) /\ Bound <= Settled /\ Settled \in Nat /\ Bound \in Nat
    BY HeldNow, HeldFacts, LogFacts
  <2>3. \A i \in 1 .. Bound : log'[i] = log[i]
    BY <2>1, <2>2 DEF KeepsPrefix
  <2>4. Exact(log', Bound, acked, stream[c], c, listed, queue[c], replay[c], got[c])
    BY <2>1, <2>2, <2>3, ClientFacts, ExactLog
  <2> QED
    BY <2>1, <2>4
<1>3. StreamInv'
  BY <1>2 DEF StreamInv
<1> QED
  BY <1>1, <1>3 DEF SubsInv

\* The daemon ends, and all streams with it.
LEMMA SubsDown ==
    ASSUME FileInv, FileInv', SubsInv, Down, UNCHANGED limits, Kept => KeepsPrefix
    PROVE  SubsInv'
<1>1. /\ \A c \in Clients : stream'[c] = None /\ queue'[c] = <<>> /\ replay'[c] = None
      /\ stream' = [c \in Clients |-> None] /\ queue' = [c \in Clients |-> <<>>]
      /\ replay' = [c \in Clients |-> None]
      /\ listed' = {} /\ got' = got /\ acked' = acked /\ up' = FALSE
  <2>1. listed \subseteq Clients
    BY DEF SubsInv, SubsType
  <2> QED
    BY <2>1 DEF Down, Closed
<1>2. SubsType'
  <2>1. <<>> \in Seq(Frames) /\ Len(<<>>) = 0
    OBVIOUS
  <2>2. queue' \in [Clients -> Seq(Frames)] /\ \A c \in Clients : Len(queue'[c]) <= QueueCapacity
    BY <2>1, <1>1, EventLogAssumption
  <2> QED
    BY <2>2, <1>1 DEF SubsInv, SubsType
<1>3. ASSUME Kept', NEW c \in Clients
      PROVE  Exact(log', Bound', acked', stream'[c], c, listed', queue'[c], replay'[c], got'[c])
  <2>1. Kept /\ KeepsPrefix
    BY <1>3 DEF Kept
  <2>2. Held(log, Bound, acked) /\ Bound <= Settled /\ Settled \in Nat /\ Bound \in Nat
    BY HeldNow, HeldFacts, LogFacts
  <2>3. Bound' = Len(log') /\ Settled' = Len(log')
    BY <1>1 DEF Bound, Settled, Unlocked, Down
  <2>4. Len(log') \in Nat /\ Bound <= Len(log')
    <3>1. log' \in Seq(Frames)
      BY DEF FileInv, TypeInv
    <3>2. Len(log') \in Nat /\ Settled <= Len(log')
      BY <3>1, <2>1, <2>3, SeqFacts DEF KeepsPrefix
    <3> QED
      BY <3>2, <2>2
  <2>5. Exact(log', Bound', acked, None, c, listed', <<>>, None, got[c])
    BY <2>1, <2>2, <2>3, <2>4, <1>1, ClientFacts, ExactClosed
  <2> QED
    BY <2>5, <1>1
<1>4. StreamInv'
  BY <1>3 DEF StreamInv
<1> QED
  BY <1>2, <1>4 DEF SubsInv

\* A client only depends on whether it is in the list itself.
LEMMA ExactListed ==
    ASSUME NEW l, NEW b, NEW ak, NEW st, NEW c, NEW ls, NEW q, NEW rp, NEW g,
           Exact(l, b, ak, st, c, ls, q, rp, g), NEW ls2, c \in ls2 <=> c \in ls
    PROVE  Exact(l, b, ak, st, c, ls2, q, rp, g)
BY DEF Exact

\* A step of one client.
LEMMA SubsOne ==
    ASSUME SubsInv, UNCHANGED fileVars, SubsType', NEW c \in Clients,
           \A d \in Clients \ {c} :
               /\ stream'[d] = stream[d] /\ queue'[d] = queue[d] /\ replay'[d] = replay[d]
               /\ got'[d] = got[d] /\ (d \in listed' <=> d \in listed),
           Kept => Exact(log, Bound, acked, stream'[c], c, listed', queue'[c], replay'[c], got'[c])
    PROVE  SubsInv'
<1>1. log' = log /\ Bound' = Bound /\ acked' = acked /\ Kept' = Kept
  BY DEF fileVars, Bound, Kept
<1>2. ASSUME Kept, NEW d \in Clients
      PROVE  Exact(log, Bound, acked, stream'[d], d, listed', queue'[d], replay'[d], got'[d])
  <2>1. CASE d = c
    BY <1>2, <2>1
  <2>2. CASE d # c
    <3>1. Exact(log, Bound, acked, stream[d], d, listed, queue[d], replay[d], got[d])
      BY <1>2, ClientFacts
    <3>2. Exact(log, Bound, acked, stream[d], d, listed', queue[d], replay[d], got[d])
      BY <3>1, <2>2, ExactListed
    <3> QED
      BY <3>2, <2>2
  <2> QED
    BY <2>1, <2>2
<1>3. StreamInv'
  BY <1>1, <1>2 DEF StreamInv
<1> QED
  BY <1>3 DEF SubsInv

LEMMA SubsSubscribe ==
    ASSUME FileInv, SubsInv, NEW c \in Clients, Subscribe(c), UNCHANGED limits
    PROVE  SubsInv'
<1>1. /\ up /\ stream[c] = None
      /\ stream' = [stream EXCEPT ![c] = high] /\ listed' = listed \cup {c}
      /\ queue' = [queue EXCEPT ![c] = <<>>] /\ replay' = [replay EXCEPT ![c] = None]
      /\ got' = got /\ UNCHANGED fileVars
  BY DEF Subscribe, fileVars, file, daemon, bounds
<1>2. high \in 0 .. MaxEvents /\ high # None /\ up' = up
  BY <1>1, NoneIsNoValue, EventLogAssumption DEF FileInv, TypeInv, fileVars
<1>3. SubsType'
  <2>1. <<>> \in Seq(Frames) /\ Len(<<>>) = 0 /\ QueueCapacity \in Nat
    BY EventLogAssumption
  <2>2. /\ queue' \in [Clients -> Seq(Frames)]
        /\ \A d \in Clients : Len(queue'[d]) <= QueueCapacity
    BY <2>1, <1>1 DEF SubsInv, SubsType
  <2>3. stream' \in [Clients -> 0 .. MaxEvents \cup {None}]
        /\ listed' \subseteq {d \in Clients : stream'[d] # None}
    BY <1>1, <1>2 DEF SubsInv, SubsType
  <2>4. replay' \in [Clients -> Seq(Frames) \cup {None}] /\ got' \in [Clients -> Seq(Frames)]
    BY <1>1 DEF SubsInv, SubsType
  <2> QED
    BY <2>2, <2>3, <2>4, <1>1, <1>2 DEF SubsType
<1>4. /\ stream'[c] = high /\ queue'[c] = <<>> /\ replay'[c] = None /\ got'[c] = got[c]
      /\ c \in listed'
  BY <1>1 DEF SubsInv, SubsType
<1>5. \A d \in Clients \ {c} :
          /\ stream'[d] = stream[d] /\ queue'[d] = queue[d] /\ replay'[d] = replay[d]
          /\ got'[d] = got[d] /\ (d \in listed' <=> d \in listed)
  BY <1>1 DEF SubsInv, SubsType
<1>6. ASSUME Kept
      PROVE  Exact(log, Bound, acked, stream'[c], c, listed', queue'[c], replay'[c], got'[c])
  <2>1. Bound = high
    BY <1>1 DEF Bound
  <2>2. Exact(log, Bound, acked, None, c, listed, queue[c], replay[c], got[c])
    BY <1>1, <1>6, ClientFacts
  <2>3. Exact(log, Bound, acked, Bound, c, listed', <<>>, None, got[c])
    BY <2>2, <1>4, HeldNow, ExactSubscribe
  <2> QED
    BY <2>1, <2>3, <1>4
<1> QED
  BY <1>1, <1>3, <1>5, <1>6, SubsOne

LEMMA SubsLoad ==
    ASSUME FileInv, SubsInv, NEW c \in Clients, LoadReplay(c), UNCHANGED limits
    PROVE  SubsInv'
<1> DEFINE rp == SelectReplay(log, stream[c], Cursor(c))
<1>1. /\ stream[c] # None /\ replay[c] = None
      /\ replay' = [replay EXCEPT ![c] = rp]
      /\ UNCHANGED <<stream, listed, queue, got>> /\ UNCHANGED fileVars
  BY DEF LoadReplay, fileVars, file, daemon, bounds
<1>2. stream[c] \in Nat /\ Cursor(c) = LastSeq(got[c]) /\ got[c] \in Seq(Frames)
      /\ queue[c] \in Seq(Frames)
  BY <1>1, EventLogAssumption DEF SubsInv, SubsType, Cursor, LastSeq
<1>3. log \in Seq(Frames) /\ Len(log) \in Nat
  BY LogFacts
<1>4. Cursor(c) \in Nat
  <2>1. CASE got[c] = <<>>
    BY <2>1 DEF Cursor
  <2>2. CASE got[c] # <<>>
    <3>1. got[c][Len(got[c])] \in Frames
      BY <2>2, <1>2, SeqFacts
    <3> QED
      BY <3>1, <2>2, FrameFacts DEF Cursor
  <2> QED
    BY <2>1, <2>2
<1>5. rp \in Seq(Frames)
  <2> DEFINE e == IF stream[c] < Len(log) THEN stream[c] ELSE Len(log)
  <2>1. e \in Nat /\ e <= Len(log)
    BY <1>2, <1>3
  <2>2. rp = SubSeq(log, Cursor(c) + 1, e)
    BY DEF SelectReplay
  <2> HIDE DEF e, rp
  <2> QED
    BY <2>1, <2>2, <1>3, <1>4, Ranged
<1>6. replay'[c] = rp
  BY <1>1 DEF SubsInv, SubsType
<1>7. SubsType'
  <2>1. replay' \in [Clients -> Seq(Frames) \cup {None}]
    <3> HIDE DEF rp
    <3> QED
      BY <1>1, <1>5 DEF SubsInv, SubsType
  <2> QED
    BY <2>1, <1>1 DEF SubsInv, SubsType, fileVars
<1>8. \A d \in Clients \ {c} :
          /\ stream'[d] = stream[d] /\ queue'[d] = queue[d] /\ replay'[d] = replay[d]
          /\ got'[d] = got[d] /\ (d \in listed' <=> d \in listed)
  BY <1>1 DEF SubsInv, SubsType
<1>9. ASSUME Kept
      PROVE  Exact(log, Bound, acked, stream'[c], c, listed', queue'[c], replay'[c], got'[c])
  <2>1. Exact(log, Bound, acked, stream[c], c, listed, queue[c], None, got[c])
    BY <1>1, <1>9, ClientFacts
  <2>2. Exact(log, Bound, acked, stream[c], c, listed, queue[c],
              SelectReplay(log, stream[c], LastSeq(got[c])), got[c])
    BY <2>1, <1>2, HeldNow, ExactLoad
  <2> QED
    BY <2>2, <1>1, <1>2, <1>6
<1> QED
  BY <1>1, <1>7, <1>8, <1>9, SubsOne

LEMMA SubsReplay ==
    ASSUME FileInv, SubsInv, NEW c \in Clients, SendReplay(c), UNCHANGED limits
    PROVE  SubsInv'
<1>1. /\ stream[c] # None /\ replay[c] # None /\ replay[c] # <<>>
      /\ got' = [got EXCEPT ![c] = Append(@, Head(replay[c]))]
      /\ replay' = [replay EXCEPT ![c] = Tail(@)]
      /\ UNCHANGED <<stream, listed, queue>> /\ UNCHANGED fileVars
  BY DEF SendReplay, fileVars, file, daemon, bounds
<1>2. /\ stream[c] \in Nat /\ replay[c] \in Seq(Frames) /\ got[c] \in Seq(Frames)
      /\ queue[c] \in Seq(Frames)
  BY <1>1, EventLogAssumption DEF SubsInv, SubsType
<1>3. Tail(replay[c]) \in Seq(Frames) /\ Head(replay[c]) \in Frames
  BY <1>1, <1>2, Tailed
<1>4. Append(got[c], Head(replay[c])) \in Seq(Frames)
  BY <1>2, <1>3, Appended
<1>5. replay'[c] = Tail(replay[c]) /\ got'[c] = Append(got[c], Head(replay[c]))
  BY <1>1 DEF SubsInv, SubsType
<1>6. SubsType'
  <2>1. replay' \in [Clients -> Seq(Frames) \cup {None}] /\ got' \in [Clients -> Seq(Frames)]
    BY <1>1, <1>3, <1>4 DEF SubsInv, SubsType
  <2> QED
    BY <2>1, <1>1 DEF SubsInv, SubsType, fileVars
<1>7. \A d \in Clients \ {c} :
          /\ stream'[d] = stream[d] /\ queue'[d] = queue[d] /\ replay'[d] = replay[d]
          /\ got'[d] = got[d] /\ (d \in listed' <=> d \in listed)
  BY <1>1 DEF SubsInv, SubsType
<1>8. ASSUME Kept
      PROVE  Exact(log, Bound, acked, stream'[c], c, listed', queue'[c], replay'[c], got'[c])
  <2>1. Exact(log, Bound, acked, stream[c], c, listed, queue[c], replay[c], got[c])
    BY <1>8, ClientFacts
  <2>2. Exact(log, Bound, acked, stream[c], c, listed, queue[c], Tail(replay[c]),
              Append(got[c], Head(replay[c])))
    BY <2>1, <1>1, <1>2, HeldNow, ExactReplay
  <2> QED
    BY <2>2, <1>1, <1>5
<1> QED
  BY <1>1, <1>6, <1>7, <1>8, SubsOne

LEMMA SubsLive ==
    ASSUME FileInv, SubsInv, NEW c \in Clients, SendLive(c), UNCHANGED limits
    PROVE  SubsInv'
<1>1. /\ stream[c] # None /\ replay[c] = <<>> /\ queue[c] # <<>>
      /\ got' = [got EXCEPT ![c] = Append(@, Head(queue[c]))]
      /\ queue' = [queue EXCEPT ![c] = Tail(@)]
      /\ UNCHANGED <<stream, listed, replay>> /\ UNCHANGED fileVars
  BY DEF SendLive, fileVars, file, daemon, bounds
<1>2. /\ stream[c] \in Nat /\ got[c] \in Seq(Frames) /\ queue[c] \in Seq(Frames)
      /\ Len(queue[c]) <= QueueCapacity /\ QueueCapacity \in Nat
  BY <1>1, EventLogAssumption DEF SubsInv, SubsType
<1>3. Tail(queue[c]) \in Seq(Frames) /\ Head(queue[c]) \in Frames
      /\ Len(Tail(queue[c])) = Len(queue[c]) - 1 /\ Len(queue[c]) > 0
  BY <1>1, <1>2, Tailed
<1>4. Append(got[c], Head(queue[c])) \in Seq(Frames)
  BY <1>2, <1>3, Appended
<1>5. queue'[c] = Tail(queue[c]) /\ got'[c] = Append(got[c], Head(queue[c]))
  BY <1>1 DEF SubsInv, SubsType
<1>6. SubsType'
  <2>1. queue' \in [Clients -> Seq(Frames)] /\ got' \in [Clients -> Seq(Frames)]
    BY <1>1, <1>3, <1>4 DEF SubsInv, SubsType
  <2>2. Len(queue[c]) \in Nat
    BY <1>2, SeqFacts
  <2>3. Len(Tail(queue[c])) <= QueueCapacity
    BY <2>2, <1>2, <1>3
  <2>4. \A d \in Clients : Len(queue'[d]) <= QueueCapacity
    BY <2>3, <1>1 DEF SubsInv, SubsType
  <2> QED
    BY <2>1, <2>4, <1>1 DEF SubsInv, SubsType, fileVars
<1>7. \A d \in Clients \ {c} :
          /\ stream'[d] = stream[d] /\ queue'[d] = queue[d] /\ replay'[d] = replay[d]
          /\ got'[d] = got[d] /\ (d \in listed' <=> d \in listed)
  BY <1>1 DEF SubsInv, SubsType
<1>8. ASSUME Kept
      PROVE  Exact(log, Bound, acked, stream'[c], c, listed', queue'[c], replay'[c], got'[c])
  <2>1. Exact(log, Bound, acked, stream[c], c, listed, queue[c], <<>>, got[c])
    BY <1>1, <1>8, ClientFacts
  <2>2. Exact(log, Bound, acked, stream[c], c, listed, Tail(queue[c]), <<>>,
              Append(got[c], Head(queue[c])))
    BY <2>1, <1>1, <1>2, HeldNow, ExactLive
  <2> QED
    BY <2>2, <1>1, <1>5
<1> QED
  BY <1>1, <1>6, <1>7, <1>8, SubsOne

LEMMA SubsClose ==
    ASSUME FileInv, SubsInv, NEW c \in Clients, Closed({c}), UNCHANGED fileVars
    PROVE  SubsInv'
<1>1. /\ stream' = [d \in Clients |-> IF d = c THEN None ELSE stream[d]]
      /\ queue' = [d \in Clients |-> IF d = c THEN <<>> ELSE queue[d]]
      /\ replay' = [d \in Clients |-> IF d = c THEN None ELSE replay[d]]
      /\ listed' = listed \ {c} /\ got' = got
  BY DEF Closed
<1>2. SubsType'
  <2>1. <<>> \in Seq(Frames) /\ Len(<<>>) = 0 /\ QueueCapacity \in Nat
    BY EventLogAssumption
  <2>2. /\ queue' \in [Clients -> Seq(Frames)]
        /\ \A d \in Clients : Len(queue'[d]) <= QueueCapacity
    BY <2>1, <1>1 DEF SubsInv, SubsType
  <2>3. stream' \in [Clients -> 0 .. MaxEvents \cup {None}]
        /\ listed' \subseteq {d \in Clients : stream'[d] # None}
    BY <1>1 DEF SubsInv, SubsType
  <2>4. replay' \in [Clients -> Seq(Frames) \cup {None}] /\ got' \in [Clients -> Seq(Frames)]
    BY <1>1 DEF SubsInv, SubsType
  <2>5. \A d \in Clients : stream'[d] # None => up'
    BY <1>1 DEF SubsInv, SubsType, fileVars
  <2> QED
    BY <2>2, <2>3, <2>4, <2>5 DEF SubsType
<1>3. /\ stream'[c] = None /\ queue'[c] = <<>> /\ replay'[c] = None /\ got'[c] = got[c]
      /\ c \notin listed'
  BY <1>1
<1>4. \A d \in Clients \ {c} :
          /\ stream'[d] = stream[d] /\ queue'[d] = queue[d] /\ replay'[d] = replay[d]
          /\ got'[d] = got[d] /\ (d \in listed' <=> d \in listed)
  BY <1>1
<1>5. ASSUME Kept
      PROVE  Exact(log, Bound, acked, stream'[c], c, listed', queue'[c], replay'[c], got'[c])
  <2>1. Bound \in Nat /\ Bound <= Bound
    BY HeldNow, HeldFacts
  <2>2. Exact(log, Bound, acked, None, c, listed', <<>>, None, got[c])
    BY <2>1, <1>3, <1>5, ClientFacts, ExactClosed
  <2> QED
    BY <2>2, <1>3
<1> QED
  BY <1>2, <1>4, <1>5, SubsOne

LEMMA SubsPublish ==
    ASSUME FileInv, SubsInv, Publish, UNCHANGED limits
    PROVE  SubsInv'
<1>1. /\ up /\ lane # None /\ high' = lane.seq
      /\ queue' = [c \in Clients |->
                     IF c \in listed /\ Len(queue[c]) < QueueCapacity
                     THEN Append(queue[c], lane) ELSE queue[c]]
      /\ listed' = {c \in listed : Len(queue[c]) < QueueCapacity}
      /\ acked' = acked \cup {lane}
      /\ UNCHANGED <<log, up, stream, replay, got>>
  BY DEF Publish, KeepsUp, file
<1>2. lane \in Frames /\ lane.seq = Len(log) /\ high < Len(log)
  <2>1. log # <<>> /\ lane = log[Len(log)] /\ high < Len(log)
    BY <1>1 DEF FileInv, LogInv
  <2>2. Len(log) \in Nat /\ (log = <<>> <=> Len(log) = 0)
        /\ \A i \in 1 .. Len(log) : log[i] \in Frames /\ log[i].seq = i
    BY LogFacts
  <2>3. Len(log) \in 1 .. Len(log)
    BY <2>1, <2>2
  <2> QED
    BY <2>1, <2>2, <2>3
<1>3. \A c \in Clients :
          \/ c \in listed /\ queue'[c] = Append(queue[c], lane) /\ Len(queue[c]) < QueueCapacity
          \/ c \notin listed' /\ queue'[c] = queue[c]
  BY <1>1
<1>4. SubsType'
  <2>1. \A c \in Clients : queue'[c] \in Seq(Frames) /\ Len(queue'[c]) <= QueueCapacity
    <3> SUFFICES ASSUME NEW c \in Clients
                 PROVE  queue'[c] \in Seq(Frames) /\ Len(queue'[c]) <= QueueCapacity
      OBVIOUS
    <3>1. queue[c] \in Seq(Frames) /\ Len(queue[c]) <= QueueCapacity /\ QueueCapacity \in Nat
          /\ Len(queue[c]) \in Nat
      BY EventLogAssumption, SeqFacts DEF SubsInv, SubsType
    <3>2. Append(queue[c], lane) \in Seq(Frames)
          /\ Len(Append(queue[c], lane)) = Len(queue[c]) + 1
      BY <3>1, <1>2, Appended
    <3>3. CASE queue'[c] = Append(queue[c], lane) /\ Len(queue[c]) < QueueCapacity
      <4>1. Len(queue[c]) + 1 <= QueueCapacity
        BY <3>1, <3>3
      <4> QED
        BY <4>1, <3>2, <3>3
    <3>4. CASE queue'[c] = queue[c]
      BY <3>1, <3>4
    <3> QED
      BY <3>3, <3>4, <1>3
  <2>2. queue' \in [Clients -> Seq(Frames)]
    <3>1. queue' = [c \in Clients |-> queue'[c]]
      BY <1>1
    <3> QED
      BY <3>1, <2>1
  <2> QED
    BY <2>1, <2>2, <1>1 DEF SubsInv, SubsType
<1>5. ASSUME Kept', NEW c \in Clients
      PROVE  Exact(log', Bound', acked', stream'[c], c, listed', queue'[c], replay'[c], got'[c])
  <2>1. Kept /\ Bound = high /\ Bound' = lane.seq
    BY <1>1, <1>5 DEF Kept, Bound
  <2>2. /\ Exact(log, Bound, acked, stream[c], c, listed, queue[c], replay[c], got[c])
        /\ stream[c] = None \/ stream[c] \in Nat
        /\ queue[c] \in Seq(Frames) /\ got[c] \in Seq(Frames)
    BY <2>1, ClientFacts
  <2>3. Bound < lane.seq
    BY <2>1, <1>2
  <2>4. \/ c \in listed /\ queue'[c] = Append(queue[c], lane)
        \/ c \notin listed' /\ queue'[c] = queue[c]
    BY <1>3
  <2>5. Held(log, Bound, acked)
    BY HeldNow
  <2>6. Exact(log, lane.seq, acked \cup {lane}, stream[c], c, listed', queue'[c], replay[c], got[c])
    BY <2>2, <2>3, <2>4, <2>5, <1>2, ExactPublish
  <2> QED
    BY <2>1, <2>6, <1>1
<1>6. StreamInv'
  BY <1>5 DEF StreamInv
<1> QED
  BY <1>4, <1>6 DEF SubsInv

LEMMA SubsRollBack ==
    ASSUME FileInv, SubsInv, RollBack, UNCHANGED limits
    PROVE  SubsInv'
<1>1. ~Kept /\ Kept' = Kept
  BY FileRollBack DEF Kept
<1>2. listed' = {} /\ UNCHANGED <<up, stream, queue, replay, got>>
  BY DEF RollBack
<1>3. SubsType'
  BY <1>2 DEF SubsInv, SubsType
<1> QED
  BY <1>1, <1>3 DEF SubsInv, StreamInv

LEMMA SubsStep ==
    ASSUME FileInv, SubsInv, [Next]_vars
    PROVE  SubsInv'
<1>1. FileInv' /\ (Kept => KeepsPrefix)
  BY FileStep
<1>2. CASE UNCHANGED vars
  BY <1>1, <1>2, SubsSame DEF vars, moves, file, daemon, Bound
<1>3. CASE Next
  <2>1. UNCHANGED limits
    BY <1>3 DEF Next
  <2>2. ASSUME NEW s \in Sessions, SessionStep(s) \/ InitializeSeen(s)
        PROVE  SubsInv'
    <3>1. UNCHANGED <<file, daemon, subs>>
      BY <2>2 DEF SessionStep, Track, InitializeSeen, InitializeOffset, BeginPass, ReadPage,
                  ReadFails, Deliver, DeliverSome
    <3> QED
      BY <3>1, <2>1, <1>1, SubsSame DEF file, daemon, Bound
  <2>3. ASSUME NEW c \in Clients, c \in limits.readers, ClientStep(c) \/ Disconnect(c)
        PROVE  SubsInv'
    <3>1. UNCHANGED fileVars
      BY <2>3, <1>3, ReaderSteps
    <3>2. CASE Subscribe(c)
      BY <3>2, <2>1, SubsSubscribe
    <3>3. CASE LoadReplay(c)
      BY <3>3, <2>1, SubsLoad
    <3>4. CASE SendReplay(c)
      BY <3>4, <2>1, SubsReplay
    <3>5. CASE SendLive(c)
      BY <3>5, <2>1, SubsLive
    <3>6. CASE EndStream(c) \/ Disconnect(c)
      BY <3>1, <3>6, SubsClose DEF EndStream, Disconnect
    <3> QED
      BY <2>3, <3>2, <3>3, <3>4, <3>5, <3>6 DEF ClientStep
  <2>4. CASE WriteEvent \/ Synced \/ AppendFails \/ Persist
    <3>1. UNCHANGED <<subs, acked, up, high>> /\ up
      BY <2>4 DEF WriteEvent, Synced, AppendFails, Persist, daemon
    <3>2. Bound' = Bound
      BY <3>1 DEF Bound
    <3> QED
      BY <3>1, <3>2, <2>1, <1>1, SubsSame
  <2>5. CASE Publish
    BY <2>1, <2>5, SubsPublish
  <2>6. CASE RollBack
    BY <2>1, <2>6, SubsRollBack
  <2>7. CASE Kill
    BY <2>1, <2>7, <1>1, SubsDown DEF Kill
  <2>8. CASE PowerFailure
    BY <2>1, <2>8, <1>1, SubsDown DEF PowerFailure
  <2>9. CASE Start
    <3>1. ~up /\ up' = TRUE /\ high' = TailSequence /\ UNCHANGED <<subs, acked, log>>
      BY <2>9 DEF Start, file
    <3>2. Bound' = Bound
      BY <3>1, LogFacts DEF Bound
    <3> QED
      BY <3>1, <3>2, <2>1, <1>1, SubsSame
  <2> QED
    BY <1>3, <2>2, <2>3, <2>4, <2>5, <2>6, <2>7, <2>8, <2>9 DEF Next
<1> QED
  BY <1>2, <1>3

LEMMA SubsInit ==
    ASSUME Init
    PROVE  SubsInv
<1>1. FileInv
  BY FileInit
<1>2. <<>> \in Seq(Frames) /\ Len(<<>>) = 0 /\ QueueCapacity \in Nat /\ DOMAIN <<>> = {}
  BY EventLogAssumption
<1>3. SubsType
  <2>1. queue \in [Clients -> Seq(Frames)] /\ got \in [Clients -> Seq(Frames)]
        /\ \A c \in Clients : Len(queue[c]) <= QueueCapacity
    BY <1>2 DEF Init
  <2> QED
    BY <2>1 DEF SubsType, Init
<1>4. ASSUME NEW c \in Clients
      PROVE  Exact(log, Bound, acked, stream[c], c, listed, queue[c], replay[c], got[c])
  <2>1. /\ acked = {} /\ stream[c] = None /\ queue[c] = <<>> /\ replay[c] = None
        /\ got[c] = <<>> /\ c \notin listed
    BY <1>4 DEF Init
  <2>2. Bound \in Nat
    BY <1>1, HeldNow, HeldFacts
  <2>3. LastSeq(got[c]) <= Bound /\ Increasing(got[c])
    BY <2>1, <2>2, <1>2 DEF LastSeq, Increasing
  <2> QED
    BY <2>1, <2>3 DEF Exact
<1> QED
  BY <1>3, <1>4 DEF SubsInv, StreamInv

-----------------------------------------------------------------------------
(* One session *)

\* The log l is settled up to m.
Known(l, m) == l \in Seq(Frames) /\ Numbered(l) /\ m \in Nat /\ m <= Len(l)

LEMMA KnownFacts ==
    ASSUME NEW l, NEW m, Known(l, m)
    PROVE  /\ l \in Seq(Frames) /\ m \in Nat /\ Len(l) \in Nat /\ m <= Len(l)
           /\ \A i \in 1 .. m : l[i] \in Frames /\ l[i].seq = i
<1>1. l \in Seq(Frames) /\ Numbered(l) /\ m \in Nat /\ m <= Len(l)
  BY DEF Known
<1>2. DOMAIN l = 1 .. Len(l) /\ Len(l) \in Nat /\ \A i \in 1 .. Len(l) : l[i] \in Frames
  BY <1>1, SeqFacts
<1> QED
  BY <1>1, <1>2 DEF Numbered

LEMMA HeardFacts ==
    ASSUME NEW h \in Seq(Frames)
    PROVE  /\ DOMAIN h = 1 .. Len(h) /\ Len(h) \in Nat
           /\ \A j \in DOMAIN h : h[j] \in Frames /\ h[j].seq \in Nat /\ h[j].seq >= 1
BY SeqFacts, FrameFacts

LEMMA OffsetFacts ==
    ASSUME NEW o \in Offsets
    PROVE  o.frames \in Nat /\ o.log \in Nat /\ o.mid \in BOOLEAN
BY DEF Offsets

LEMMA PassFacts ==
    ASSUME NEW p \in Passes
    PROVE  /\ p.seen \in Nat /\ p.offset \in Offsets /\ p.next \in Offsets
           /\ p.frames \in Seq(Frames) /\ p # None
BY NoneIsNoValue DEF Passes

\* The log changes beyond its settled part.
LEMMA HearsLog ==
    ASSUME NEW l, NEW m, NEW st, NEW s, NEW is, NEW sn \in Nat, NEW o \in Offsets, NEW p,
           p = None \/ p \in Passes, NEW fr \in Nat, NEW h \in Seq(Frames),
           m \in Nat, HearsAll(l, m, st, s, is, sn, o, p, fr, h),
           NEW l2, NEW m2, m2 \in Nat, m <= m2, \A i \in 1 .. m : l2[i] = l[i]
    PROVE  HearsAll(l2, m2, st, s, is, sn, o, p, fr, h)
<1>1. \A j \in DOMAIN h : h[j].seq \in Nat /\ h[j].seq >= 1
  BY HeardFacts
<1>2. o.frames \in Nat
  BY OffsetFacts
<1>3. \A j \in DOMAIN h : h[j].seq <= m2 /\ h[j] = l2[h[j].seq]
  BY <1>1 DEF HearsAll, Placed
<1>4. sn <= m2 /\ fr <= m2 /\ o.frames <= m2 /\ sn <= m
  BY <1>2 DEF HearsAll
<1>5. \A k \in Nat : k <= m /\ HeardBetween(l, fr, k, h) => HeardBetween(l2, fr, k, h)
  <2> SUFFICES ASSUME NEW k \in Nat, k <= m, HeardBetween(l, fr, k, h)
               PROVE  HeardBetween(l2, fr, k, h)
    OBVIOUS
  <2>1. \A i \in fr + 1 .. k : l2[i] = l[i]
    OBVIOUS
  <2> QED
    BY <2>1 DEF HeardBetween
<1>6. ASSUME p # None
      PROVE  p.offset.frames <= m2 /\ PassOK(l2, m2, st, o, p, fr, h)
  <2>1. /\ p.seen \in Nat /\ p.offset.frames \in Nat /\ p.next.frames \in Nat
        /\ p.frames \in Seq(Frames)
    BY <1>6, PassFacts, OffsetFacts
  <2>2. DOMAIN p.frames = 1 .. Len(p.frames) /\ Len(p.frames) \in Nat
    BY <2>1, SeqFacts
  <2>3. PassOK(l, m, st, o, p, fr, h) /\ p.offset.frames <= m
    BY <1>6 DEF HearsAll
  <2>4. p.seen <= m /\ HeardBetween(l, fr, p.seen, h)
    BY <2>3 DEF PassOK
  <2>5. p.seen <= m2 /\ HeardBetween(l2, fr, p.seen, h)
    BY <2>1, <2>4, <1>5
  <2>6. ASSUME st = "reading"
        PROVE  /\ p.next.frames <= m2
               /\ \A i \in DOMAIN p.frames : p.frames[i] = l2[p.next.frames - Len(p.frames) + i]
    <3>1. p.next.frames <= m /\ Len(p.frames) <= p.next.frames
          /\ \A i \in DOMAIN p.frames : p.frames[i] = l[p.next.frames - Len(p.frames) + i]
      BY <2>3, <2>6 DEF PassOK
    <3>2. \A i \in DOMAIN p.frames : p.next.frames - Len(p.frames) + i \in 1 .. m
      BY <3>1, <2>1, <2>2
    <3>3. p.next.frames <= m2
      BY <3>1, <2>1
    <3> QED
      BY <3>1, <3>2, <3>3, Zenon
  <2>7. PassOK(l2, m2, st, o, p, fr, h)
    BY <2>3, <2>5, <2>6 DEF PassOK
  <2> QED
    BY <2>1, <2>3, <2>7
<1>7. s \notin is => HeardBetween(l2, fr, sn, h)
  BY <1>4, <1>5 DEF HearsAll
<1> QED
  BY <1>3, <1>4, <1>6, <1>7 DEF HearsAll, Placed

\* Another session begins or ends its initialization.
LEMMA HearsOther ==
    ASSUME NEW l, NEW m, NEW st, NEW s, NEW is, NEW sn, NEW o, NEW p, NEW fr, NEW h,
           HearsAll(l, m, st, s, is, sn, o, p, fr, h), NEW is2, s \in is2 <=> s \in is
    PROVE  HearsAll(l, m, st, s, is2, sn, o, p, fr, h)
BY DEF HearsAll

\* A session tracks the task from n on.
LEMMA HearsTrack ==
    ASSUME NEW l, NEW m \in Nat, NEW st, NEW s, NEW is, NEW h \in Seq(Frames), h = <<>>,
           NEW n \in Nat, n <= m, NEW o \in Offsets, o.frames = n
    PROVE  HearsAll(l, m, st, s, is, n, o, None, n, h)
<1>1. DOMAIN h = {}
  BY HeardFacts
<1>2. n + 1 .. n = {}
  OBVIOUS
<1>3. HeardBetween(l, n, n, h) /\ Placed(l, m, h) /\ Increasing(h)
  BY <1>1, <1>2, Zenon DEF HeardBetween, Placed, Increasing
<1>4. Begins(o.frames, n, n) /\ o.frames <= m
  BY DEF Begins
<1> QED
  BY <1>1, <1>3, <1>4, Zenon DEF HearsAll

\* initialize has read the last sequence number.
LEMMA HearsSeen ==
    ASSUME NEW l, NEW m \in Nat, NEW st, NEW s, NEW is, NEW sn \in Nat, NEW o \in Offsets,
           NEW p, NEW fr \in Nat, NEW h \in Seq(Frames),
           HearsAll(l, m, st, s, is, sn, o, p, fr, h), NEW is2, s \in is2
    PROVE  HearsAll(l, m, st, s, is2, m, o, p, fr, h)
<1>1. o.frames \in Nat
  BY OffsetFacts
<1>2. Begins(o.frames, fr, m)
  BY <1>1 DEF HearsAll, Begins
<1>3. \A j \in DOMAIN h : h[j].seq <= m
  BY Zenon DEF HearsAll, Placed
<1>4. m <= m
  OBVIOUS
<1> QED
  BY <1>2, <1>3, <1>4, Zenon DEF HearsAll

\* ... and the length of the file.
LEMMA HearsOffset ==
    ASSUME NEW l, NEW m \in Nat, NEW st, NEW s, NEW is, NEW sn \in Nat, NEW o \in Offsets,
           NEW p, p = None \/ p \in Passes, NEW fr \in Nat, NEW h \in Seq(Frames),
           HearsAll(l, m, st, s, is, sn, o, p, fr, h),
           NEW is2, NEW o2 \in Offsets, o2.frames = m
    PROVE  HearsAll(l, m, st, s, is2, sn, o2, p, m, h)
<1>1. sn <= m /\ fr <= m /\ \A j \in DOMAIN h : h[j].seq <= sn
  BY DEF HearsAll
<1>2. HeardBetween(l, m, sn, h) /\ Begins(o2.frames, m, sn)
  <2>1. m + 1 .. sn = {}
    BY <1>1
  <2> QED
    BY <2>1, <1>1 DEF HeardBetween, Begins
<1>3. ASSUME p # None
      PROVE  PassOK(l, m, st, o2, p, m, h)
  <2>1. p.seen \in Nat /\ p.offset.frames \in Nat /\ p.next.frames \in Nat
        /\ Len(p.frames) \in Nat
    BY <1>3, PassFacts, OffsetFacts, SeqFacts
  <2>2. PassOK(l, m, st, o, p, fr, h) /\ p.offset.frames <= m
    BY <1>3 DEF HearsAll
  <2>3. p.seen <= m /\ \A j \in DOMAIN h : h[j].seq <= p.seen
    BY <2>2 DEF PassOK, HeardBetween
  <2>4. HeardBetween(l, m, p.seen, h)
    <3>1. m + 1 .. p.seen = {}
      BY <2>1, <2>3
    <3> QED
      BY <3>1, <2>3 DEF HeardBetween
  <2>5. Begins(o2.frames, m, p.seen) /\ Begins(p.offset.frames, m, p.seen)
    BY <2>1, <2>2 DEF Begins
  <2>6. st = "reading" => Begins(p.next.frames - Len(p.frames), m, p.seen)
    BY <2>1, <2>2, <1>1 DEF Begins, PassOK
  <2> QED
    BY <2>2, <2>3, <2>4, <2>5, <2>6 DEF PassOK
<1> QED
  BY <1>1, <1>2, <1>3 DEF HearsAll

\* A pass begins.
LEMMA HearsBegin ==
    ASSUME NEW l, NEW m \in Nat, NEW st, NEW s, NEW is, NEW sn \in Nat, NEW o \in Offsets,
           NEW fr \in Nat, NEW h \in Seq(Frames), s \notin is,
           HearsAll(l, m, st, s, is, sn, o, None, fr, h),
           NEW p \in Passes, p.seen = sn, p.offset = o
    PROVE  HearsAll(l, m, "polling", s, is, sn, o, p, fr, h)
<1>1. PassOK(l, m, "polling", o, p, fr, h)
  BY DEF HearsAll, PassOK
<1> QED
  BY <1>1 DEF HearsAll

\* A pass reads a page that starts after n frames and ends after e.
LEMMA HearsRead ==
    ASSUME NEW l, NEW m, Known(l, m), NEW st, NEW s, NEW is, NEW sn \in Nat,
           NEW o \in Offsets, NEW p \in Passes, NEW fr \in Nat, NEW h \in Seq(Frames),
           HearsAll(l, m, st, s, is, sn, o, p, fr, h),
           NEW n \in Nat, NEW e \in Nat, n <= e, e <= m,
           NEW fr2 \in Nat, fr <= fr2, fr2 <= m, n <= fr2 \/ n = p.offset.frames,
           NEW p2 \in Passes, p2.seen = p.seen, p2.offset = p.offset, p2.next.frames = e,
           p2.frames = SubSeq(l, n + 1, e)
    PROVE  HearsAll(l, m, "reading", s, is, sn, o, p2, fr2, h)
<1>1. p.seen \in Nat /\ p.offset.frames \in Nat /\ p # None /\ p2 # None /\ o.frames \in Nat
  BY PassFacts, OffsetFacts
<1>2. m \in Nat /\ l \in Seq(Frames) /\ m <= Len(l) /\ Len(l) \in Nat
  BY KnownFacts
<1>3. /\ Len(p2.frames) = e - n /\ p2.frames \in Seq(Frames)
      /\ \A i \in 1 .. Len(p2.frames) : p2.frames[i] = l[n + i]
  <2>1. e <= Len(l)
    BY <1>2
  <2>2. /\ SubSeq(l, n + 1, e) \in Seq(Frames)
        /\ Len(SubSeq(l, n + 1, e)) = IF n < e THEN e - n ELSE 0
        /\ \A i \in 1 .. Len(SubSeq(l, n + 1, e)) : SubSeq(l, n + 1, e)[i] = l[n + i]
    BY <2>1, <1>2, Ranged
  <2> QED
    BY <2>2
<1>4. p2.next.frames - Len(p2.frames) = n /\ DOMAIN p2.frames = 1 .. Len(p2.frames)
  BY <1>3, SeqFacts
<1>5. PassOK(l, m, st, o, p, fr, h) /\ p.offset.frames <= m
  BY <1>1 DEF HearsAll
<1>6. \A k \in Nat : HeardBetween(l, fr, k, h) => HeardBetween(l, fr2, k, h)
  <2> SUFFICES ASSUME NEW k \in Nat, HeardBetween(l, fr, k, h)
               PROVE  HeardBetween(l, fr2, k, h)
    OBVIOUS
  <2>1. \A i \in fr2 + 1 .. k : i \in fr + 1 .. k
    OBVIOUS
  <2> QED
    BY <2>1, Zenon DEF HeardBetween
<1>7. \A k, j \in Nat : Begins(k, fr, j) => Begins(k, fr2, j)
  BY DEF Begins
<1>8. HeardBetween(l, fr2, p.seen, h) /\ Begins(o.frames, fr2, p.seen)
      /\ Begins(p.offset.frames, fr2, p.seen)
  BY <1>1, <1>5, <1>6, <1>7 DEF PassOK
<1>9. Begins(n, fr2, p.seen)
  BY <1>8 DEF Begins
<1>10. PassOK(l, m, "reading", o, p2, fr2, h)
  <2>1. Len(p2.frames) <= e /\ p2.seen <= m
    BY <1>3, <1>5 DEF PassOK
  <2>2. \A i \in DOMAIN p2.frames : p2.frames[i] = l[p2.next.frames - Len(p2.frames) + i]
    BY <1>3, <1>4
  <2> QED
    BY <2>1, <2>2, <1>4, <1>8, <1>9 DEF PassOK
<1>11. (s \notin is => HeardBetween(l, fr2, sn, h)) /\ Begins(o.frames, fr2, sn)
  BY <1>1, <1>6, <1>7 DEF HearsAll
<1> QED
  BY <1>5, <1>10, <1>11 DEF HearsAll

\* A pass fails, or ends without a change.
LEMMA HearsNothing ==
    ASSUME NEW l, NEW m, NEW st, NEW s, NEW is, NEW sn, NEW o, NEW p, NEW fr, NEW h,
           HearsAll(l, m, st, s, is, sn, o, p, fr, h), NEW st2
    PROVE  HearsAll(l, m, st2, s, is, sn, o, None, fr, h)
BY DEF HearsAll

\* The frames of new follow the first b of the log l.
Follows(l, b, new) == \A i \in 1 .. Len(new) : new[i] = l[b + i]

\* What the first n frames of the page of a pass bring that is new: the frames of the log
\* after b, which is where the session was or where the page starts, and up to z.
Brings(l, fr, p, n, new, b, z) ==
    /\ z <= p.next.frames /\ (n = Len(p.frames) => z = p.next.frames)
    /\ p.seen <= b /\ (b <= p.seen \/ b <= fr)
    /\ new \in Seq(Frames)
    /\ Len(new) = IF b < z THEN z - b ELSE 0
    /\ Follows(l, b, new)

LEMMA NewFacts ==
    ASSUME NEW l, NEW m, Known(l, m), NEW o \in Offsets, NEW p \in Passes, NEW fr \in Nat,
           NEW h \in Seq(Frames), PassOK(l, m, "reading", o, p, fr, h),
           NEW n \in Nat, n <= Len(p.frames)
    PROVE  \E b, z \in Nat : Brings(l, fr, p, n, New(p, n), b, z)
<1> DEFINE start == p.next.frames - Len(p.frames)
           k == IF p.seen > start THEN p.seen - start ELSE 0
<1>1. p.seen \in Nat /\ p.next.frames \in Nat /\ p.frames \in Seq(Frames)
  BY PassFacts, OffsetFacts
<1>2. Len(p.frames) \in Nat /\ DOMAIN p.frames = 1 .. Len(p.frames)
  BY <1>1, SeqFacts
<1>3. /\ p.next.frames <= m /\ Len(p.frames) <= p.next.frames
      /\ Begins(start, fr, p.seen)
      /\ \A i \in DOMAIN p.frames : p.frames[i] = l[start + i]
  BY DEF PassOK
<1>4. start \in Nat /\ k \in Nat
  BY <1>1, <1>2, <1>3
<1>5. New(p, n) = SubSeq(p.frames, k + 1, n)
  BY DEF New
<1>6. p.seen <= start + k /\ (start + k <= p.seen \/ start + k <= fr)
  <2>1. CASE p.seen > start
    BY <2>1, <1>1, <1>4
  <2>2. CASE ~(p.seen > start)
    <3>1. k = 0 /\ p.seen <= start
      BY <2>2, <1>1, <1>4
    <3> QED
      BY <3>1, <1>1, <1>3, <1>4 DEF Begins
  <2> QED
    BY <2>1, <2>2
<1> HIDE DEF k
<1>7. /\ SubSeq(p.frames, k + 1, n) \in Seq(Frames)
      /\ Len(SubSeq(p.frames, k + 1, n)) = IF k < n THEN n - k ELSE 0
      /\ \A i \in 1 .. Len(SubSeq(p.frames, k + 1, n)) :
            SubSeq(p.frames, k + 1, n)[i] = p.frames[k + i]
  BY <1>1, <1>4, Ranged
<1>8. \A i \in 1 .. Len(New(p, n)) : New(p, n)[i] = l[start + k + i]
  <2> SUFFICES ASSUME NEW i \in 1 .. Len(New(p, n))
               PROVE  New(p, n)[i] = l[start + k + i]
    OBVIOUS
  <2>1. k < n /\ i <= n - k
    BY <1>5, <1>7, <1>4
  <2>2. k + i \in DOMAIN p.frames
    BY <2>1, <1>2, <1>4
  <2>3. p.frames[k + i] = l[start + (k + i)]
    BY <2>2, <1>3
  <2>4. start + (k + i) = start + k + i
    BY <1>4
  <2> QED
    BY <2>3, <2>4, <1>5, <1>7
<1> DEFINE b == start + k
           z == start + n
<1>9. b \in Nat /\ z \in Nat
  BY <1>4
<1>10. Len(New(p, n)) = IF b < z THEN z - b ELSE 0
  BY <1>4, <1>5, <1>7
<1>11. New(p, n) \in Seq(Frames)
  BY <1>5, <1>7
<1> HIDE DEF start
<1>12. p.seen <= b /\ (b <= p.seen \/ b <= fr)
  BY <1>6
<1>13. Follows(l, b, New(p, n))
  BY <1>8 DEF Follows
<1>14. z <= p.next.frames /\ (n = Len(p.frames) => z = p.next.frames)
  BY <1>1, <1>2 DEF start
<1> HIDE DEF b, z
<1>15. Brings(l, fr, p, n, New(p, n), b, z)
  BY <1>10, <1>11, <1>12, <1>13, <1>14 DEF Brings
<1> QED
  BY <1>9, <1>15, Zenon

\* What the frames of h \o new are.
Joins(h, new, g) ==
    /\ \A j \in DOMAIN h : j \in DOMAIN g /\ g[j] = h[j]
    /\ \A i \in 1 .. Len(new) : Len(h) + i \in DOMAIN g /\ g[Len(h) + i] = new[i]
    /\ \A j \in DOMAIN g : j \in DOMAIN h \/ \E i \in 1 .. Len(new) : j = Len(h) + i

LEMMA JoinFacts ==
    ASSUME NEW h \in Seq(Frames), NEW new \in Seq(Frames), NEW g, g = h \o new
    PROVE  g \in Seq(Frames) /\ Joins(h, new, g)
<1>1. /\ g \in Seq(Frames) /\ Len(g) = Len(h) + Len(new)
      /\ \A i \in 1 .. Len(h) : g[i] = h[i]
      /\ \A i \in 1 .. Len(new) : g[Len(h) + i] = new[i]
  BY Joined
<1>2. /\ DOMAIN h = 1 .. Len(h) /\ Len(h) \in Nat /\ Len(new) \in Nat
      /\ DOMAIN g = 1 .. Len(h) + Len(new)
  BY <1>1, SeqFacts
<1>3. \A j \in DOMAIN g : j \in DOMAIN h \/ j - Len(h) \in 1 .. Len(new)
  BY <1>2
<1>4. \A j \in DOMAIN g : j = Len(h) + (j - Len(h))
  BY <1>2
<1>5. \A j \in DOMAIN h : j \in DOMAIN g
  BY <1>2
<1>6. \A i \in 1 .. Len(new) : Len(h) + i \in DOMAIN g
  BY <1>2
<1>7. \A j \in DOMAIN g : j \in DOMAIN h \/ \E i \in 1 .. Len(new) : j = Len(h) + i
  BY <1>3, <1>4, Zenon
<1>8. \A j \in DOMAIN h : g[j] = h[j]
  BY <1>1, <1>2, Zenon
<1> QED
  BY <1>1, <1>5, <1>6, <1>7, <1>8, Zenon DEF Joins

LEMMA JoinIncreasing ==
    ASSUME NEW h \in Seq(Frames), NEW new \in Seq(Frames), NEW b \in Nat, Increasing(h),
           \A j \in DOMAIN h : h[j].seq <= b,
           \A i \in 1 .. Len(new) : new[i].seq = b + i,
           NEW g, g = h \o new
    PROVE  Increasing(g)
<1> SUFFICES ASSUME NEW i \in DOMAIN g, NEW j \in DOMAIN g, i < j
             PROVE  g[i].seq < g[j].seq
  BY Zenon DEF Increasing
<1>1. /\ DOMAIN h = 1 .. Len(h) /\ Len(h) \in Nat
      /\ \A k \in DOMAIN h : h[k].seq \in Nat
  BY HeardFacts
<1>2. /\ \A k \in DOMAIN h : g[k] = h[k]
      /\ \A k \in 1 .. Len(new) : g[Len(h) + k] = new[k]
      /\ \A k \in DOMAIN g : k \in DOMAIN h \/ \E x \in 1 .. Len(new) : k = Len(h) + x
  <2>1. Joins(h, new, g)
    BY JoinFacts
  <2> QED
    BY <2>1, Zenon DEF Joins
<1>3. CASE j \in DOMAIN h
  <2>1. i \in DOMAIN h
    <3>1. CASE \E x \in 1 .. Len(new) : i = Len(h) + x
      BY <3>1, <1>1, <1>3
    <3> QED
      BY <3>1, <1>2
  <2>2. h[i].seq < h[j].seq
    BY <2>1, <1>3, Zenon DEF Increasing
  <2> QED
    BY <2>1, <2>2, <1>2, <1>3, Zenon
<1>4. ASSUME NEW y \in 1 .. Len(new), j = Len(h) + y
      PROVE  g[i].seq < g[j].seq
  <2>1. g[j].seq = b + y
    BY <1>2, <1>4, Zenon
  <2>2. CASE i \in DOMAIN h
    <3>1. h[i].seq <= b /\ h[i].seq \in Nat /\ g[i] = h[i]
      BY <2>2, <1>1, <1>2, Zenon
    <3>2. \A x \in Nat : x <= b => x < b + y
      OBVIOUS
    <3> QED
      BY <3>1, <3>2, <2>1, Zenon
  <2>3. ASSUME NEW x \in 1 .. Len(new), i = Len(h) + x
        PROVE  g[i].seq < g[j].seq
    <3>1. g[i].seq = b + x
      BY <1>2, <2>3, Zenon
    <3>2. b + x < b + y
      BY <1>1, <1>4, <2>3
    <3> QED
      BY <3>1, <3>2, <2>1, Zenon
  <2> QED
    BY <2>2, <2>3, <1>2, Zenon
<1> QED
  BY <1>2, <1>3, <1>4, Zenon

\* The session that had seen sn, and heard h, hears the frames new of the log after b and
\* up to z; its offset becomes o.
Gains(l, m, fr, h, sn, b, z, new, o, g) ==
    /\ g = h \o new
    /\ fr \in Nat /\ fr <= m
    /\ h \in Seq(Frames) /\ Increasing(h) /\ Placed(l, m, h)
    /\ sn \in Nat /\ HeardBetween(l, fr, sn, h)
    /\ b \in Nat /\ sn <= b /\ (b <= sn \/ b <= fr)
    /\ z \in Nat /\ b < z /\ z <= m
    /\ new \in Seq(Frames) /\ Len(new) = z - b /\ Follows(l, b, new)
    /\ o \in Offsets /\ o.frames <= m /\ Begins(o.frames, fr, z)

LEMMA HearsNew ==
    ASSUME NEW l, NEW m, Known(l, m), NEW s, NEW is, NEW fr, NEW h, NEW sn, NEW b, NEW z,
           NEW new, NEW o, NEW g, Gains(l, m, fr, h, sn, b, z, new, o, g)
    PROVE  /\ HearsAll(l, m, "idle", s, is, z, o, None, fr, g)
           /\ new[Len(new)].seq = z
<1> USE DEF Gains
<1>1. m \in Nat /\ \A i \in 1 .. m : l[i].seq = i
  BY KnownFacts
<1>2. \A j \in DOMAIN h : h[j].seq \in Nat
  BY HeardFacts
<1>3. \A i \in 1 .. Len(new) : b + i \in 1 .. m /\ b + i <= z
  BY <1>1
<1>4. \A i \in 1 .. Len(new) : new[i].seq = b + i
  BY <1>1, <1>3, Zenon DEF Follows
<1>5. /\ \A j \in DOMAIN h : j \in DOMAIN g /\ g[j] = h[j]
      /\ \A i \in 1 .. Len(new) : Len(h) + i \in DOMAIN g /\ g[Len(h) + i] = new[i]
      /\ \A j \in DOMAIN g : j \in DOMAIN h \/ \E i \in 1 .. Len(new) : j = Len(h) + i
  <2>1. Joins(h, new, g)
    BY JoinFacts
  <2> QED
    BY <2>1, Zenon DEF Joins
<1>6. \A j \in DOMAIN h : h[j].seq <= sn
  BY Zenon DEF HeardBetween
<1>7. \A x \in Nat : x <= sn => x <= b /\ x <= z
  OBVIOUS
<1>8. Increasing(g)
  <2>1. \A j \in DOMAIN h : h[j].seq <= b
    BY <1>2, <1>6, <1>7, Zenon
  <2> QED
    BY <2>1, <1>4, JoinIncreasing
<1>9. ASSUME NEW j \in DOMAIN g
      PROVE  g[j].seq <= m /\ g[j] = l[g[j].seq] /\ g[j].seq <= z
  <2>1. CASE j \in DOMAIN h
    BY <2>1, <1>2, <1>5, <1>6, <1>7, Zenon DEF Placed
  <2>2. ASSUME NEW i \in 1 .. Len(new), j = Len(h) + i
        PROVE  g[j].seq <= m /\ g[j] = l[g[j].seq] /\ g[j].seq <= z
    <3>1. g[j] = new[i] /\ new[i] = l[b + i] /\ new[i].seq = b + i
      BY <2>2, <1>4, <1>5, Zenon DEF Follows
    <3>2. b + i <= m /\ b + i <= z
      BY <1>1, <1>3
    <3> QED
      BY <3>1, <3>2, Zenon
  <2> QED
    BY <2>1, <2>2, <1>5, Zenon
<1>10. ASSUME NEW i \in fr + 1 .. z
       PROVE  \E j \in DOMAIN g : g[j] = l[i]
  <2>1. CASE i <= sn
    <3>1. i \in fr + 1 .. sn
      BY <2>1
    <3>2. PICK j \in DOMAIN h : h[j] = l[i]
      BY <3>1, Zenon DEF HeardBetween
    <3> QED
      BY <3>2, <1>5, Zenon
  <2>2. CASE i > sn
    <3>1. i - b \in 1 .. Len(new) /\ b + (i - b) = i
      BY <2>2
    <3>2. PICK x \in 1 .. Len(new) : b + x = i
      BY <3>1, Zenon
    <3>3. new[x] = l[i]
      BY <3>2, Zenon DEF Follows
    <3> QED
      BY <3>2, <3>3, <1>5, Zenon
  <2> QED
    BY <2>1, <2>2
<1>11. HeardBetween(l, fr, z, g)
  BY <1>9, <1>10, Zenon DEF HeardBetween
<1>12. new[Len(new)].seq = z
  <2>1. Len(new) \in 1 .. Len(new) /\ b + Len(new) = z
    OBVIOUS
  <2> QED
    BY <2>1, <1>4, Zenon
<1> QED
  BY <1>8, <1>9, <1>11, <1>12, Zenon DEF HearsAll, Placed

\* A pass that had nothing new moves the offset.
LEMMA HearsMoved ==
    ASSUME NEW l, NEW m, NEW s, NEW is, NEW o \in Offsets, NEW p \in Passes,
           NEW fr \in Nat, fr <= m, NEW h,
           PassOK(l, m, "reading", o, p, fr, h), Increasing(h),
           Placed(l, m, h),
           NEW b \in Nat, b <= p.seen \/ b <= fr, p.next.frames <= b
    PROVE  HearsAll(l, m, "idle", s, is, p.seen, p.next, None, fr, h)
<1>1. p.seen \in Nat /\ p.next.frames \in Nat
  BY PassFacts, OffsetFacts
<1>2. Begins(p.next.frames, fr, p.seen)
  BY <1>1 DEF Begins
<1>3. p.seen <= m /\ p.next.frames <= m /\ HeardBetween(l, fr, p.seen, h)
  BY DEF PassOK
<1>4. \A j \in DOMAIN h : h[j].seq <= p.seen
  BY <1>3 DEF HeardBetween
<1> QED
  BY <1>2, <1>3, <1>4 DEF HearsAll, Placed

-----------------------------------------------------------------------------
(* Sessions hear all *)

HearingInv == SessionType /\ SessionInv

LEMMA SessionFacts ==
    ASSUME FileInv, HearingInv, NEW s \in Sessions
    PROVE  /\ session[s] \in States /\ seen[s] \in Nat /\ offset[s] \in Offsets
           /\ page[s] = None \/ page[s] \in Passes
           /\ from[s] \in Nat /\ heard[s] \in Seq(Frames)
           /\ Plain(session[s], offset[s], page[s], heard[s], rollbacks)
           /\ rollbacks \in Nat
           /\ Kept => /\ rollbacks = 0
                      /\ HearsAll(log, Settled, session[s], s, initializing, seen[s],
                                  offset[s], page[s], from[s], heard[s])
<1>1. SessionType /\ SessionInv
  BY DEF HearingInv
<1>2. /\ session[s] \in States /\ seen[s] \in Nat /\ offset[s] \in Offsets
      /\ page[s] = None \/ page[s] \in Passes
      /\ from[s] \in Nat /\ heard[s] \in Seq(Frames)
  BY <1>1 DEF SessionType
<1>3. Plain(session[s], offset[s], page[s], heard[s], rollbacks) /\ (Kept => rollbacks = 0)
  BY <1>1, Zenon DEF SessionType
<1>4. rollbacks \in Nat
  BY DEF FileInv, TypeInv
<1>5. Kept => HearsAll(log, Settled, session[s], s, initializing, seen[s], offset[s],
                       page[s], from[s], heard[s])
  BY <1>1, Zenon DEF SessionInv
<1> QED
  BY <1>2, <1>3, <1>4, <1>5

LEMMA SettledNow ==
    ASSUME FileInv
    PROVE  /\ Known(log, Settled)
           /\ Unlocked => Settled = Len(log)
BY LogFacts DEF Known, Unlocked

LEMMA SettledNext ==
    ASSUME FileInv'
    PROVE  Settled' \in Nat
<1>1. (log \in Seq(Frames) /\ synced \in Nat /\ synced <= Settled)'
  BY DEF FileInv, TypeInv, LogInv
<1>2. Len(log') \in Nat /\ Settled' \in {Len(log'), Len(log') - 1}
  BY <1>1, SeqFacts DEF Settled
<1> QED
  BY <1>1, <1>2

\* Steps that leave the sessions alone.
LEMMA HearingSame ==
    ASSUME FileInv, FileInv', Kept => KeepsPrefix, HearingInv, UNCHANGED <<mcp, limits>>,
           rollbacks <= rollbacks', Kept => rollbacks' = rollbacks
    PROVE  HearingInv'
<1>1. /\ UNCHANGED <<session, initializing, seen, offset, page, from, heard>>
      /\ Kept' = Kept
  BY DEF mcp, Kept
<1>2. rollbacks \in Nat /\ rollbacks' \in Nat
  BY DEF FileInv, TypeInv
<1>3. ASSUME NEW s \in Sessions
      PROVE  Plain(session[s], offset[s], page[s], heard[s], rollbacks')
  <2>1. Plain(session[s], offset[s], page[s], heard[s], rollbacks)
        /\ offset[s] \in Offsets /\ (page[s] = None \/ page[s] \in Passes)
    BY SessionFacts
  <2>2. \A o \in Offsets : o.log <= rollbacks => o.log <= rollbacks'
    BY <1>2, OffsetFacts
  <2>3. page[s] # None => page[s].offset \in Offsets /\ page[s].next \in Offsets
    BY <2>1, PassFacts
  <2> QED
    BY <2>1, <2>2, <2>3, Zenon DEF Plain
<1>4. SessionType'
  <2>1. SessionType
    BY DEF HearingInv
  <2>2. (Kept => rollbacks = 0)'
    BY <2>1, <1>1 DEF SessionType
  <2> QED
    BY <2>1, <2>2, <1>1, <1>3, Zenon DEF SessionType
<1>5. ASSUME Kept, NEW s \in Sessions
      PROVE  HearsAll(log', Settled', session[s], s, initializing, seen[s], offset[s],
                      page[s], from[s], heard[s])
  <2>1. Settled \in Nat /\ Settled' \in Nat
    BY LogFacts, SettledNext
  <2>2. Settled <= Settled' /\ \A i \in 1 .. Settled : log'[i] = log[i]
    BY <1>5 DEF KeepsPrefix
  <2>3. /\ seen[s] \in Nat /\ offset[s] \in Offsets /\ (page[s] = None \/ page[s] \in Passes)
        /\ from[s] \in Nat /\ heard[s] \in Seq(Frames)
        /\ HearsAll(log, Settled, session[s], s, initializing, seen[s], offset[s],
                    page[s], from[s], heard[s])
    BY <1>5, SessionFacts
  <2> QED
    BY <2>1, <2>2, <2>3, HearsLog
<1>6. SessionInv'
  BY <1>1, <1>5, Zenon DEF SessionInv
<1> QED
  BY <1>4, <1>6 DEF HearingInv

\* A step of one session.
LEMMA HearingOne ==
    ASSUME FileInv, HearingInv, UNCHANGED fileVars, NEW s \in Sessions,
           NEW st \in States, NEW is, NEW sn \in Nat, NEW o \in Offsets, NEW p,
           p = None \/ p \in Passes, NEW fr \in Nat, NEW h \in Seq(Frames),
           session' = [session EXCEPT ![s] = st],
           initializing' = is, is \subseteq Sessions,
           \A x \in Sessions \ {s} : x \in is <=> x \in initializing,
           seen' = [seen EXCEPT ![s] = sn],
           offset' = [offset EXCEPT ![s] = o],
           page' = [page EXCEPT ![s] = p],
           from' = [from EXCEPT ![s] = fr],
           heard' = [heard EXCEPT ![s] = h],
           Plain(st, o, p, h, rollbacks),
           Kept => HearsAll(log, Settled, st, s, is, sn, o, p, fr, h)
    PROVE  HearingInv'
<1>1. log' = log /\ Settled' = Settled /\ Kept' = Kept /\ rollbacks' = rollbacks
  BY DEF fileVars, Settled, Unlocked, Kept
<1>2. SessionType
  BY DEF HearingInv
<1>3. ASSUME NEW x \in Sessions
      PROVE  \/ /\ x = s /\ session'[x] = st /\ seen'[x] = sn /\ offset'[x] = o
                /\ page'[x] = p /\ from'[x] = fr /\ heard'[x] = h
             \/ /\ x # s /\ session'[x] = session[x] /\ seen'[x] = seen[x]
                /\ offset'[x] = offset[x] /\ page'[x] = page[x] /\ from'[x] = from[x]
                /\ heard'[x] = heard[x]
  BY <1>2 DEF SessionType
<1>4. /\ session' \in [Sessions -> States] /\ seen' \in [Sessions -> Nat]
      /\ offset' \in [Sessions -> Offsets] /\ page' \in [Sessions -> Passes \cup {None}]
      /\ from' \in [Sessions -> Nat] /\ heard' \in [Sessions -> Seq(Frames)]
  BY <1>2 DEF SessionType
<1>5. ASSUME NEW x \in Sessions
      PROVE  Plain(session'[x], offset'[x], page'[x], heard'[x], rollbacks)
  <2>1. Plain(session[x], offset[x], page[x], heard[x], rollbacks)
    BY SessionFacts
  <2> QED
    BY <2>1, <1>3, Zenon
<1>6. SessionType'
  BY <1>1, <1>2, <1>4, <1>5, Zenon DEF SessionType
<1>7. ASSUME Kept, NEW x \in Sessions
      PROVE  HearsAll(log, Settled, session'[x], x, is, seen'[x], offset'[x], page'[x],
                      from'[x], heard'[x])
  <2>1. CASE x = s
    BY <2>1, <1>3, <1>7, Zenon
  <2>2. CASE x # s
    <3>1. HearsAll(log, Settled, session[x], x, initializing, seen[x], offset[x], page[x],
                   from[x], heard[x])
      BY <1>7, SessionFacts
    <3>2. HearsAll(log, Settled, session[x], x, is, seen[x], offset[x], page[x],
                   from[x], heard[x])
      BY <3>1, <2>2, HearsOther
    <3> QED
      BY <3>2, <2>2, <1>3, Zenon
  <2> QED
    BY <2>1, <2>2
<1>8. SessionInv'
  BY <1>1, <1>7, Zenon DEF SessionInv
<1> QED
  BY <1>6, <1>8 DEF HearingInv

LEMMA PageFacts ==
    ASSUME FileInv, NEW n \in Nat, n <= Len(log)
    PROVE  /\ PageEnd(n) \in Nat /\ n <= PageEnd(n) /\ PageEnd(n) <= Len(log)
           /\ At(PageEnd(n)) \in Offsets
           /\ At(PageEnd(n)).frames = PageEnd(n) /\ At(PageEnd(n)).log = rollbacks
<1>1. Len(log) \in Nat /\ PageFrames \in Nat /\ rollbacks \in Nat
  BY LogFacts, EventLogAssumption DEF FileInv, TypeInv
<1>2. PageEnd(n) \in Nat /\ n <= PageEnd(n) /\ PageEnd(n) <= Len(log)
  BY <1>1 DEF PageEnd
<1> QED
  BY <1>1, <1>2 DEF At, Offsets

LEMMA HearingTrack ==
    ASSUME FileInv, HearingInv, NEW s \in Sessions, Track(s), UNCHANGED fileVars
    PROVE  HearingInv'
<1> DEFINE n == PageEnd(0)
<1>1. /\ session[s] = "untracked" /\ Unlocked
      /\ session' = [session EXCEPT ![s] = "idle"]
      /\ seen' = [seen EXCEPT ![s] = n]
      /\ offset' = [offset EXCEPT ![s] = At(n)]
      /\ from' = [from EXCEPT ![s] = n]
      /\ UNCHANGED <<initializing, page, heard>>
  BY DEF Track
<1>2. /\ page[s] = None \/ page[s] \in Passes
      /\ heard[s] \in Seq(Frames)
      /\ Plain(session[s], offset[s], page[s], heard[s], rollbacks) /\ rollbacks \in Nat
      /\ initializing \subseteq Sessions
      /\ page' = [page EXCEPT ![s] = page[s]] /\ heard' = [heard EXCEPT ![s] = heard[s]]
  <2>1. /\ page[s] = None \/ page[s] \in Passes
        /\ heard[s] \in Seq(Frames)
        /\ Plain(session[s], offset[s], page[s], heard[s], rollbacks) /\ rollbacks \in Nat
    BY SessionFacts
  <2> QED
    BY <2>1, <1>1 DEF HearingInv, SessionType
<1>3. page[s] = None /\ heard[s] = <<>>
  BY <1>1, <1>2 DEF Plain
<1>4. n \in Nat /\ n <= Settled /\ At(n) \in Offsets /\ At(n).frames = n /\ Settled \in Nat
      /\ At(n).log = rollbacks
  BY <1>1, PageFacts, LogFacts, SettledNow
<1> HIDE DEF n
<1>5. HearsAll(log, Settled, "idle", s, initializing, n, At(n), page[s], n, heard[s])
  BY <1>2, <1>3, <1>4, HearsTrack
<1>6. Plain("idle", At(n), page[s], heard[s], rollbacks)
  BY <1>2, <1>3, <1>4 DEF Plain
<1>7. "idle" \in States
  BY DEF States
<1> QED
  BY <1>1, <1>2, <1>4, <1>5, <1>6, <1>7, HearingOne

LEMMA Own ==
    ASSUME HearingInv, NEW s \in Sessions
    PROVE  /\ session = [session EXCEPT ![s] = session[s]]
           /\ seen = [seen EXCEPT ![s] = seen[s]]
           /\ offset = [offset EXCEPT ![s] = offset[s]]
           /\ page = [page EXCEPT ![s] = page[s]]
           /\ from = [from EXCEPT ![s] = from[s]]
           /\ heard = [heard EXCEPT ![s] = heard[s]]
           /\ initializing \subseteq Sessions
BY DEF HearingInv, SessionType

LEMMA HearingSeen ==
    ASSUME FileInv, HearingInv, NEW s \in Sessions, InitializeSeen(s), UNCHANGED fileVars
    PROVE  HearingInv'
<1> DEFINE sn == IF log = <<>> THEN seen[s] ELSE TailSequence
           is == initializing \cup {s}
<1>1. /\ Unlocked
      /\ initializing' = is
      /\ seen' = [seen EXCEPT ![s] = sn]
      /\ UNCHANGED <<session, offset, page, from, heard>>
  BY SessionFacts DEF InitializeSeen
<1>2. /\ session[s] \in States /\ seen[s] \in Nat /\ offset[s] \in Offsets
      /\ page[s] = None \/ page[s] \in Passes
      /\ from[s] \in Nat /\ heard[s] \in Seq(Frames)
      /\ Plain(session[s], offset[s], page[s], heard[s], rollbacks)
  BY SessionFacts
<1>3. sn \in Nat
  BY <1>2, LogFacts
<1>4. is \subseteq Sessions /\ s \in is /\ \A x \in Sessions \ {s} : x \in is <=> x \in initializing
  BY Own
<1>5. ASSUME Kept
      PROVE  HearsAll(log, Settled, session[s], s, is, sn, offset[s], page[s], from[s], heard[s])
  <2>1. HearsAll(log, Settled, session[s], s, initializing, seen[s], offset[s], page[s],
                 from[s], heard[s])
    BY <1>5, SessionFacts
  <2>2. Settled = Len(log) /\ Len(log) \in Nat /\ TailSequence = Len(log)
        /\ (log = <<>> <=> Len(log) = 0)
    BY <1>1, SettledNow, LogFacts
  <2>3. seen[s] <= Settled
    BY <2>1 DEF HearsAll
  <2>4. sn = Settled
    BY <2>2, <2>3, <1>2
  <2> HIDE DEF sn, is
  <2>5. Settled \in Nat
    BY <2>2
  <2> QED
    BY <2>1, <2>4, <2>5, <1>2, <1>4, HearsSeen
<1> HIDE DEF sn, is
<1>6. /\ initializing' = is
      /\ seen' = [seen EXCEPT ![s] = sn]
      /\ session' = [session EXCEPT ![s] = session[s]]
      /\ offset' = [offset EXCEPT ![s] = offset[s]]
      /\ page' = [page EXCEPT ![s] = page[s]]
      /\ from' = [from EXCEPT ![s] = from[s]]
      /\ heard' = [heard EXCEPT ![s] = heard[s]]
  BY <1>1, Own
<1> QED
  BY <1>6, <1>2, <1>3, <1>4, <1>5, HearingOne

LEMMA HearingOffset ==
    ASSUME FileInv, HearingInv, NEW s \in Sessions, InitializeOffset(s), UNCHANGED fileVars
    PROVE  HearingInv'
<1> DEFINE o == [At(Len(log)) EXCEPT !.mid = torn]
           is == initializing \ {s}
<1>1. /\ Unlocked
      /\ initializing' = is
      /\ offset' = [offset EXCEPT ![s] = o]
      /\ from' = [from EXCEPT ![s] = Len(log)]
      /\ UNCHANGED <<session, seen, page, heard>>
  BY DEF InitializeOffset
<1>2. /\ session[s] \in States /\ seen[s] \in Nat /\ offset[s] \in Offsets
      /\ page[s] = None \/ page[s] \in Passes
      /\ from[s] \in Nat /\ heard[s] \in Seq(Frames)
      /\ Plain(session[s], offset[s], page[s], heard[s], rollbacks)
      /\ rollbacks \in Nat
  BY SessionFacts
<1>3. Settled = Len(log) /\ Len(log) \in Nat /\ torn \in BOOLEAN
  BY <1>1, SettledNow, LogFacts DEF FileInv, TypeInv
<1>4. o = [log |-> rollbacks, frames |-> Len(log), mid |-> torn]
  BY DEF At
<1>5. o \in Offsets /\ o.frames = Len(log) /\ o.log = rollbacks
  BY <1>2, <1>3, <1>4 DEF Offsets
<1>6. is \subseteq Sessions /\ \A x \in Sessions \ {s} : x \in is <=> x \in initializing
  BY Own
<1> HIDE DEF o, is
<1>7. Plain(session[s], o, page[s], heard[s], rollbacks)
  BY <1>2, <1>5 DEF Plain
<1>8. ASSUME Kept
      PROVE  HearsAll(log, Settled, session[s], s, is, seen[s], o, page[s], Len(log), heard[s])
  <2>1. HearsAll(log, Settled, session[s], s, initializing, seen[s], offset[s], page[s],
                 from[s], heard[s])
    BY <1>8, SessionFacts
  <2>2. HearsAll(log, Settled, session[s], s, is, seen[s], o, page[s], Settled, heard[s])
    BY <2>1, <1>2, <1>3, <1>5, HearsOffset
  <2> QED
    BY <2>2, <1>3
<1>9. /\ initializing' = is
      /\ offset' = [offset EXCEPT ![s] = o]
      /\ from' = [from EXCEPT ![s] = Len(log)]
      /\ session' = [session EXCEPT ![s] = session[s]]
      /\ seen' = [seen EXCEPT ![s] = seen[s]]
      /\ page' = [page EXCEPT ![s] = page[s]]
      /\ heard' = [heard EXCEPT ![s] = heard[s]]
  BY <1>1, Own
<1> QED
  BY <1>9, <1>2, <1>3, <1>5, <1>6, <1>7, <1>8, HearingOne

LEMMA HearingBegin ==
    ASSUME FileInv, HearingInv, NEW s \in Sessions, BeginPass(s), UNCHANGED fileVars
    PROVE  HearingInv'
<1> DEFINE p == [seen |-> seen[s], offset |-> offset[s], next |-> offset[s], frames |-> <<>>]
<1>1. /\ session[s] = "idle" /\ s \notin initializing
      /\ session' = [session EXCEPT ![s] = "polling"]
      /\ page' = [page EXCEPT ![s] = p]
      /\ UNCHANGED <<initializing, seen, offset, from, heard>>
  BY DEF BeginPass
<1>2. /\ seen[s] \in Nat /\ offset[s] \in Offsets
      /\ from[s] \in Nat /\ heard[s] \in Seq(Frames)
      /\ Plain(session[s], offset[s], page[s], heard[s], rollbacks)
  BY SessionFacts
<1>3. page[s] = None
  BY <1>1, <1>2 DEF Plain
<1>4. p \in Passes /\ p.seen = seen[s] /\ p.offset = offset[s] /\ p.next = offset[s]
  BY <1>2 DEF Passes
<1> HIDE DEF p
<1>5. p # None
  BY <1>4, PassFacts
<1>6. Plain("polling", offset[s], p, heard[s], rollbacks)
  BY <1>2, <1>4, <1>5 DEF Plain
<1>7. ASSUME Kept
      PROVE  HearsAll(log, Settled, "polling", s, initializing, seen[s], offset[s], p,
                      from[s], heard[s])
  <2>1. HearsAll(log, Settled, session[s], s, initializing, seen[s], offset[s], None,
                 from[s], heard[s])
    BY <1>3, <1>7, SessionFacts
  <2>2. Settled \in Nat
    BY LogFacts
  <2> QED
    BY <2>1, <2>2, <1>1, <1>2, <1>4, HearsBegin
<1>8. "polling" \in States
  BY DEF States
<1>9. /\ session' = [session EXCEPT ![s] = "polling"]
      /\ page' = [page EXCEPT ![s] = p]
      /\ seen' = [seen EXCEPT ![s] = seen[s]]
      /\ offset' = [offset EXCEPT ![s] = offset[s]]
      /\ from' = [from EXCEPT ![s] = from[s]]
      /\ heard' = [heard EXCEPT ![s] = heard[s]]
      /\ initializing' = initializing /\ initializing \subseteq Sessions
  BY <1>1, Own
<1> QED
  BY <1>9, <1>2, <1>4, <1>6, <1>7, <1>8, HearingOne

LEMMA HearingFails ==
    ASSUME FileInv, HearingInv, NEW s \in Sessions, ReadFails(s), UNCHANGED fileVars
    PROVE  HearingInv'
<1>1. /\ session' = [session EXCEPT ![s] = "failed"]
      /\ page' = [page EXCEPT ![s] = None]
      /\ UNCHANGED <<initializing, seen, offset, from, heard>>
  BY DEF ReadFails
<1>2. /\ seen[s] \in Nat /\ offset[s] \in Offsets
      /\ from[s] \in Nat /\ heard[s] \in Seq(Frames)
      /\ Plain(session[s], offset[s], page[s], heard[s], rollbacks)
  BY SessionFacts
<1>3. Plain("failed", offset[s], None, heard[s], rollbacks) /\ "failed" \in States
  BY <1>2 DEF Plain, States
<1>4. ASSUME Kept
      PROVE  HearsAll(log, Settled, "failed", s, initializing, seen[s], offset[s], None,
                      from[s], heard[s])
  BY <1>4, SessionFacts, HearsNothing
<1>5. /\ session' = [session EXCEPT ![s] = "failed"]
      /\ page' = [page EXCEPT ![s] = None]
      /\ seen' = [seen EXCEPT ![s] = seen[s]]
      /\ offset' = [offset EXCEPT ![s] = offset[s]]
      /\ from' = [from EXCEPT ![s] = from[s]]
      /\ heard' = [heard EXCEPT ![s] = heard[s]]
      /\ initializing' = initializing /\ initializing \subseteq Sessions
  BY <1>1, Own
<1> QED
  BY <1>5, <1>2, <1>3, <1>4, HearingOne

\* Where a page starts, in a log that was never removed.
LEMMA StartFacts ==
    ASSUME FileInv, rollbacks = 0, NEW o \in Offsets, o.log <= rollbacks,
           o.frames <= Len(log), NEW n \in Starts(o)
    PROVE  /\ n \in Nat /\ n <= Len(log)
           /\ o.mid \/ n = o.frames
<1>1. o.frames \in Nat /\ o.log = 0 /\ Len(log) \in Nat
  BY OffsetFacts, LogFacts
<1>2. Base(o) = o.frames
  BY <1>1 DEF Base
<1>3. CASE IsBoundary(o)
  BY <1>1, <1>3 DEF Starts
<1>4. CASE ~IsBoundary(o)
  <2>1. o.mid
    BY <1>2, <1>4 DEF IsBoundary
  <2>2. n \in o.frames + 1 .. Len(log) \/ n = o.frames
    BY <1>2, <1>4 DEF Starts
  <2> QED
    BY <2>1, <2>2, <1>1
<1> QED
  BY <1>3, <1>4

\* A page may start anywhere in a log that was removed since.
LEMMA StartType ==
    ASSUME FileInv, NEW o \in Offsets, NEW n \in Starts(o)
    PROVE  n \in Nat
<1>1. o.frames \in Nat /\ Len(log) \in Nat
  BY OffsetFacts, LogFacts
<1>2. Base(o) \in Nat
  BY <1>1 DEF Base
<1>3. n = o.frames \/ n = Base(o) \/ n \in Base(o) + 1 .. Len(log)
  BY DEF Starts
<1> QED
  BY <1>1, <1>2, <1>3

LEMMA HearingRead ==
    ASSUME FileInv, HearingInv, NEW s \in Sessions, ReadPage(s), UNCHANGED fileVars
    PROVE  HearingInv'
<1>1. /\ session[s] \in States /\ seen[s] \in Nat /\ offset[s] \in Offsets
      /\ page[s] = None \/ page[s] \in Passes
      /\ from[s] \in Nat /\ heard[s] \in Seq(Frames)
      /\ Plain(session[s], offset[s], page[s], heard[s], rollbacks)
      /\ rollbacks \in Nat
  BY SessionFacts
<1>2. /\ session[s] = "polling" /\ Unlocked
      /\ session' = [session EXCEPT ![s] = "reading"]
      /\ UNCHANGED <<initializing, seen, offset, heard>>
  BY DEF ReadPage
<1>3. page[s] \in Passes /\ page[s] # None
  BY <1>1, <1>2 DEF Plain
<1>4. PICK n \in Starts(page[s].offset) :
         /\ page' = [page EXCEPT ![s].next = At(PageEnd(n)),
                                 ![s].frames = SubSeq(log, n + 1, PageEnd(n))]
         /\ from' = [from EXCEPT ![s] = IF page[s].offset.mid /\ n > from[s] THEN n ELSE from[s]]
  BY DEF ReadPage
<1>5. page[s].offset \in Offsets /\ page[s].seen \in Nat /\ page[s].offset.frames \in Nat
  BY <1>3, PassFacts, OffsetFacts
<1>6. n \in Nat
  BY <1>5, StartType
<1> DEFINE e == PageEnd(n)
           fr == IF page[s].offset.mid /\ n > from[s] THEN n ELSE from[s]
           p == [page[s] EXCEPT !.next = At(e), !.frames = SubSeq(log, n + 1, e)]
<1>7. Len(log) \in Nat /\ log \in Seq(Frames) /\ PageFrames \in Nat
  BY LogFacts, EventLogAssumption
<1>8. e \in Nat /\ e <= Len(log) /\ fr \in Nat /\ from[s] <= fr
  BY <1>1, <1>6, <1>7 DEF PageEnd
<1>9. At(e) \in Offsets /\ At(e).frames = e /\ At(e).log = rollbacks
  BY <1>1, <1>8 DEF At, Offsets
<1>10. SubSeq(log, n + 1, e) \in Seq(Frames)
  BY <1>6, <1>7, <1>8, Ranged
<1>11. page' = [page EXCEPT ![s] = p]
  <2>1. page \in [Sessions -> Passes \cup {None}]
    BY DEF HearingInv, SessionType
  <2> QED
    BY <1>4, <2>1
<1>12. /\ p \in Passes /\ p.seen = page[s].seen /\ p.offset = page[s].offset
       /\ p.next = At(e) /\ p.frames = SubSeq(log, n + 1, e)
  BY <1>3, <1>9, <1>10 DEF Passes
<1>13. from' = [from EXCEPT ![s] = fr]
  BY <1>4
<1> HIDE DEF p, e, fr
<1>14. p # None
  BY <1>12, PassFacts
<1>15. Plain("reading", offset[s], p, heard[s], rollbacks) /\ "reading" \in States
  <2>1. p.offset.log <= rollbacks /\ p.next.log <= rollbacks /\ offset[s].log <= rollbacks
    BY <1>1, <1>3, <1>9, <1>12 DEF Plain
  <2> QED
    BY <2>1, <1>14 DEF Plain, States
<1>16. ASSUME Kept
       PROVE  HearsAll(log, Settled, "reading", s, initializing, seen[s], offset[s], p,
                       fr, heard[s])
  <2>1. rollbacks = 0
        /\ HearsAll(log, Settled, session[s], s, initializing, seen[s], offset[s], page[s],
                    from[s], heard[s])
    BY <1>16, SessionFacts
  <2>2. Known(log, Settled) /\ Settled = Len(log)
    BY <1>2, SettledNow
  <2>3. page[s].offset.frames <= Len(log) /\ from[s] <= Len(log)
    BY <2>1, <2>2, <1>3 DEF HearsAll
  <2>4. page[s].offset.log <= rollbacks
    BY <1>1, <1>3 DEF Plain
  <2>5. n <= Len(log) /\ (page[s].offset.mid \/ n = page[s].offset.frames)
    BY <2>1, <2>3, <2>4, <1>5, StartFacts
  <2>6. n <= e
    BY <2>5, <1>6, PageFacts DEF e
  <2>7. fr <= Len(log)
    BY <2>3, <2>5 DEF fr
  <2>8. n <= fr \/ n = page[s].offset.frames
    <3>1. CASE n = page[s].offset.frames
      BY <3>1
    <3>2. CASE page[s].offset.mid
      <4>1. fr = IF n > from[s] THEN n ELSE from[s]
        BY <3>2 DEF fr
      <4> QED
        BY <4>1, <1>1, <1>6
    <3> QED
      BY <3>1, <3>2, <2>5
  <2>9. e <= Settled /\ fr <= Settled /\ p.next.frames = e
    BY <2>2, <2>7, <1>8, <1>9, <1>12
  <2> QED
    BY <2>1, <2>2, <2>6, <2>8, <2>9, <1>1, <1>3, <1>6, <1>8, <1>12, HearsRead
<1>17. /\ session' = [session EXCEPT ![s] = "reading"]
       /\ seen' = [seen EXCEPT ![s] = seen[s]]
       /\ offset' = [offset EXCEPT ![s] = offset[s]]
       /\ heard' = [heard EXCEPT ![s] = heard[s]]
       /\ initializing' = initializing /\ initializing \subseteq Sessions
  BY <1>2, Own
<1> QED
  BY <1>1, <1>8, <1>11, <1>12, <1>13, <1>15, <1>16, <1>17, HearingOne

\* What a delivery of the first n frames of the page leaves.
LEMMA HearsDeliver ==
    ASSUME NEW l, NEW m, Known(l, m), NEW s, NEW is, NEW sn \in Nat, NEW o \in Offsets,
           NEW p \in Passes, NEW fr \in Nat, NEW h \in Seq(Frames),
           HearsAll(l, m, "reading", s, is, sn, o, p, fr, h),
           NEW n \in Nat, n <= Len(p.frames), NEW new, new = New(p, n),
           NEW sn2, NEW o2, NEW g, g = h \o new,
           \/ /\ new # <<>> /\ sn2 = new[Len(new)].seq
              /\ o2 = IF n = Len(p.frames) THEN p.next ELSE o
           \/ new = <<>> /\ n = Len(p.frames) /\ sn2 = p.seen /\ o2 = p.next
           \/ new = <<>> /\ sn2 = sn /\ o2 = o
    PROVE  HearsAll(l, m, "idle", s, is, sn2, o2, None, fr, g)
<1>1. /\ p # None /\ p.seen \in Nat /\ p.next \in Offsets /\ p.next.frames \in Nat
      /\ p.frames \in Seq(Frames) /\ Len(p.frames) \in Nat
  BY PassFacts, OffsetFacts, SeqFacts
<1>2. PassOK(l, m, "reading", o, p, fr, h) /\ Increasing(h) /\ Placed(l, m, h) /\ fr <= m
      /\ o.frames <= m
  BY <1>1 DEF HearsAll
<1>3. /\ p.next.frames <= m /\ Len(p.frames) <= p.next.frames
      /\ HeardBetween(l, fr, p.seen, h) /\ Begins(o.frames, fr, p.seen)
  BY <1>2 DEF PassOK
<1>4. \E b, z \in Nat : Brings(l, fr, p, n, New(p, n), b, z)
  BY <1>2, NewFacts
<1>5. PICK b \in Nat, z \in Nat : Brings(l, fr, p, n, new, b, z)
  BY <1>4
<1>6. /\ z <= p.next.frames /\ (n = Len(p.frames) => z = p.next.frames)
      /\ p.seen <= b /\ (b <= p.seen \/ b <= fr)
      /\ new \in Seq(Frames)
      /\ Len(new) = IF b < z THEN z - b ELSE 0
      /\ Follows(l, b, new)
  BY <1>5 DEF Brings
<1>7. m \in Nat /\ o.frames \in Nat
  BY KnownFacts, OffsetFacts
<1>8. z <= m
  BY <1>1, <1>3, <1>6, <1>7
<1>9. new = <<>> <=> Len(new) = 0
  BY <1>6, SeqFacts
<1>10. CASE /\ new # <<>> /\ sn2 = new[Len(new)].seq
           /\ o2 = IF n = Len(p.frames) THEN p.next ELSE o
  <2>1. b < z /\ Len(new) = z - b
    BY <1>6, <1>9, <1>10
  <2>2. o2 \in Offsets /\ o2.frames <= m
    BY <1>1, <1>2, <1>3, <1>10
  <2>3. Begins(o2.frames, fr, z)
    <3>1. CASE n = Len(p.frames)
      <4>1. o2 = p.next /\ z = p.next.frames
        BY <3>1, <1>6, <1>10, Zenon
      <4>2. p.next.frames <= p.next.frames
        BY <1>1
      <4> QED
        BY <4>1, <4>2, Zenon DEF Begins
    <3>2. CASE n # Len(p.frames)
      <4>1. o2 = o
        BY <3>2, <1>10
      <4>2. o.frames <= fr \/ o.frames <= p.seen
        BY <1>3 DEF Begins
      <4>3. p.seen \in Nat /\ p.seen <= b
        BY <1>1, <1>6
      <4>4. \A x \in Nat : x <= p.seen => x <= z
        BY <4>3, <2>1
      <4>5. o.frames <= fr \/ o.frames <= z
        BY <4>2, <4>4, <1>7, Zenon
      <4> QED
        BY <4>1, <4>5 DEF Begins
    <3> QED
      BY <3>1, <3>2
  <2>4. /\ p.seen \in Nat /\ p.seen <= b /\ (b <= p.seen \/ b <= fr)
        /\ new \in Seq(Frames) /\ Follows(l, b, new)
    BY <1>1, <1>6
  <2>5. HearsAll(l, m, "idle", s, is, z, o2, None, fr, g) /\ new[Len(new)].seq = z
    <3>1. Gains(l, m, fr, h, p.seen, b, z, new, o2, g)
      BY <2>1, <2>2, <2>3, <2>4, <1>2, <1>3, <1>8 DEF Gains
    <3> QED
      BY <3>1, HearsNew
  <2> QED
    BY <2>5, <1>10
<1>11. CASE new = <<>>
  <2>1. g = h
    BY <1>11
  <2>2. CASE n = Len(p.frames) /\ sn2 = p.seen /\ o2 = p.next
    <3>1. z = p.next.frames
      BY <2>2, <1>6, Zenon
    <3>2. p.next.frames <= b
      BY <3>1, <1>6, <1>9, <1>11
    <3> QED
      BY <3>2, <2>1, <2>2, <1>2, <1>6, HearsMoved
  <2>3. CASE sn2 = sn /\ o2 = o
    BY <2>1, <2>3, HearsNothing
  <2> QED
    BY <2>2, <2>3, <1>11
<1> QED
  BY <1>10, <1>11

LEMMA NewType ==
    ASSUME NEW p \in Passes, NEW n \in 0 .. Len(p.frames)
    PROVE  New(p, n) \in Seq(Frames)
<1>1. /\ p.frames \in Seq(Frames) /\ Len(p.frames) \in Nat
      /\ p.next.frames \in Nat /\ p.seen \in Nat
  BY PassFacts, OffsetFacts, SeqFacts
<1> DEFINE start == p.next.frames - Len(p.frames)
           k == IF p.seen > start THEN p.seen - start ELSE 0
<1>2. k \in Nat /\ n \in Nat /\ n <= Len(p.frames)
  BY <1>1
<1>3. New(p, n) = SubSeq(p.frames, k + 1, n)
  BY DEF New
<1> HIDE DEF k
<1>4. SubSeq(p.frames, k + 1, n) \in Seq(Frames)
  BY <1>1, <1>2, Ranged
<1> QED
  BY <1>3, <1>4

LEMMA HearingDeliver ==
    ASSUME FileInv, HearingInv, NEW s \in Sessions, Deliver(s), UNCHANGED fileVars
    PROVE  HearingInv'
<1>1. /\ session[s] \in States /\ seen[s] \in Nat /\ offset[s] \in Offsets
      /\ page[s] = None \/ page[s] \in Passes
      /\ from[s] \in Nat /\ heard[s] \in Seq(Frames)
      /\ Plain(session[s], offset[s], page[s], heard[s], rollbacks)
      /\ rollbacks \in Nat
  BY SessionFacts
<1>2. PICK n \in 0 .. Len(page[s].frames) : session[s] = "reading" /\ DeliverSome(s, n)
  BY DEF Deliver, Delivers
<1>3. page[s] \in Passes /\ page[s] # None
  BY <1>1, <1>2 DEF Plain
<1>4. /\ page[s].frames \in Seq(Frames) /\ Len(page[s].frames) \in Nat
      /\ page[s].next \in Offsets /\ page[s].seen \in Nat /\ page[s].next.frames \in Nat
  BY <1>3, PassFacts, OffsetFacts, SeqFacts
<1> DEFINE new == New(page[s], n)
           moved == new # <<>> \/ (n = Len(page[s].frames) /\ page[s].next # page[s].offset)
           sn == IF new # <<>> THEN new[Len(new)].seq
                 ELSE IF moved THEN page[s].seen ELSE seen[s]
           o == IF moved THEN OffsetAfter(s, n) ELSE offset[s]
           g == heard[s] \o new
<1>5. /\ session' = [session EXCEPT ![s] = "idle"]
      /\ heard' = [heard EXCEPT ![s] = g]
      /\ seen' = [seen EXCEPT ![s] = sn]
      /\ offset' = [offset EXCEPT ![s] = o]
      /\ page' = [page EXCEPT ![s] = None]
      /\ UNCHANGED <<initializing, from>>
  BY <1>2 DEF DeliverSome
<1>6. new \in Seq(Frames)
  BY <1>3, NewType
<1>7. n \in Nat /\ n <= Len(page[s].frames)
  BY <1>4
<1>8. o = page[s].next \/ o = offset[s]
  BY DEF OffsetAfter
<1>9. \/ new # <<>> /\ sn = new[Len(new)].seq
         /\ o = IF n = Len(page[s].frames) THEN page[s].next ELSE offset[s]
      \/ new = <<>> /\ n = Len(page[s].frames) /\ sn = page[s].seen /\ o = page[s].next
      \/ new = <<>> /\ sn = seen[s] /\ o = offset[s]
  BY DEF OffsetAfter
<1>10. sn \in Nat
  <2>1. new # <<>> => new[Len(new)].seq \in Nat
    <3>1. new # <<>> => Len(new) \in DOMAIN new
      BY <1>6, SeqFacts
    <3> HIDE DEF new
    <3> QED
      BY <3>1, <1>6, HeardFacts
  <2> HIDE DEF new
  <2> QED
    BY <2>1, <1>1, <1>4
<1>11. g \in Seq(Frames)
  BY <1>1, <1>6
<1>12. o \in Offsets /\ o.log <= rollbacks
  BY <1>1, <1>3, <1>4, <1>8 DEF Plain
<1> HIDE DEF new, moved, sn, o, g
<1>13. Plain("idle", o, None, g, rollbacks) /\ "idle" \in States
  BY <1>12 DEF Plain, States
<1>14. ASSUME Kept
       PROVE  HearsAll(log, Settled, "idle", s, initializing, sn, o, None, from[s], g)
  <2>1. HearsAll(log, Settled, "reading", s, initializing, seen[s], offset[s], page[s],
                 from[s], heard[s])
    BY <1>2, <1>14, SessionFacts
  <2>2. Known(log, Settled)
    BY SettledNow
  <2>3. new = New(page[s], n) /\ g = heard[s] \o new
    BY DEF new, g
  <2> QED
    BY <2>1, <2>2, <2>3, <1>1, <1>3, <1>7, <1>9, HearsDeliver
<1>15. /\ session' = [session EXCEPT ![s] = "idle"]
       /\ heard' = [heard EXCEPT ![s] = g]
       /\ seen' = [seen EXCEPT ![s] = sn]
       /\ offset' = [offset EXCEPT ![s] = o]
       /\ page' = [page EXCEPT ![s] = None]
       /\ from' = [from EXCEPT ![s] = from[s]]
       /\ initializing' = initializing /\ initializing \subseteq Sessions
  BY <1>5, Own
<1> QED
  BY <1>1, <1>10, <1>11, <1>12, <1>13, <1>14, <1>15, HearingOne

\* A power failure ends every session; a scenario with one says nothing of them.
LEMMA HearingPower ==
    ASSUME FileInv, HearingInv, PowerFailure, UNCHANGED limits
    PROVE  HearingInv'
<1>1. rollbacks \in Nat /\ powers \in Nat
  BY DEF FileInv, TypeInv
<1>2. ~Kept /\ Kept' = Kept /\ rollbacks' = rollbacks
  BY <1>1 DEF PowerFailure, Kept
<1>3. At(0) \in Offsets /\ At(0).log = rollbacks
  BY <1>1 DEF At, Offsets
<1>4. /\ session' = [s \in Sessions |-> "untracked"]
      /\ initializing' = {}
      /\ seen' = [s \in Sessions |-> 0]
      /\ offset' = [s \in Sessions |-> At(0)]
      /\ page' = [s \in Sessions |-> None]
      /\ from' = [s \in Sessions |-> 0]
      /\ heard' = [s \in Sessions |-> <<>>]
  BY DEF PowerFailure
<1>5. <<>> \in Seq(Frames) /\ "untracked" \in States
  BY DEF States
<1>6. Plain("untracked", At(0), None, <<>>, rollbacks)
  BY <1>1, <1>3 DEF Plain
<1>7. /\ session' \in [Sessions -> States] /\ seen' \in [Sessions -> Nat]
      /\ offset' \in [Sessions -> Offsets] /\ page' \in [Sessions -> Passes \cup {None}]
      /\ from' \in [Sessions -> Nat] /\ heard' \in [Sessions -> Seq(Frames)]
      /\ initializing' \subseteq Sessions
  BY <1>3, <1>4, <1>5
<1>8. \A s \in Sessions : Plain(session'[s], offset'[s], page'[s], heard'[s], rollbacks')
  BY <1>2, <1>4, <1>6
<1> QED
  BY <1>2, <1>7, <1>8, Zenon DEF HearingInv, SessionType, SessionInv

LEMMA HearingStep ==
    ASSUME FileInv, HearingInv, [Next]_vars
    PROVE  HearingInv'
<1>1. FileInv' /\ (Kept => KeepsPrefix)
  BY FileStep
<1>2. rollbacks \in Nat
  BY DEF FileInv, TypeInv
<1>3. ASSUME UNCHANGED <<mcp, limits, rollbacks>>
      PROVE  HearingInv'
  BY <1>1, <1>2, <1>3, HearingSame
<1>4. CASE UNCHANGED vars
  BY <1>3, <1>4 DEF vars, moves, bounds
<1>5. CASE Next
  <2>1. UNCHANGED limits
    BY <1>5 DEF Next
  <2>2. ASSUME NEW s \in Sessions, s \in limits.readers, SessionStep(s) \/ InitializeSeen(s)
        PROVE  HearingInv'
    <3>1. UNCHANGED fileVars
      BY <2>2, <1>5, ReaderSteps
    <3> QED
      BY <2>2, <3>1, HearingTrack, HearingSeen, HearingOffset, HearingBegin, HearingRead,
         HearingFails, HearingDeliver DEF SessionStep
  <2>3. ASSUME NEW c \in Clients, ClientStep(c) \/ Disconnect(c)
        PROVE  HearingInv'
    <3>1. UNCHANGED <<mcp, rollbacks>>
      BY <2>3 DEF ClientStep, Subscribe, LoadReplay, SendReplay, SendLive, EndStream,
                  Disconnect, bounds
    <3> QED
      BY <3>1, <2>1, <1>3
  <2>4. CASE WriteEvent \/ Synced \/ AppendFails \/ Publish \/ Persist \/ Kill \/ Start
    <3>1. UNCHANGED <<mcp, rollbacks>>
      BY <2>4 DEF WriteEvent, Synced, AppendFails, Publish, Persist, Kill, Start, bounds
    <3> QED
      BY <3>1, <2>1, <1>3
  <2>5. CASE RollBack
    <3>1. UNCHANGED mcp /\ rollbacks' = rollbacks + 1 /\ rollbacks < limits.rollbacks
      BY <2>5 DEF RollBack
    <3>2. ~Kept /\ rollbacks <= rollbacks'
      BY <3>1, <1>2 DEF Kept
    <3> QED
      BY <3>1, <3>2, <2>1, <1>1, HearingSame
  <2>6. CASE PowerFailure
    BY <2>1, <2>6, HearingPower
  <2> QED
    BY <1>5, <2>2, <2>3, <2>4, <2>5, <2>6 DEF Next
<1> QED
  BY <1>4, <1>5

LEMMA HearingInit ==
    ASSUME Init
    PROVE  HearingInv
<1>1. FileInv
  BY FileInit
<1>2. rollbacks = 0 /\ At(0) \in Offsets /\ At(0).log = 0 /\ At(0).frames = 0
  BY DEF Init, At, Offsets
<1>3. <<>> \in Seq(Frames) /\ "untracked" \in States
  BY DEF States
<1>4. Plain("untracked", At(0), None, <<>>, rollbacks)
  BY <1>2 DEF Plain
<1>5. /\ session = [s \in Sessions |-> "untracked"]
      /\ initializing = {}
      /\ seen = [s \in Sessions |-> 0]
      /\ offset = [s \in Sessions |-> At(0)]
      /\ page = [s \in Sessions |-> None]
      /\ from = [s \in Sessions |-> 0]
      /\ heard = [s \in Sessions |-> <<>>]
  BY DEF Init
<1>6. SessionType
  <2>1. /\ session \in [Sessions -> States] /\ seen \in [Sessions -> Nat]
        /\ offset \in [Sessions -> Offsets] /\ page \in [Sessions -> Passes \cup {None}]
        /\ from \in [Sessions -> Nat] /\ heard \in [Sessions -> Seq(Frames)]
        /\ initializing \subseteq Sessions
    BY <1>2, <1>3, <1>5
  <2>2. \A s \in Sessions : Plain(session[s], offset[s], page[s], heard[s], rollbacks)
    BY <1>4, <1>5
  <2> QED
    BY <2>1, <2>2, <1>2, Zenon DEF SessionType
<1>7. ASSUME NEW s \in Sessions
      PROVE  HearsAll(log, Settled, session[s], s, initializing, seen[s], offset[s], page[s],
                      from[s], heard[s])
  <2>1. Settled \in Nat
    BY <1>1, LogFacts
  <2>2. 0 <= Settled
    BY <2>1
  <2>3. HearsAll(log, Settled, "untracked", s, {}, 0, At(0), None, 0, <<>>)
    BY <2>1, <2>2, <1>2, <1>3, HearsTrack
  <2> QED
    BY <2>3, <1>5
<1> QED
  BY <1>6, <1>7, Zenon DEF HearingInv, SessionInv

-----------------------------------------------------------------------------
(* The theorems about readers *)

ReaderInv == FileInv /\ SubsInv /\ HearingInv

\* The inductive invariant of the whole module: file and daemon, subscriptions, sessions.
THEOREM ReadersAreConsistent == Spec => []ReaderInv
<1>1. Init => ReaderInv
  BY FileInit, SubsInit, HearingInit DEF ReaderInv
<1>2. ReaderInv /\ [Next]_vars => ReaderInv'
  BY FileStep, SubsStep, HearingStep DEF ReaderInv
<1> QED
  BY <1>1, <1>2, PTL DEF Spec

LEMMA TypeImplies ==
    ASSUME FileInv, SubsInv, HearingInv
    PROVE  TypeOK
<1>1. /\ torn \in BOOLEAN /\ up \in BOOLEAN /\ writing \in 1 .. MaxEvents \cup {None}
      /\ lane \in Frames \cup {None} /\ Len(log) <= events
      /\ high \in 0 .. MaxEvents /\ registry \in 0 .. MaxEvents
  BY DEF FileInv, TypeInv
<1>2. \A i \in DOMAIN log : log[i] \in Frames
  BY LogFacts
<1>3. synced \in 0 .. Len(log)
  <2>1. synced \in Nat /\ synced <= Settled
    BY DEF FileInv, TypeInv, LogInv
  <2> QED
    BY <2>1, LogFacts
<1>4. /\ listed \subseteq {c \in Clients : stream[c] # None}
      /\ \A c \in Clients : Len(queue[c]) <= QueueCapacity
  BY DEF SubsInv, SubsType
<1>5. ASSUME NEW s \in Sessions
      PROVE  /\ session[s] \in {"untracked", "idle", "polling", "reading", "failed"}
             /\ session[s] \in {"polling", "reading"} <=> page[s] # None
  <2>1. session[s] \in States /\ Plain(session[s], offset[s], page[s], heard[s], rollbacks)
    BY SessionFacts
  <2> QED
    BY <2>1, Zenon DEF States, Plain
<1> QED
  BY <1>1, <1>2, <1>3, <1>4, <1>5 DEF TypeOK

LEMMA StreamImplies ==
    ASSUME FileInv, SubsInv
    PROVE  StreamHasNoHole /\ CaughtUp
<1>1. ASSUME Kept, NEW c \in Clients
      PROVE  Exact(log, Bound, acked, stream[c], c, listed, queue[c], replay[c], got[c])
             /\ got[c] \in Seq(Frames) /\ (stream[c] = None \/ stream[c] \in Nat)
  BY <1>1, ClientFacts
<1>2. \A c \in Clients : Cursor(c) = LastSeq(got[c])
  BY DEF Cursor, LastSeq
<1>3. acked \subseteq Frames
  BY DEF FileInv, TypeInv
<1>4. ASSUME Kept, NEW c \in Clients
      PROVE  /\ Increasing(got[c])
             /\ \A f \in acked : f.seq <= Cursor(c) => f \in Received(c)
  <2>1. /\ Increasing(got[c])
        /\ \A f \in acked : f.seq <= LastSeq(got[c]) => \E i \in DOMAIN got[c] : got[c][i] = f
    BY <1>1, <1>4, Zenon DEF Exact
  <2> QED
    BY <2>1, <1>2, Zenon DEF Received
<1>5. ASSUME Kept, NEW c \in Clients, c \in listed, replay[c] = <<>>, queue[c] = <<>>,
             NEW f \in acked
      PROVE  f \in Received(c)
  <2>1. stream[c] # None
    BY <1>5 DEF SubsInv, SubsType
  <2>2. /\ LastSeq(got[c]) >= stream[c]
        /\ f.seq > stream[c] /\ f.seq > LastSeq(got[c]) =>
              \/ \E i \in DOMAIN queue[c] : queue[c][i] = f
              \/ c \notin listed
    BY <1>1, <1>5, <2>1, Zenon DEF Exact
  <2>3. DOMAIN queue[c] = {}
    BY <1>5
  <2>4. ~(f.seq > stream[c] /\ f.seq > LastSeq(got[c]))
    BY <2>2, <2>3, <1>5, Zenon
  <2>5. f.seq \in Nat /\ LastSeq(got[c]) \in Nat /\ stream[c] \in Nat
    <3>1. got[c] \in Seq(Frames) /\ (stream[c] = None \/ stream[c] \in Nat)
      BY <1>1, <1>5
    <3>2. LastSeq(got[c]) \in Nat
      BY <3>1, <1>4, <1>5, LastFacts
    <3>3. f.seq \in Nat
      BY <1>3, <1>5, FrameFacts
    <3> QED
      BY <3>1, <3>2, <3>3, <2>1
  <2>6. f.seq <= LastSeq(got[c])
    BY <2>2, <2>4, <2>5
  <2> QED
    BY <2>6, <1>2, <1>4, <1>5
<1>6. StreamHasNoHole
  BY <1>4, Zenon DEF StreamHasNoHole
<1>7. CaughtUp
  BY <1>5, Zenon DEF CaughtUp
<1> QED
  BY <1>6, <1>7

\* For any number of subscribers, any queue size and any scenario that keeps the log: what
\* a subscriber receives over all its subscriptions is in order, without repetition and
\* without a hole up to its cursor, and complete when nothing is queued, through lags,
\* disconnections and restarts of the daemon.
THEOREM StreamsAreExact == Spec => []StreamIsExact
<1>1. ReaderInv => StreamIsExact
  BY TypeImplies, StreamImplies DEF ReaderInv, StreamIsExact
<1> QED
  BY <1>1, ReadersAreConsistent, PTL

LEMMA SessionImplies ==
    ASSUME FileInv, HearingInv
    PROVE  SessionHearsAll
<1> SUFFICES ASSUME Kept, NEW s \in Sessions
             PROVE  /\ Increasing(heard[s])
                    /\ s \notin initializing =>
                         \A i \in from[s] + 1 .. Len(log) :
                             log[i].seq <= seen[s] <=> log[i] \in Heard(s)
  BY Zenon DEF SessionHearsAll
<1>1. /\ HearsAll(log, Settled, session[s], s, initializing, seen[s], offset[s], page[s],
                  from[s], heard[s])
      /\ seen[s] \in Nat /\ from[s] \in Nat
  BY SessionFacts
<1>2. Increasing(heard[s])
  BY <1>1, Zenon DEF HearsAll
<1>3. ASSUME s \notin initializing, NEW i \in from[s] + 1 .. Len(log)
      PROVE  log[i].seq <= seen[s] <=> log[i] \in Heard(s)
  <2>1. HeardBetween(log, from[s], seen[s], heard[s])
    BY <1>1, <1>3, Zenon DEF HearsAll
  <2>2. i \in 1 .. Len(log) /\ i \in Nat
    BY <1>1, <1>3, LogFacts
  <2>3. log[i].seq = i
    BY <2>2, LogFacts
  <2>4. ASSUME i <= seen[s]
        PROVE  log[i] \in Heard(s)
    <3>1. i \in from[s] + 1 .. seen[s]
      BY <2>2, <2>4, <1>1, <1>3
    <3>2. PICK j \in DOMAIN heard[s] : heard[s][j] = log[i]
      BY <3>1, <2>1, Zenon DEF HeardBetween
    <3> QED
      BY <3>2 DEF Heard
  <2>5. ASSUME log[i] \in Heard(s)
        PROVE  log[i].seq <= seen[s]
    <3>1. PICK j \in DOMAIN heard[s] : log[i] = heard[s][j]
      BY <2>5, Zenon DEF Heard
    <3>2. heard[s][j].seq <= seen[s]
      BY <2>1, Zenon DEF HeardBetween
    <3> QED
      BY <3>1, <3>2
  <2> QED
    BY <2>3, <2>4, <2>5
<1> QED
  BY <1>2, <1>3

\* For any number of sessions, any page size and any scenario that keeps the log: a
\* session passes on every frame behind the place where it began, once and in order,
\* through backpressure, failed appends, restarts of the daemon and initialize requests
\* that overtake a notification pass.
THEOREM SessionsHearAll == Spec => []SessionHearsAll
<1>1. ReaderInv => SessionHearsAll
  BY SessionImplies DEF ReaderInv
<1> QED
  BY <1>1, ReadersAreConsistent, PTL
=============================================================================
