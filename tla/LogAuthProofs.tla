---------------------------- MODULE LogAuthProofs ----------------------------
(***************************************************************************)
(* Proofs about ServiceLog, for a ring of any size, and about Auth, for    *)
(* tables of any size.                                                     *)
(***************************************************************************)
EXTENDS ServiceLog, Auth, FiniteSetTheorems, SequenceTheorems, TLAPS

\* The ring holds the last count events in order from head on; nothing older is
\* missing than what was cleared or pushed out.
LogInv ==
  /\ LogTypeOK
  /\ seq - count >= cleared
  /\ count = logBufSize \/ seq - count = cleared
  /\ \A k \in 0..(count - 1) : entries[At(head + k)] = seq - count + k + 1

\* Modulo, for the numbers that occur.
LEMMA Modulo == ASSUME NEW N \in Nat \ {0}, NEW x \in 0..(2 * N - 1)
                PROVE x % N = IF x < N THEN x ELSE x - N
BY Z3

\* Positions in the ring wrap once.
LEMMA Wrap == \A x \in Int : 0 <= x /\ x < 2 * logBufSize => At(x) = IF x < logBufSize THEN x ELSE x - logBufSize
<1> SUFFICES ASSUME NEW x \in Int, 0 <= x, x < 2 * logBufSize
             PROVE x % logBufSize = IF x < logBufSize THEN x ELSE x - logBufSize
  BY DEF At
<1>1. logBufSize \in Nat \ {0}
  BY LogAssumption
<1>2. x \in 0..(2 * logBufSize - 1)
  BY <1>1
<1> QED
  BY <1>1, <1>2, Modulo

\* A list without events is the empty sequence.
LEMMA NoEvents == ASSUME NEW m \in Int PROVE [i \in 1..0 |-> m + i] = << >>
<1> DEFINE f == [i \in 1..0 |-> m + i]
<1>1. f \in [1..0 -> Int] /\ DOMAIN f = 1..0
  OBVIOUS
<1>2. f \in Seq(Int)
  BY <1>1, SeqDef
<1>3. Len(f) = 0
  BY <1>1, <1>2, LenProperties
<1> QED
  BY <1>2, <1>3, EmptySeq

\* An empty ring holds nothing.
LEMMA LogInitially == LogInit => LogInv
BY LogAssumption DEF LogInit, LogInv, LogTypeOK, Slots

\* An event goes behind the last one; in a full ring it takes the place of the
\* first, and the second becomes the first.
LEMMA AppendStep == ASSUME LogInv, appendEventLocked PROVE LogInv'
<1> DEFINE N == logBufSize
<1> N \in Nat \ {0} /\ MaxSeq \in Nat
  BY LogAssumption
<1> head \in 0..(N - 1) /\ count \in 0..N /\ seq \in Nat /\ cleared \in 0..seq /\ seq - count >= cleared
  BY DEF LogInv, LogTypeOK, Slots
<1> entries \in [0..(N - 1) -> Nat]
  BY DEF LogInv, LogTypeOK, Slots
<1> seq < MaxSeq /\ seq' = seq + 1 /\ cleared' = cleared
  BY DEF appendEventLocked
<1>1. \A k \in 0..(count - 1) : entries[At(head + k)] = seq - count + k + 1
  BY DEF LogInv
<1>2. CASE count = N
  <2>1. entries' = [entries EXCEPT ![head] = seq'] /\ head' = At(head + 1) /\ count' = N
    BY <1>2 DEF appendEventLocked
  <2>2. head' = IF head + 1 < N THEN head + 1 ELSE 0
    BY <2>1, Wrap
  <2>3. ASSUME NEW k \in 0..(N - 1) PROVE entries'[At(head' + k)] = seq' - N + k + 1
    <3>1. At(head' + k) = IF head' + k < N THEN head' + k ELSE head' + k - N
      BY <2>2, Wrap
    <3>2. CASE k = N - 1
      <4>1. At(head' + k) = head
        BY <2>2, <3>1, <3>2
      <4> QED
        BY <2>1, <3>2, <4>1
    <3>3. CASE k < N - 1
      <4>1. At(head + (k + 1)) = IF head + k + 1 < N THEN head + k + 1 ELSE head + k + 1 - N
        BY <3>3, Wrap
      <4>2. At(head' + k) = At(head + (k + 1)) /\ At(head' + k) # head /\ At(head' + k) \in 0..(N - 1)
        BY <2>2, <3>1, <3>3, <4>1
      <4>3. entries[At(head + (k + 1))] = seq - N + (k + 1) + 1
        <5>1. k + 1 \in 0..(count - 1)
          BY <1>2, <3>3
        <5> QED
          BY <1>1, <1>2, <5>1
      <4>4. entries'[At(head' + k)] = entries[At(head' + k)]
        BY <2>1, <4>2
      <4> QED
        BY <4>2, <4>3, <4>4
    <3> QED
      BY <3>2, <3>3
  <2>4. LogTypeOK'
    BY <1>2, <2>1, <2>2 DEF LogTypeOK, Slots
  <2>5. seq' - count' >= cleared'
    BY <1>2, <2>1
  <2> QED
    BY <2>1, <2>3, <2>4, <2>5 DEF LogInv
<1>3. CASE count < N
  <2>1. /\ entries' = [entries EXCEPT ![At(head + count)] = seq']
        /\ head' = head /\ count' = count + 1
    BY <1>3 DEF appendEventLocked
  <2>2. At(head + count) = IF head + count < N THEN head + count ELSE head + count - N
    BY <1>3, Wrap
  <2>3. ASSUME NEW k \in 0..count PROVE entries'[At(head + k)] = seq' - (count + 1) + k + 1
    <3>1. At(head + k) = IF head + k < N THEN head + k ELSE head + k - N
      BY <1>3, Wrap
    <3>2. CASE k = count
      BY <2>1, <2>2, <3>2
    <3>3. CASE k < count
      <4>1. At(head + k) # At(head + count) /\ At(head + k) \in 0..(N - 1)
        BY <1>3, <2>2, <3>1, <3>3
      <4>2. entries[At(head + k)] = seq - count + k + 1
        BY <1>1, <3>3
      <4>3. entries'[At(head + k)] = entries[At(head + k)]
        BY <2>1, <4>1
      <4> QED
        BY <4>2, <4>3
    <3> QED
      BY <3>2, <3>3
  <2>4. seq - count = cleared
    BY <1>3 DEF LogInv
  <2> QED
    BY <1>3, <2>1, <2>2, <2>3, <2>4 DEF LogInv, LogTypeOK, Slots
<1> QED
  BY <1>2, <1>3

\* After a clear the ring is empty and seq stays.
LEMMA ClearStep == ASSUME LogInv, clear PROVE LogInv'
BY LogAssumption DEF LogInv, LogTypeOK, clear, Slots

\* The invariant of the ring.
THEOREM LogInvHolds == LogSpec => []LogInv
<1>1. LogInv /\ [LogNext]_logVars => LogInv'
  <2> SUFFICES ASSUME LogInv, [LogNext]_logVars PROVE LogInv'
    OBVIOUS
  <2>1. CASE UNCHANGED logVars
    BY <2>1 DEF logVars, LogInv, LogTypeOK
  <2> QED
    BY <2>1, AppendStep, ClearStep DEF LogNext
<1> QED
  BY LogInitially, <1>1, PTL DEF LogSpec

\* What Entries computes from head, count and seq is the tail of the events.
LEMMA RingIsTail == LogInv => ReaderSeesTail
<1> SUFFICES ASSUME LogInv, NEW since \in -1..(MaxSeq + 1), since < seq
             PROVE Entries(since) = [i \in 1..(seq - LastMissing(since)) |-> LastMissing(since) + i]
  <2>1. \A since \in -1..(MaxSeq + 1) : since >= seq => Entries(since) = << >>
    BY DEF Entries
  <2>2. MaxSeq \in Nat /\ (LogInv => seq \in Nat)
    BY LogAssumption DEF LogInv, LogTypeOK
  <2>3. LogInv => \A since \in -1..(MaxSeq + 1) : since >= seq \/ since < seq
    BY <2>2
  <2> QED
    BY <2>1, <2>3 DEF ReaderSeesTail
<1> DEFINE N == logBufSize
           start == seq - count
           offset == IF since > start THEN since - start ELSE 0
<1> N \in Nat \ {0} /\ MaxSeq \in Nat
  BY LogAssumption
<1> /\ head \in 0..(N - 1) /\ count \in 0..N /\ seq \in Nat /\ cleared \in 0..seq /\ seq - count >= cleared
    /\ count = N \/ seq - count = cleared
  BY DEF LogInv, LogTypeOK, Slots
<1>1. \A k \in 0..(count - 1) : entries[At(head + k)] = seq - count + k + 1
  BY DEF LogInv
<1>2. LastMissing(since) = start + offset
  <2>1. start + offset \in {since, cleared, seq - N}
    OBVIOUS
  <2>2. start + offset >= since /\ start + offset >= cleared /\ start + offset >= seq - N
    OBVIOUS
  <2>3. \A m, n \in {since, cleared, seq - N} :
          m >= since /\ m >= cleared /\ m >= seq - N /\ n >= since /\ n >= cleared /\ n >= seq - N => m = n
    OBVIOUS
  <2> HIDE DEF start, offset
  <2> QED
    BY <2>1, <2>2, <2>3 DEF LastMissing
<1>3. CASE count = 0
  <2>1. Entries(since) = << >> /\ seq - LastMissing(since) = 0
    <3>1. Entries(since) = << >>
      BY <1>3, Zenon DEF Entries
    <3>2. seq - LastMissing(since) = 0
      <4>1. start = seq
        BY <1>3
      <4>2. offset = 0
        BY <4>1
      <4> HIDE DEF start, offset
      <4> QED
        BY <1>2, <4>1, <4>2
    <3> QED
      BY <3>1, <3>2
  <2>2. LastMissing(since) \in Int
    BY <1>2
  <2>3. [i \in 1..0 |-> LastMissing(since) + i] = << >>
    BY <2>2, NoEvents, Zenon
  <2> QED
    BY <2>1, <2>3, Zenon
<1>4. CASE count # 0
  <2>1. Entries(since) = [i \in 1..(count - offset) |-> entries[At(head + offset + i - 1)]]
    BY <1>4 DEF Entries
  <2>2. seq - LastMissing(since) = count - offset /\ offset \in 0..count
    BY <1>2
  <2>3. \A i \in 1..(count - offset) : entries[At(head + offset + i - 1)] = LastMissing(since) + i
    <3> SUFFICES ASSUME NEW i \in 1..(count - offset)
                 PROVE entries[At(head + offset + i - 1)] = LastMissing(since) + i
      OBVIOUS
    <3>1. offset + i - 1 \in 0..(count - 1) /\ head + (offset + i - 1) = head + offset + i - 1
      BY <2>2
    <3>2. entries[At(head + (offset + i - 1))] = seq - count + (offset + i - 1) + 1
      BY <1>1, <3>1
    <3> QED
      BY <1>2, <2>2, <3>1, <3>2
  <2> HIDE DEF offset, start
  <2> QED
    BY <2>1, <2>2, <2>3
<1> QED
  BY <1>3, <1>4

\* A reader is sent exactly the events that it misses and the ring still has, for
\* a ring of any size, after any number of wraps and clears.
THEOREM ReaderAlwaysSeesTail == LogSpec => []ReaderSeesTail
BY LogInvHolds, RingIsTail, PTL

------------------------------------------------------------------------------
\* Both tables are within their limits.
AuthInv ==
  /\ AuthTypeOK
  /\ IsFiniteSet(Known(sessions)) /\ Cardinality(Known(sessions)) <= maxAuthSessions
  /\ IsFiniteSet(Known(attempts)) /\ Cardinality(Known(attempts)) <= maxAuthAttempts

\* Two empty tables.
LEMMA AuthInitially == AuthInit => AuthInv
<1> SUFFICES ASSUME AuthInit PROVE AuthInv
  OBVIOUS
<1>1. Known(sessions) = {} /\ Known(attempts) = {}
  BY DEF AuthInit, Known
<1>2. AuthTypeOK
  BY AuthAssumption DEF AuthInit, AuthTypeOK
<1> QED
  BY <1>1, <1>2, FS_EmptySet, AuthAssumption DEF AuthInv

\* An entry removed from a table leaves one entry less.
LEMMA EntryRemoved ==
  ASSUME NEW table, IsFiniteSet(Known(table)), NEW k \in Known(table), NEW less, less = [table EXCEPT ![k] = Nothing]
  PROVE  /\ Known(less) = Known(table) \ {k}
         /\ IsFiniteSet(Known(less)) /\ Cardinality(Known(less)) = Cardinality(Known(table)) - 1
<1>1. Known(less) = Known(table) \ {k}
  BY DEF Known
<1> QED
  BY <1>1, FS_RemoveElement

\* An entry written into a table adds at most itself.
LEMMA EntryWritten ==
  ASSUME NEW S, IsFiniteSet(S), NEW k, NEW T, T \subseteq S \cup {k}
  PROVE  /\ IsFiniteSet(T) /\ Cardinality(T) \in Nat /\ Cardinality(T) <= Cardinality(S) + 1
         /\ k \in S => Cardinality(T) <= Cardinality(S)
<1>1. IsFiniteSet(S \cup {k}) /\ Cardinality(S) \in Nat
  BY FS_AddElement, FS_CardinalityType
<1>2. /\ Cardinality(S \cup {k}) \in Nat /\ Cardinality(S \cup {k}) <= Cardinality(S) + 1
      /\ k \in S => Cardinality(S \cup {k}) = Cardinality(S)
  BY <1>1, FS_AddElement, FS_CardinalityType
<1>3. IsFiniteSet(T) /\ Cardinality(T) \in Nat /\ Cardinality(T) <= Cardinality(S \cup {k})
  BY <1>1, FS_Subset, FS_CardinalityType
<1> QED
  BY <1>1, <1>2, <1>3

\* The sweep removes entries and changes none.
LEMMA Sweep ==
  ASSUME AuthInv
  PROVE  /\ Kept \in [Tokens -> Nat \cup {Nothing}] /\ Remembered \in [Clients -> Attempts \cup {Nothing}]
         /\ \A t \in Known(Kept) : t \in Tokens /\ t \in Known(sessions) /\ Kept[t] = sessions[t]
         /\ \A c \in Known(Remembered) : c \in Clients /\ c \in Known(attempts) /\ Remembered[c] = attempts[c]
         /\ IsFiniteSet(Known(Kept)) /\ Cardinality(Known(Kept)) \in Nat
         /\ Cardinality(Known(Kept)) <= maxAuthSessions
         /\ IsFiniteSet(Known(Remembered)) /\ Cardinality(Known(Remembered)) \in Nat
         /\ Cardinality(Known(Remembered)) <= maxAuthAttempts
<1>1. Kept \in [Tokens -> Nat \cup {Nothing}] /\ Remembered \in [Clients -> Attempts \cup {Nothing}]
  BY DEF AuthInv, AuthTypeOK, Kept, Remembered
<1>2. \A t \in Known(Kept) : t \in Tokens /\ t \in Known(sessions) /\ Kept[t] = sessions[t]
  BY DEF AuthInv, AuthTypeOK, Kept, Known
<1>3. \A c \in Known(Remembered) : c \in Clients /\ c \in Known(attempts) /\ Remembered[c] = attempts[c]
  BY DEF AuthInv, AuthTypeOK, Remembered, Known
<1>4. Known(Kept) \subseteq Known(sessions) /\ Known(Remembered) \subseteq Known(attempts)
  BY <1>2, <1>3
<1>5. /\ IsFiniteSet(Known(Kept)) /\ Cardinality(Known(Kept)) \in Nat
      /\ Cardinality(Known(Kept)) <= Cardinality(Known(sessions)) /\ Cardinality(Known(sessions)) \in Nat
  BY <1>4, FS_Subset, FS_CardinalityType DEF AuthInv
<1>6. /\ IsFiniteSet(Known(Remembered)) /\ Cardinality(Known(Remembered)) \in Nat
      /\ Cardinality(Known(Remembered)) <= Cardinality(Known(attempts)) /\ Cardinality(Known(attempts)) \in Nat
  BY <1>4, FS_Subset, FS_CardinalityType DEF AuthInv
<1> QED
  BY <1>1, <1>2, <1>3, <1>5, <1>6, AuthAssumption DEF AuthInv

\* What a step does to the sessions: they stay within the limit, and one that has
\* not expired goes by its logout or as the one that expires first.
SessionTable ==
  /\ sessions' \in [Tokens -> Nat \cup {Nothing}]
  /\ IsFiniteSet(Known(sessions')) /\ Cardinality(Known(sessions')) <= maxAuthSessions
  /\ \A t \in Known(sessions) :
       sessions[t] > now /\ sessions'[t] = Nothing =>
         \/ deleteSession(t)
         \/ /\ Cardinality(Known(Kept)) = maxAuthSessions
            /\ \A u \in Known(Kept) : sessions[t] <= sessions[u]

\* What a step does to the failed logins, likewise.
AttemptTable ==
  /\ attempts' \in [Clients -> Attempts \cup {Nothing}]
  /\ IsFiniteSet(Known(attempts')) /\ Cardinality(Known(attempts')) <= maxAuthAttempts
  /\ \A c \in Known(attempts) :
       attempts[c].until # Nothing /\ attempts[c].until > now /\ attempts'[c] = Nothing =>
         \/ succeeded(c)
         \/ /\ Cardinality(Known(Remembered)) = maxAuthAttempts
            /\ \A d \in Known(Remembered) : attempts[c].seen <= attempts[d].seen

\* A step that writes no entry.
LEMMA TablesSwept ==
  ASSUME AuthInv
  PROVE  /\ sessions' = Kept \/ sessions' = sessions => SessionTable
         /\ attempts' = Remembered \/ attempts' = attempts => AttemptTable
<1>1. ASSUME sessions' = Kept PROVE SessionTable
  <2>1. \A t \in Known(sessions) : sessions[t] > now => Kept[t] # Nothing
    BY DEF AuthInv, AuthTypeOK, Kept, Known
  <2> QED
    BY <1>1, <2>1, Sweep DEF SessionTable
<1>2. ASSUME sessions' = sessions PROVE SessionTable
  <2>1. \A t \in Known(sessions) : sessions[t] # Nothing
    BY DEF Known
  <2> QED
    BY <1>2, <2>1 DEF AuthInv, AuthTypeOK, SessionTable
<1>3. ASSUME attempts' = Remembered PROVE AttemptTable
  <2>1. \A c \in Known(attempts) : attempts[c].until # Nothing /\ attempts[c].until > now => Remembered[c] # Nothing
    <3> SUFFICES ASSUME NEW c \in Known(attempts), attempts[c].until # Nothing, attempts[c].until > now
                 PROVE Remembered[c] # Nothing
      OBVIOUS
    <3>1. c \in Clients /\ attempts[c] # Nothing /\ attempts[c] \in Attempts
      BY DEF AuthInv, AuthTypeOK, Known
    <3>2. attempts[c].until \in Nat /\ now \in Nat
      BY <3>1 DEF AuthInv, AuthTypeOK, Attempts
    <3>3. ~Stale(attempts[c])
      BY <3>2 DEF Stale
    <3> QED
      BY <3>1, <3>3 DEF Remembered
  <2> QED
    BY <1>3, <2>1, Sweep DEF AttemptTable
<1>4. ASSUME attempts' = attempts PROVE AttemptTable
  <2>1. \A c \in Known(attempts) : attempts[c] # Nothing
    BY DEF Known
  <2> QED
    BY <1>4, <2>1 DEF AuthInv, AuthTypeOK, AttemptTable
<1> QED
  BY <1>1, <1>2, <1>3, <1>4

\* A login writes its session into a table that has room, or makes room.
LEMMA SessionCreated ==
  ASSUME AuthInv, NEW t \in Tokens, NEW ttl \in TTLs, createSession(t, ttl) PROVE SessionTable
<1>1. now + ttl \in Nat /\ now + ttl # Nothing /\ maxAuthSessions \in Nat
  BY AuthAssumption DEF AuthInv, AuthTypeOK
<1>2. PICK room \in IF Cardinality(Known(Kept)) >= maxAuthSessions THEN deleteOldestSession(Kept) ELSE {Kept} :
        sessions' = [room EXCEPT ![t] = now + ttl]
  BY DEF createSession
<1>3. \A u \in Known(sessions) : sessions[u] > now => u \in Known(Kept)
  BY DEF AuthInv, AuthTypeOK, Kept, Known
<1>4. CASE Cardinality(Known(Kept)) >= maxAuthSessions
  <2>1. room \in deleteOldestSession(Kept)
    BY <1>2, <1>4
  <2>2. PICK o \in Known(Kept) : room = [Kept EXCEPT ![o] = Nothing] /\ \A v \in Known(Kept) : Kept[o] <= Kept[v]
    BY <2>1 DEF deleteOldestSession
  <2>3. IsFiniteSet(Known(room)) /\ Cardinality(Known(room)) = Cardinality(Known(Kept)) - 1
    BY <2>2, Sweep, EntryRemoved
  <2>4. Cardinality(Known(Kept)) \in Nat /\ Cardinality(Known(Kept)) = maxAuthSessions
    BY <1>1, <1>4, Sweep
  <2>5. IsFiniteSet(Known(sessions')) /\ Cardinality(Known(sessions')) \in Nat
        /\ Cardinality(Known(sessions')) <= Cardinality(Known(room)) + 1
    <3>1. Known(sessions') \subseteq Known(room) \cup {t}
      BY <1>2 DEF Known
    <3> QED
      BY <2>3, <3>1, EntryWritten
  <2>6. Cardinality(Known(sessions')) <= maxAuthSessions
    BY <2>3, <2>4, <2>5
  <2>7. room \in [Tokens -> Nat \cup {Nothing}] /\ sessions' \in [Tokens -> Nat \cup {Nothing}]
    BY <1>1, <1>2, <2>2, Sweep
  <2>8. ASSUME NEW u \in Known(sessions), sessions[u] > now, sessions'[u] = Nothing
        PROVE  \A v \in Known(Kept) : sessions[u] <= sessions[v]
    <3>1. u \in Known(Kept) /\ u \in Tokens
      BY <1>3, <2>8, Sweep
    <3>2. u # t /\ room[u] = Nothing
      BY <1>1, <1>2, <2>7, <2>8, <3>1
    <3>3. u = o
      BY <2>2, <3>1, <3>2, Sweep DEF Known
    <3> QED
      BY <2>2, <3>3, Sweep
  <2> QED
    BY <2>4, <2>5, <2>6, <2>7, <2>8 DEF SessionTable
<1>5. CASE ~(Cardinality(Known(Kept)) >= maxAuthSessions)
  <2>1. room = Kept
    BY <1>2, <1>5
  <2>2. IsFiniteSet(Known(sessions')) /\ Cardinality(Known(sessions')) \in Nat
        /\ Cardinality(Known(sessions')) <= Cardinality(Known(Kept)) + 1
    <3>1. Known(sessions') \subseteq Known(Kept) \cup {t}
      BY <1>2, <2>1 DEF Known
    <3> QED
      BY <3>1, Sweep, EntryWritten
  <2>3. Cardinality(Known(sessions')) <= maxAuthSessions
    BY <1>1, <1>5, <2>2, Sweep
  <2>4. sessions' \in [Tokens -> Nat \cup {Nothing}]
    BY <1>1, <1>2, <2>1, Sweep
  <2>5. \A u \in Known(sessions) : sessions[u] > now => sessions'[u] # Nothing
    BY <1>1, <1>2, <1>3, <2>1, Sweep DEF Known
  <2> QED
    BY <2>2, <2>3, <2>4, <2>5 DEF SessionTable
<1> QED
  BY <1>4, <1>5

\* A request moves the end of a session that is kept; a logout ends one.
LEMMA SessionUsed ==
  ASSUME AuthInv, NEW t \in Tokens, (\E ttl \in TTLs : session(t, ttl)) \/ deleteSession(t) PROVE SessionTable
<1>1. ASSUME NEW ttl \in TTLs, session(t, ttl) PROVE SessionTable
  <2>1. now + ttl \in Nat /\ now + ttl # Nothing /\ maxAuthSessions \in Nat
    BY AuthAssumption DEF AuthInv, AuthTypeOK
  <2>2. CASE Kept[t] = Nothing
    BY <1>1, <2>2, TablesSwept DEF session
  <2>3. CASE Kept[t] # Nothing
    <3>1. sessions' = [Kept EXCEPT ![t] = now + ttl]
      BY <1>1, <2>3 DEF session
    <3>2. sessions' \in [Tokens -> Nat \cup {Nothing}]
      BY <2>1, <3>1, Sweep
    <3>3. t \in Known(Kept) /\ Known(sessions') \subseteq Known(Kept) \cup {t}
      BY <2>3, <3>1, Sweep DEF Known
    <3>4. /\ IsFiniteSet(Known(sessions')) /\ Cardinality(Known(sessions')) \in Nat
          /\ Cardinality(Known(sessions')) <= Cardinality(Known(Kept))
      BY <3>3, Sweep, EntryWritten
    <3>5. Cardinality(Known(sessions')) <= maxAuthSessions
      BY <2>1, <3>4, Sweep
    <3>6. \A u \in Known(sessions) : sessions[u] > now => u \in Known(Kept)
      BY DEF AuthInv, AuthTypeOK, Kept, Known
    <3>7. \A u \in Known(sessions) : sessions[u] > now => sessions'[u] # Nothing
      BY <2>1, <3>1, <3>6, Sweep DEF Known
    <3> QED
      BY <3>2, <3>4, <3>5, <3>7 DEF SessionTable
  <2> QED
    BY <2>2, <2>3
<1>2. ASSUME deleteSession(t) PROVE SessionTable
  <2>1. sessions' = [sessions EXCEPT ![t] = Nothing] /\ sessions \in [Tokens -> Nat \cup {Nothing}]
    BY <1>2 DEF deleteSession, AuthInv, AuthTypeOK
  <2>2. Known(sessions') \subseteq Known(sessions)
    BY <2>1 DEF Known
  <2>3. /\ IsFiniteSet(Known(sessions')) /\ Cardinality(Known(sessions')) \in Nat
        /\ Cardinality(Known(sessions)) \in Nat /\ Cardinality(Known(sessions')) <= Cardinality(Known(sessions))
    BY <2>2, FS_Subset, FS_CardinalityType DEF AuthInv
  <2>4. Cardinality(Known(sessions')) <= maxAuthSessions
    BY <2>3, AuthAssumption DEF AuthInv
  <2>5. \A u \in Known(sessions) : sessions'[u] = Nothing => u = t
    BY <2>1 DEF Known
  <2> QED
    BY <1>2, <2>1, <2>3, <2>4, <2>5 DEF SessionTable
<1> QED
  BY <1>1, <1>2

\* A failure is counted below the limit, or blocks.
LEMMA FailsType == ASSUME AuthInv, NEW a \in Attempts PROVE Fails(a) \in Attempts /\ Fails(a) # Nothing
<1>1. now \in 0..MaxTime /\ now + BlockFor \in Nat /\ FailureLimit \in Nat \ {0}
  BY AuthAssumption DEF AuthInv, AuthTypeOK
<1>2. a.failures \in 0..(FailureLimit - 1) /\ a.until \in Nat \cup {Nothing}
  BY DEF Attempts
<1>3. CASE a.failures + 1 >= FailureLimit
  BY <1>1, <1>3, AuthAssumption DEF Fails, Attempts
<1>4. CASE ~(a.failures + 1 >= FailureLimit)
  <2>1. a.failures + 1 \in 0..(FailureLimit - 1)
    BY <1>1, <1>2, <1>4
  <2> QED
    BY <1>1, <1>2, <1>4, <2>1, AuthAssumption DEF Fails, Attempts
<1> QED
  BY <1>3, <1>4

\* A failed login is written into a table that has the client or room for it, or
\* makes room.
LEMMA AttemptFailed == ASSUME AuthInv, NEW c \in Clients, failed(c) PROVE AttemptTable
<1> DEFINE old(room) == IF room[c] = Nothing THEN [failures |-> 0, until |-> Nothing, seen |-> now] ELSE room[c]
           Full == Remembered[c] = Nothing /\ Cardinality(Known(Remembered)) >= maxAuthAttempts
<1>1. PICK room \in IF Full THEN deleteOldestAttempt(Remembered) ELSE {Remembered} :
        attempts' = [room EXCEPT ![c] = Fails(old(room))]
  BY DEF failed
<1>2. maxAuthAttempts \in Nat /\ Nothing \notin Attempts
  BY AuthAssumption
<1>3. [failures |-> 0, until |-> Nothing, seen |-> now] \in Attempts
  BY AuthAssumption DEF AuthInv, AuthTypeOK, Attempts
<1>4. room \in [Clients -> Attempts \cup {Nothing}] => Fails(old(room)) \in Attempts /\ Fails(old(room)) # Nothing
  <2>1. room \in [Clients -> Attempts \cup {Nothing}] => old(room) \in Attempts
    BY <1>3
  <2> QED
    BY <2>1, FailsType
<1>5. \A d \in Known(attempts) : attempts[d].until # Nothing /\ attempts[d].until > now => d \in Known(Remembered)
  <2> SUFFICES ASSUME NEW d \in Known(attempts), attempts[d].until # Nothing, attempts[d].until > now
               PROVE d \in Known(Remembered)
    OBVIOUS
  <2>1. d \in Clients /\ attempts[d] # Nothing /\ attempts[d] \in Attempts
    BY DEF AuthInv, AuthTypeOK, Known
  <2>2. attempts[d].until \in Nat /\ now \in Nat
    BY <2>1 DEF AuthInv, AuthTypeOK, Attempts
  <2>3. ~Stale(attempts[d])
    BY <2>2 DEF Stale
  <2> QED
    BY <2>1, <2>3 DEF Remembered, Known
<1> HIDE DEF old
<1>6. CASE Full
  <2>1. PICK o \in Known(Remembered) :
          room = [Remembered EXCEPT ![o] = Nothing] /\ \A e \in Known(Remembered) : Remembered[o].seen <= Remembered[e].seen
    BY <1>1, <1>6 DEF deleteOldestAttempt
  <2>2. IsFiniteSet(Known(room)) /\ Cardinality(Known(room)) = Cardinality(Known(Remembered)) - 1
    BY <2>1, Sweep, EntryRemoved
  <2>3. Cardinality(Known(Remembered)) \in Nat /\ Cardinality(Known(Remembered)) = maxAuthAttempts
    BY <1>2, <1>6, Sweep
  <2>4. room \in [Clients -> Attempts \cup {Nothing}]
    BY <2>1, Sweep
  <2>5. attempts' \in [Clients -> Attempts \cup {Nothing}]
    BY <1>1, <1>4, <2>4
  <2>6. Known(attempts') \subseteq Known(room) \cup {c}
    BY <1>1 DEF Known
  <2>7. /\ IsFiniteSet(Known(attempts')) /\ Cardinality(Known(attempts')) \in Nat
        /\ Cardinality(Known(attempts')) <= Cardinality(Known(room)) + 1
    BY <2>2, <2>6, EntryWritten
  <2>8. Cardinality(Known(attempts')) <= maxAuthAttempts
    BY <1>2, <2>2, <2>3, <2>7
  <2>9. ASSUME NEW d \in Known(attempts), attempts[d].until # Nothing, attempts[d].until > now, attempts'[d] = Nothing
        PROVE  \A e \in Known(Remembered) : attempts[d].seen <= attempts[e].seen
    <3>1. d \in Known(Remembered) /\ d \in Clients
      BY <1>5, <2>9, Sweep
    <3>2. d # c /\ room[d] = Nothing
      BY <1>1, <1>4, <2>4, <2>9, <3>1
    <3>3. d = o
      BY <2>1, <3>1, <3>2, Sweep DEF Known
    <3> QED
      BY <2>1, <3>3, Sweep
  <2> QED
    BY <2>3, <2>5, <2>7, <2>8, <2>9 DEF AttemptTable
<1>7. CASE ~Full
  <2>1. room = Remembered /\ Remembered \in [Clients -> Attempts \cup {Nothing}]
    BY <1>1, <1>7, Sweep
  <2>2. attempts' \in [Clients -> Attempts \cup {Nothing}]
    BY <1>1, <1>4, <2>1
  <2>3. Known(attempts') \subseteq Known(Remembered) \cup {c}
    BY <1>1, <2>1 DEF Known
  <2>4. /\ IsFiniteSet(Known(attempts')) /\ Cardinality(Known(attempts')) \in Nat
        /\ Cardinality(Known(attempts')) <= Cardinality(Known(Remembered)) + 1
        /\ c \in Known(Remembered) => Cardinality(Known(attempts')) <= Cardinality(Known(Remembered))
    BY <2>3, Sweep, EntryWritten
  <2>5. c \in Known(Remembered) \/ ~(Cardinality(Known(Remembered)) >= maxAuthAttempts)
    BY <1>7, <2>1 DEF Known
  <2>6. Cardinality(Known(attempts')) <= maxAuthAttempts
    BY <1>2, <2>4, <2>5, Sweep
  <2>7. \A d \in Known(attempts) : attempts[d].until # Nothing /\ attempts[d].until > now => attempts'[d] # Nothing
    BY <1>1, <1>4, <1>5, <2>1 DEF Known
  <2> QED
    BY <2>2, <2>4, <2>6, <2>7 DEF AttemptTable
<1> QED
  BY <1>6, <1>7

\* A login that succeeds forgets the failures of its client.
LEMMA AttemptForgotten == ASSUME AuthInv, NEW c \in Clients, succeeded(c) PROVE AttemptTable
<1>1. attempts' = [attempts EXCEPT ![c] = Nothing] /\ attempts \in [Clients -> Attempts \cup {Nothing}]
  BY DEF succeeded, AuthInv, AuthTypeOK
<1>2. Known(attempts') \subseteq Known(attempts)
  BY <1>1 DEF Known
<1>3. /\ IsFiniteSet(Known(attempts')) /\ Cardinality(Known(attempts')) \in Nat
      /\ Cardinality(Known(attempts)) \in Nat /\ Cardinality(Known(attempts')) <= Cardinality(Known(attempts))
  BY <1>2, FS_Subset, FS_CardinalityType DEF AuthInv
<1>4. Cardinality(Known(attempts')) <= maxAuthAttempts
  BY <1>3, AuthAssumption DEF AuthInv
<1>5. \A d \in Known(attempts) : attempts'[d] = Nothing => d = c
  BY <1>1 DEF Known
<1> QED
  BY <1>1, <1>3, <1>4, <1>5 DEF AttemptTable

\* Every step treats both tables so.
LEMMA AuthStep == ASSUME AuthInv, [AuthNext]_authVars PROVE AuthInv' /\ SessionTable /\ AttemptTable
<1>1. now' \in 0..MaxTime
  BY AuthAssumption DEF AuthInv, AuthTypeOK, AuthNext, Clock, SessionSteps, AttemptSteps, createSession, session,
     deleteSession, blocked, failed, succeeded, authVars
<1>2. ASSUME Clock \/ UNCHANGED authVars PROVE SessionTable /\ AttemptTable
  BY <1>2, TablesSwept DEF Clock, authVars
<1>3. ASSUME SessionSteps PROVE SessionTable /\ AttemptTable
  <2>1. attempts' = Remembered \/ attempts' = attempts
    BY <1>3 DEF SessionSteps, createSession, session, deleteSession
  <2>2. SessionTable
    BY <1>3, SessionCreated, SessionUsed DEF SessionSteps
  <2> QED
    BY <2>1, <2>2, TablesSwept
<1>4. ASSUME AttemptSteps PROVE SessionTable /\ AttemptTable
  <2>1. sessions' = Kept \/ sessions' = sessions
    BY <1>4 DEF AttemptSteps, blocked, failed, succeeded
  <2>2. ASSUME blocked PROVE AttemptTable
    BY <2>2, TablesSwept DEF blocked
  <2>3. AttemptTable
    BY <1>4, <2>2, AttemptFailed, AttemptForgotten DEF AttemptSteps
  <2> QED
    BY <2>1, <2>3, TablesSwept
<1>5. SessionTable /\ AttemptTable
  BY <1>2, <1>3, <1>4 DEF AuthNext
<1> QED
  BY <1>1, <1>5 DEF SessionTable, AttemptTable, AuthInv, AuthTypeOK

\* The invariant of the two tables: neither outgrows its limit.
THEOREM AuthInvHolds == AuthSpec => []AuthInv
<1>1. AuthInv /\ [AuthNext]_authVars => AuthInv'
  BY AuthStep
<1> QED
  BY <1>1, AuthInitially, PTL DEF AuthSpec

\* Nobody is logged out before the time, and no block forgotten, but for the
\* limits of the tables, for limits and tables of any size.
THEOREM YoungestAreKept == AuthSpec => TablesKeepTheYoungest
<1> DEFINE A == /\ Cardinality(Known(sessions')) <= maxAuthSessions
                /\ Cardinality(Known(attempts')) <= maxAuthAttempts
                /\ \A t \in Known(sessions) :
                     sessions[t] > now /\ sessions'[t] = Nothing =>
                       \/ deleteSession(t)
                       \/ /\ Cardinality(Known(Kept)) = maxAuthSessions
                          /\ \A u \in Known(Kept) : sessions[t] <= sessions[u]
                /\ \A c \in Known(attempts) :
                     attempts[c].until # Nothing /\ attempts[c].until > now /\ attempts'[c] = Nothing =>
                       \/ succeeded(c)
                       \/ /\ Cardinality(Known(Remembered)) = maxAuthAttempts
                          /\ \A d \in Known(Remembered) : attempts[c].seen <= attempts[d].seen
<1>1. SessionTable /\ AttemptTable => A
  BY DEF SessionTable, AttemptTable
<1>2. AuthInv /\ [AuthNext]_authVars => [A]_authVars
  BY <1>1, AuthStep
<1> QED
  BY <1>2, AuthInvHolds, PTL DEF AuthSpec, TablesKeepTheYoungest
==============================================================================
