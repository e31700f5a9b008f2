----------------------------- MODULE Reassembly -----------------------------
(***************************************************************************)
(* IPv4 fragmentation and reassembly (src/fragment.rs): fragment_payload   *)
(* at the sender, and one IpReassemblyBuffer fed with fragments in any     *)
(* order, duplicated, lost, cut at different MTUs on different paths, and  *)
(* with an identification that is used again for another datagram.         *)
(*                                                                         *)
(* last_used is only ever compared, so the sets are kept in the order of   *)
(* their last use; updated_at is kept as an age in ticks of the clock.     *)
(***************************************************************************)
EXTENDS Integers, SequencesExt, FiniteSetsExt, SeqFilter

CONSTANTS
    FragmentKey,    \* source, destination, protocol and identification
    Datagrams,      \* the payloads sent under each key, sequences of bytes
    Mtus,           \* the MTUs on the way
    Header,         \* IPV4_MIN_HEADER_LEN, 20 in the code
    Unit,           \* what offsets are counted in, 8 bytes in the code
    MaxPayload,     \* IPV4_MAX_PAYLOAD_LEN, 65515 in the code
    MaxDatagrams,   \* MAX_REASSEMBLY_DATAGRAMS, 1024 in the code
    MaxBytes,       \* MAX_REASSEMBLY_BYTES, 4 MiB in the code
    Timeout         \* REASSEMBLY_TIMEOUT in ticks, 60 s in the code

ASSUME ReassemblyAssumption ==
    /\ Unit \in Nat \ {0, 1} /\ Header \in Nat
    /\ MaxDatagrams \in Nat \ {0} /\ Timeout \in Nat \ {0}
    /\ MaxPayload \in Nat /\ MaxBytes \in Nat /\ MaxPayload <= MaxBytes
    /\ Mtus \subseteq Nat
    /\ IsFiniteSet(FragmentKey)
    /\ \A k \in FragmentKey :
          /\ IsFiniteSet(Datagrams[k]) /\ Datagrams[k] \subseteq Seq(Nat)
          /\ \A d \in Datagrams[k] : Len(d) \in 1 .. MaxPayload

-----------------------------------------------------------------------------
(* The sender.                                                             *)

\* fragment_payload: the pieces of a payload for an MTU, none when the MTU
\* leaves no room for one unit.  UnalignedPieces fills the MTU to the last byte.
PiecesOf(chunk, payload) ==
    IF chunk = 0 THEN {}
    ELSE {LET start == i * chunk
              end == Min({start + chunk, Len(payload)})
          IN  [offset |-> start, data |-> SubSeq(payload, start + 1, end), mf |-> end < Len(payload)] :
             i \in {n \in 0 .. Len(payload) - 1 : n * chunk < Len(payload)}}
UnalignedPieces(mtu, payload) ==
    IF mtu <= Header THEN {} ELSE PiecesOf(mtu - Header, payload)
FragmentPayload(mtu, payload) ==
    IF mtu <= Header THEN {} ELSE PiecesOf(((mtu - Header) \div Unit) * Unit, payload)

End(f) == f.offset + Len(f.data)

\* Fragments no sender of this stack emits: without payload, not aligned and
\* not the last, and beyond the largest datagram.
Malformed ==
    {[offset |-> 0, data |-> <<>>, mf |-> TRUE],
     [offset |-> 0, data |-> [i \in 1 .. Unit + 1 |-> 0], mf |-> TRUE],
     [offset |-> (MaxPayload \div Unit) * Unit, data |-> [i \in 1 .. Unit |-> 0], mf |-> FALSE]}

Fragments ==
    [k \in FragmentKey |->
        (UNION {FragmentPayload(mtu, d) : mtu \in Mtus, d \in Datagrams[k]}) \cup Malformed]

-----------------------------------------------------------------------------
(* The reassembly buffer.                                                  *)

VARIABLES
    sets,           \* entries of each key, sorted by offset; <<>> for no set
    age,            \* ticks since the set's last fragment (updated_at)
    lru,            \* the keys that have a set, the least recently used first
    bufferedBytes,  \* buffered_bytes
    result          \* the last call: its key, and the payload it returned or <<>>

vars == <<sets, age, lru, bufferedBytes, result>>

Nothing(k) == [key |-> k, payload |-> <<>>]

Init ==
    /\ sets = [k \in FragmentKey |-> <<>>]
    /\ age = [k \in FragmentKey |-> 0]
    /\ lru = <<>>
    /\ bufferedBytes = 0
    /\ result = Nothing("none")

\* The bytes that are held, each named by its entry and its place there, and by
\* the key; their number is the sum of the lengths.
BytesOf(entries) == UNION {{i} \X DOMAIN entries[i].data : i \in DOMAIN entries}
HeldBytes(held, keys) == UNION {{k} \X BytesOf(held[k]) : k \in keys}
BytesIn(keys) == Cardinality(HeldBytes(sets, keys))

\* A list of keys without some of them, in its order.
Without(order, keys) == Retain(order, {i \in DOMAIN order : order[i] \notin keys})

\* expire_stale_at: the sets no fragment has reached for the timeout.
\* StaleUnlessFinal spares the sets that wait for a middle piece.
StaleUnlessFinal ==
    {k \in FragmentKey : sets[k] # <<>> /\ age[k] >= Timeout /\ \A i \in DOMAIN sets[k] : sets[k][i].mf}
Stale == {k \in FragmentKey : sets[k] # <<>> /\ age[k] >= Timeout}

Terminals(entries) == {e \in Range(entries) : ~e.mf}

\* The fragment contradicts the set it belongs to: it ends beyond the end the
\* final fragment gave, moves that end, truncates what is held, or disagrees
\* about a byte.  KeepsConflict looks at the lengths only.
KeepsConflict(entries, f) ==
    \/ \E e \in Terminals(entries) : End(f) > End(e) \/ (~f.mf /\ End(f) # End(e))
    \/ ~f.mf /\ \E e \in Range(entries) : End(e) > End(f)
Contradicts(entries, f) ==
    \/ \E e \in Terminals(entries) : End(f) > End(e) \/ (~f.mf /\ End(f) # End(e))
    \/ ~f.mf /\ \E e \in Range(entries) : End(e) > End(f)
    \/ \E e \in Range(entries) :
          \E b \in Max({f.offset, e.offset}) .. Min({End(f), End(e)}) - 1 :
              f.data[b - f.offset + 1] # e.data[b - e.offset + 1]

\* make_room_for, first loop: the set that goes so that a new key gets one.
ForCount(k, order) ==
    IF k \notin Range(order) /\ Len(order) >= MaxDatagrams THEN {Head(order)} ELSE {}

\* Second loop: the oldest of the other sets go, one by one, until the bytes
\* fit; when none is left and they still do not, the key's own set goes too and
\* the fragment with it.  EvictNewest starts from the
\* other end.
EvictNewest(k, order) == Reverse(Without(order, {k}))
Evictable(k, order) == Without(order, {k})

ForBytes(k, order, bytes, n) ==
    LET others == Evictable(k, order)
        oldest(i) == {others[j] : j \in 1 .. i}
        fits(i) == bytes - BytesIn(oldest(i)) + n <= MaxBytes
        enough == {i \in 0 .. Len(others) : fits(i)}
    IN  IF enough = {} THEN [room |-> FALSE, gone |-> oldest(Len(others)) \cup {k}]
        ELSE [room |-> TRUE, gone |-> oldest(Min(enough))]

\* push and sort_by_key, which keeps the order of equal offsets.
Insert(entries, f) ==
    LET before == Cardinality({i \in DOMAIN entries : entries[i].offset <= f.offset})
    IN  InsertAt(entries, before + 1, f)

\* The completeness loop: no gap before any entry, a final fragment, and
\* nothing beyond it.  CompleteOnLast trusts the final fragment alone;
\* GapAtSeam asks for pieces that overlap.
EndBefore(entries, i) == Max({0} \cup {End(entries[j]) : j \in 1 .. i - 1})
CompleteOnLast(entries) == entries[1].offset = 0 /\ Terminals(entries) # {}
GapAtSeam(entries) ==
    /\ \A i \in DOMAIN entries : i = 1 \/ entries[i].offset < EndBefore(entries, i)
    /\ \E e \in Terminals(entries) : End(e) = EndBefore(entries, Len(entries) + 1)
Complete(entries) ==
    /\ \A i \in DOMAIN entries : entries[i].offset <= EndBefore(entries, i)
    /\ \E e \in Terminals(entries) : End(e) = EndBefore(entries, Len(entries) + 1)

\* full_payload: every entry copied over the ones before it.
Assemble(entries) ==
    [b \in 1 .. EndBefore(entries, Len(entries) + 1) |->
        LET covering == {i \in DOMAIN entries : entries[i].offset < b /\ b <= End(entries[i])}
        IN  IF covering = {} THEN 0
            ELSE entries[Max(covering)].data[b - entries[Max(covering)].offset]]

\* remove_buffer for each of the keys: their entries and their bytes go.
\* DropSetOnly forgets the bytes; DropWholeUnits counts a short last unit full.
DropSetOnly(keys) ==
    /\ sets' = [k \in FragmentKey |-> IF k \in keys THEN <<>> ELSE sets[k]]
    /\ lru' = Without(lru, keys)
    /\ UNCHANGED bufferedBytes
DropWholeUnits(keys) ==
    /\ sets' = [k \in FragmentKey |-> IF k \in keys THEN <<>> ELSE sets[k]]
    /\ lru' = Without(lru, keys)
    /\ bufferedBytes' = bufferedBytes
          - MapThenSumSet(LAMBDA k : ((BytesIn({k}) + Unit - 1) \div Unit) * Unit, keys)
DropSets(keys) ==
    /\ sets' = [k \in FragmentKey |-> IF k \in keys THEN <<>> ELSE sets[k]]
    /\ lru' = Without(lru, keys)
    /\ bufferedBytes' = bufferedBytes - BytesIn(keys)
Forget(keys) == age' = [k \in FragmentKey |-> IF k \in keys THEN 0 ELSE age[k]]

\* expire_stale.  It is offered to the owner of the buffer; nothing in the
\* repository calls it.
ExpireStale ==
    /\ Stale # {}
    /\ DropSets(Stale) /\ Forget(Stale)
    /\ result' = Nothing("none")

\* A fragment that is refused before it is looked at (too long), or after: the
\* set of its key goes with it.
Refuse(k, f) ==
    LET tooLong == End(f) > MaxPayload
        held == IF k \in Stale THEN <<>> ELSE sets[k]
        gone == IF tooLong THEN Stale ELSE Stale \cup {k}
    IN  /\ \/ tooLong
           \/ f.data = <<>>
           \/ f.mf /\ Len(f.data) % Unit # 0
           \/ Contradicts(held, f)
        /\ DropSets(gone) /\ Forget(gone)
        /\ result' = Nothing(k)

\* A fragment that is accepted: room is made, the entry is put in its place,
\* and the datagram is handed out and its set removed once it is complete.
Accept(k, f) ==
    LET held == IF k \in Stale THEN <<>> ELSE sets[k]
        fresh == Without(lru, Stale)
        counted == ForCount(k, fresh)
        order == Without(fresh, counted)
        free == ForBytes(k, order, bufferedBytes - BytesIn(Stale \cup counted), Len(f.data))
        gone == Stale \cup counted \cup free.gone
        entries == Insert(held, f)
        done == Complete(entries)
    IN  /\ End(f) <= MaxPayload /\ f.data # <<>> /\ (f.mf => Len(f.data) % Unit = 0)
        /\ ~Contradicts(held, f)
        /\ IF ~free.room
           THEN DropSets(gone) /\ Forget(gone) /\ result' = Nothing(k)
           ELSE /\ sets' = [q \in FragmentKey |-> IF q = k THEN IF done THEN <<>> ELSE entries
                                                  ELSE IF q \in gone THEN <<>> ELSE sets[q]]
                /\ age' = [q \in FragmentKey |-> IF q \in gone \cup {k} THEN 0 ELSE age[q]]
                /\ lru' = LET kept == Without(lru, gone \cup {k})
                          IN  IF done THEN kept ELSE Append(kept, k)
                /\ bufferedBytes' = IF done THEN bufferedBytes - BytesIn(gone \cup {k})
                                    ELSE bufferedBytes - BytesIn(gone) + Len(f.data)
                /\ result' = IF done THEN [key |-> k, payload |-> Assemble(entries)] ELSE Nothing(k)

AddFragment(k) == \E f \in Fragments[k] : Refuse(k, f) \/ Accept(k, f)

Tick ==
    /\ \E k \in FragmentKey : sets[k] # <<>> /\ age[k] < Timeout
    /\ age' = [k \in FragmentKey |->
                 IF sets[k] # <<>> /\ age[k] < Timeout THEN age[k] + 1 ELSE age[k]]
    /\ UNCHANGED <<sets, lru, bufferedBytes, result>>

Next == ExpireStale \/ Tick \/ \E k \in FragmentKey : AddFragment(k)

Spec == Init /\ [][Next]_vars

\* Time passes.  Nobody has to call expire_stale, and no fragment has to come.
FairSpec == Spec /\ WF_vars(Tick)

-----------------------------------------------------------------------------
(* Properties.                                                             *)

Entry == [offset : Nat, data : Seq(Nat), mf : BOOLEAN]

\* Type invariant.
TypeOK ==
    /\ sets \in [FragmentKey -> Seq(Entry)]
    /\ age \in [FragmentKey -> 0 .. Timeout]
    /\ lru \in Seq(FragmentKey)
    /\ bufferedBytes \in Nat
    /\ result \in [key : FragmentKey \cup {"none"}, payload : Seq(Nat)]

\* buffered_bytes is the number of bytes held, at every step of every mixture
\* of refusals, expiries, evictions and completions, and both limits hold.
AccountingExact ==
    /\ bufferedBytes = BytesIn(FragmentKey)
    /\ bufferedBytes <= MaxBytes
    /\ Len(lru) <= MaxDatagrams
    /\ Range(lru) = {k \in FragmentKey : sets[k] # <<>>}
    /\ Cardinality(Range(lru)) = Len(lru)

\* The state of the buffer has its type and its bookkeeping is exact (remove_buffer,
\* make_room_for, expire_stale_at).
BufferSound == TypeOK /\ AccountingExact

\* What add_fragment returns under a key that is used for one datagram is that
\* datagram.  Under a key used for several, its length is the length of one of
\* them and every byte is the byte one of them has at that place.
AssembledIsSent ==
    result.payload # <<>> =>
        LET sent == Datagrams[result.key]
            p == result.payload
        IN  /\ Cardinality(sent) = 1 => p \in sent
            /\ \E d \in sent : Len(d) = Len(p)
            /\ \A i \in DOMAIN p : \E d \in sent : i \in DOMAIN d /\ d[i] = p[i]

InOrder(entries) == \A i, j \in DOMAIN entries : i < j => entries[i].offset <= entries[j].offset

\* Every fragment once, sorted by offset.
Sorted(fragments) == {entries \in SetToSeqs(fragments) : InOrder(entries)}

\* The pieces fragment_payload cuts for any MTU fit that MTU, and put in any
\* order into an empty buffer they pass every check, take their place, and give
\* the payload back when the last of them has come and no earlier.
PiecesReassemble ==
    lru = <<>> => \A k \in FragmentKey : \A d \in Datagrams[k], mtu \in Mtus :
        LET pieces == FragmentPayload(mtu, d)
        IN  /\ \A p \in pieces : Header + Len(p.data) <= mtu /\ (p.mf => Len(p.data) % Unit = 0)
            /\ mtu >= Header + Unit =>
                  \A some \in SUBSET pieces : \A entries \in Sorted(some) :
                      /\ \A p \in pieces \ some :
                            ~Contradicts(entries, p) /\ Insert(entries, p) \in Sorted(some \cup {p})
                      /\ Complete(entries) <=> some = pieces
                      /\ some = pieces => Assemble(entries) = d

\* What is sent survives: every payload can be cut and put together again, and what
\* is handed out was sent (fragment_payload, add_fragment).
DatagramsSurvive == AssembledIsSent /\ PiecesReassemble

\* No set that is held is complete: as soon as the last missing byte arrives,
\* in whatever order and with whatever overlaps, the datagram is handed out.
NothingCompleteIsHeld ==
    \A k \in FragmentKey :
        ~\E t \in Terminals(sets[k]) :
            \A b \in 0 .. End(t) - 1 :
                \E e \in Range(sets[k]) : e.offset <= b /\ b < End(e)

\* The entries of a set never contradict each other, so the payload that is put
\* together does not depend on the order the fragments came in.
HeldAgree ==
    \A k \in FragmentKey :
        /\ InOrder(sets[k])
        /\ \A e, f \in Range(sets[k]) :
              /\ ~e.mf => End(f) <= End(e)
              /\ \A b \in Max({f.offset, e.offset}) .. Min({End(f), End(e)}) - 1 :
                    f.data[b - f.offset + 1] = e.data[b - e.offset + 1]

\* What is held is incomplete and free of contradictions (the checks of add_fragment
\* before it inserts, and its test of completeness after it).
HeldSound == NothingCompleteIsHeld /\ HeldAgree

\* A set disappears while another set's fragment is handled only because it has
\* timed out, or because the limits force it out together with every set that
\* was used less recently (but the one the fragment belongs to).
EvictsOldest ==
    [][\A i, j \in DOMAIN lru :
              /\ i < j /\ result'.key \notin {lru[i], lru[j]}
              /\ age[lru[j]] < Timeout /\ sets'[lru[j]] = <<>>
              => sets'[lru[i]] = <<>>]_vars

\* As long as fragments keep coming, under whatever key, a set that no fragment
\* reaches any more goes: each call of add_fragment first expires what is stale.
\* (When no fragment comes at all, stale sets stay where they are.)
StaleIsFreed ==
    []<><<\E q \in FragmentKey : AddFragment(q)>>_vars =>
        \A k \in FragmentKey : []<><<AddFragment(k)>>_vars \/ []<>(sets[k] = <<>>)
====
