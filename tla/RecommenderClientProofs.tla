------------------------ MODULE RecommenderClientProofs ------------------------
(***************************************************************************)
(* Proofs about the certificate cache and the requests on top of it, for   *)
(* every number of workers, files, renewals and attempts, and whatever the *)
(* configurations name or leave open: which certificates a handshake gets, *)
(* and that renewals do not make one fail.                                 *)
(***************************************************************************)
EXTENDS RecommenderClient, TLAPS, FiniteSetTheorems

USE DEF None, Never, NoError, Pairs

--------------------------------------------------------------------------------
(* The inductive invariant of the cache. *)

Errors == {"none", "unreadable", "mismatch"}

Entries ==
    [cached : BOOLEAN, pair : 0..MaxPairs, err : Errors, lastUpdate : Nat, lastAccess : Nat]

Calls ==
    [pc : {"idle", "lookup", "access", "cert", "key", "store", "done"},
     certFile : CertNames, keyFile : KeyNames,
     now : Nat, tries : Nat, pair : 0..MaxPairs, err : Errors, lastUpdate : Nat, current : BOOLEAN]

CacheType ==
    /\ clock \in Nat /\ issued \in 0..MaxPairs
    /\ disk \in [CertFiles \cup KeyFiles -> 0..MaxPairs] /\ replaced \in [Pairs -> Int]
    /\ cache \in [CertNames -> Entries] /\ sweepDue \in BOOLEAN
    /\ call \in [Workers -> Calls]

\* A pair is in one certificate file at most, and while it is there, or before it is
\* issued, it has not left one.
DiskFits ==
    /\ \A c \in CertFiles : disk[c] # None => disk[c] <= issued /\ replaced[disk[c]] = Never
    /\ \A c, d \in CertFiles : c # d /\ disk[c] = disk[d] => disk[c] = None
    /\ \A p \in Pairs : p > issued => replaced[p] = Never

\* Pair p was in its file at time t, or later.
Since(p, t) == replaced[p] = Never \/ replaced[p] >= t

\* An entry's certificate was in its file when the entry is dated.
EntryFits(e) ==
    e.cached /\ e.err = NoError =>
        e.pair \in Pairs /\ e.lastUpdate <= clock /\ Since(e.pair, e.lastUpdate)

\* A certificate that a callback has read was in its file during the callback; one
\* that it has from the cache has not expired, and was there not long before.
CallFits(c) ==
    /\ c.pc = "key" => c.certFile \in CertFiles
    /\ c.now <= clock
    /\ c.pc = "key" \/ (c.pc = "store" /\ c.err = NoError) => c.pair \in Pairs /\ Since(c.pair, c.now)
    /\ c.pc \in {"access", "done"} /\ c.err = NoError =>
          /\ c.pair \in Pairs /\ Since(c.pair, c.now - CacheTimeout)
          /\ c.now > NotAfter[c.pair] => Since(c.pair, c.now)

TransportFits == transport = NoConfig \/ \E url \in DOMAIN Recommenders : transport = ConfigOf(url)

CInv ==
    /\ CacheType /\ DiskFits /\ TransportFits
    /\ \A f \in CertNames : EntryFits(cache[f])
    /\ \A w \in Workers : CallFits(call[w])

--------------------------------------------------------------------------------
(* Configurations. *)

\* Merged with the flags, a configuration names files that there are, or none
\* (mergeTLSConfig).
LEMMA MergedConfig ==
    ASSUME NEW url \in DOMAIN Recommenders
    PROVE  \/ ConfigOf(url) = NoConfig
           \/ /\ ConfigOf(url).set
              /\ ConfigOf(url).certFile \in CertNames /\ ConfigOf(url).keyFile \in KeyNames
<1> DEFINE d == Defaults
           r == Recommenders[url]
<1>1. /\ NoConfig.set = FALSE
      /\ d \in {NoConfig} \cup TLSConfigs /\ r \in {NoConfig} \cup TLSConfigs
    BY RecommenderAssumption DEF NoConfig
<1>2. \A x \in TLSConfigs : x.set /\ x.certFile \in CertNames /\ x.keyFile \in KeyNames
    BY DEF TLSConfigs
<1>3. CASE ~d.set \/ ~r.set
    <2>1. ConfigOf(url) \in {d, r}
        BY <1>3 DEF ConfigOf, mergeTLSConfig
    <2> QED
        BY <1>1, <1>2, <2>1
<1>4. CASE d.set /\ r.set
    <2>1. d \in TLSConfigs /\ r \in TLSConfigs
        BY <1>1, <1>4
    <2>2. ConfigOf(url) = [r EXCEPT !.caFile = Or(@, d.caFile), !.certFile = Or(@, d.certFile),
                                    !.keyFile = Or(@, d.keyFile)]
        BY <1>4 DEF ConfigOf, mergeTLSConfig
    <2>3. Or(r.certFile, d.certFile) \in CertNames /\ Or(r.keyFile, d.keyFile) \in KeyNames
        BY <1>2, <2>1 DEF Or
    <2> QED
        BY <2>1, <2>2, <2>3 DEF TLSConfigs
<1> QED
    BY <1>3, <1>4

--------------------------------------------------------------------------------
(* Steps of callbacks. *)

\* The callbacks and the eviction loop leave clock and files alone.
LEMMA CallbackKeeps ==
    ASSUME CInv, UNCHANGED << clock, files, transport >>, sweepDue' \in BOOLEAN,
           cache' \in [CertNames -> Entries], \A f \in CertNames : EntryFits(cache'[f]),
           call' \in [Workers -> Calls], \A w \in Workers : CallFits(call'[w])
    PROVE  CInv'
<1>1. clock' = clock /\ disk' = disk /\ issued' = issued /\ replaced' = replaced
    BY DEF files
<1>2. CacheType' /\ DiskFits' /\ TransportFits'
    BY <1>1 DEF CInv, CacheType, DiskFits, TransportFits
<1>3. \A f \in CertNames : EntryFits(cache[f])'
    BY <1>1 DEF EntryFits, Since
<1>4. \A w \in Workers : CallFits(call[w])'
    BY <1>1 DEF CallFits, Since
<1> QED
    BY <1>2, <1>3, <1>4 DEF CInv

\* A step of one callback.
LEMMA OneCallKeeps ==
    ASSUME CInv, UNCHANGED << clock, files, cache, sweepDue, transport >>,
           NEW w \in Workers, NEW r \in Calls, CallFits(r), call' = [call EXCEPT ![w] = r]
    PROVE  CInv'
<1>1. /\ CacheType /\ \A f \in CertNames : EntryFits(cache[f])
      /\ \A v \in Workers : CallFits(call[v])
    BY DEF CInv
<1>2. call' \in [Workers -> Calls] /\ \A v \in Workers : call'[v] = IF v = w THEN r ELSE call[v]
    BY <1>1 DEF CacheType
<1>3. \A v \in Workers : CallFits(call'[v])
    BY <1>1, <1>2
<1>4. cache' \in [CertNames -> Entries] /\ sweepDue' \in BOOLEAN
      /\ \A f \in CertNames : EntryFits(cache'[f])
    BY <1>1 DEF CacheType
<1> QED
    BY <1>2, <1>3, <1>4, CallbackKeeps

\* The record of a worker without a callback.
LEMMA NoCallType ==
    /\ NoCall \in Calls /\ NoCall.pc = "idle" /\ NoCall.now = 0
    /\ NoCall.tries = 0 /\ NoCall.err = "none" /\ NoCall.certFile = NoName
BY CertificateAssumption DEF NoCall, Calls, Errors, CertNames, KeyNames

\* A handshake asks for its certificate (Call).
LEMMA CallKeeps ==
    ASSUME CInv, NEW w \in Workers, NEW c \in CertNames, NEW k \in KeyNames, Call(w, c, k),
           UNCHANGED transport
    PROVE  CInv'
<1>1. clock \in Nat /\ 0 \in 0..MaxPairs
    BY CertificateAssumption DEF CInv, CacheType
<1>2. PICK x \in Calls : x = NoCall
    BY NoCallType
<1> DEFINE r == [x EXCEPT !.pc = "lookup", !.certFile = c, !.keyFile = k, !.now = clock]
<1>3. call' = [call EXCEPT ![w] = r] /\ UNCHANGED << clock, files, cache, sweepDue >>
    BY <1>2 DEF Call
<1>4. r \in Calls /\ r.pc = "lookup" /\ r.certFile = c /\ r.now = clock
    BY <1>1 DEF Calls
<1>5. CallFits(r)
    BY <1>1, <1>4 DEF CallFits
<1> HIDE DEF r
<1> QED
    BY <1>3, <1>4, <1>5, OneCallKeeps

\* The callback finds an entry, or none that it can use (Lookup).
LEMMA LookupKeeps ==
    ASSUME CInv, NEW w \in Workers, Lookup(w), UNCHANGED transport
    PROVE  CInv'
<1> DEFINE c == call[w]
           e == cache[c.certFile]
           reload == [c EXCEPT !.pc = "cert"]
           use == [c EXCEPT !.pc = "access", !.pair = e.pair, !.err = e.err,
                            !.lastUpdate = e.lastUpdate, !.current = TRUE]
<1>1. c \in Calls /\ CallFits(c) /\ c.pc = "lookup" /\ call \in [Workers -> Calls]
    BY DEF CInv, CacheType, Lookup, At
<1>2. c.certFile \in CertNames /\ c.now \in Nat
    BY <1>1 DEF Calls
<1>3. e \in Entries /\ EntryFits(e)
    BY <1>2 DEF CInv, CacheType
<1>4. UNCHANGED << clock, files, cache, sweepDue >>
    BY DEF Lookup
<1>5. CASE Reloads(e, c.now)
    <2>1. call' = [call EXCEPT ![w] = reload]
        BY <1>1, <1>5 DEF Lookup
    <2>2. reload \in Calls /\ CallFits(reload)
        BY <1>1 DEF Calls, CallFits
    <2> HIDE DEF reload
    <2> QED
        BY <1>4, <2>1, <2>2, OneCallKeeps
<1>6. CASE ~Reloads(e, c.now)
    <2>1. call' = [call EXCEPT ![w] = use]
        BY <1>1, <1>6 DEF Lookup
    <2>2. use \in Calls
        BY <1>1, <1>3 DEF Calls, Entries
    <2>3. CallFits(use)
        <3>1. /\ use.pc = "access" /\ use.certFile = c.certFile /\ use.now = c.now
              /\ use.err = e.err /\ use.pair = e.pair
            BY <1>1 DEF Calls
        <3>2. c.now <= clock /\ clock \in Nat /\ CacheTimeout \in Nat /\ NotAfter \in [1..MaxPairs -> Int]
            BY <1>1, CertificateAssumption DEF CallFits, CInv, CacheType
        <3>3. CASE e.err = "none"
            <4>1. /\ e.cached /\ c.now <= e.lastUpdate + CacheTimeout /\ c.now <= NotAfter[e.pair]
                  /\ e.pair \in 1..MaxPairs /\ Since(e.pair, e.lastUpdate) /\ e.lastUpdate \in Nat
                BY <1>2, <1>3, <1>6, <3>2, <3>3 DEF Reloads, isExpired, isCertificateExpired, EntryFits, Entries
            <4>2. Since(e.pair, c.now - CacheTimeout)
                BY <1>2, <3>2, <4>1 DEF Since, CInv, CacheType
            <4>3. ~(c.now > NotAfter[e.pair])
                BY <1>2, <3>2, <4>1
            <4> HIDE DEF use, c, e
            <4> QED
                BY <1>2, <3>1, <3>2, <4>1, <4>2, <4>3 DEF CallFits
        <3>4. CASE e.err # "none"
            <4> HIDE DEF use, c, e
            <4> QED
                BY <1>2, <3>1, <3>2, <3>4 DEF CallFits
        <3> QED
            BY <3>3, <3>4
    <2> HIDE DEF use
    <2> QED
        BY <1>4, <2>1, <2>2, <2>3, OneCallKeeps
<1> QED
    BY <1>5, <1>6

\* The certificate is read: it is in its file now (ReadCert).
LEMMA ReadCertKeeps ==
    ASSUME CInv, NEW w \in Workers, ReadCert(w), UNCHANGED transport
    PROVE  CInv'
<1> DEFINE c == call[w]
           p == OnDisk(c.certFile)
           fails == [c EXCEPT !.pc = "store", !.err = "unreadable"]
           reads == [c EXCEPT !.pc = "key", !.pair = p]
<1>1. c \in Calls /\ CallFits(c) /\ c.pc = "cert" /\ call \in [Workers -> Calls]
    BY DEF CInv, CacheType, ReadCert, At
<1>2. c.certFile \in CertNames /\ c.now \in Nat /\ c.now <= clock
    BY <1>1 DEF CallFits, Calls
<1>3. UNCHANGED << clock, files, cache, sweepDue >>
    BY DEF ReadCert
<1>4. CASE p = None
    <2>1. call' = [call EXCEPT ![w] = fails]
        BY <1>1, <1>4 DEF ReadCert
    <2>2. fails \in Calls /\ CallFits(fails)
        BY <1>1 DEF Calls, CallFits, Errors
    <2> HIDE DEF fails
    <2> QED
        BY <1>3, <2>1, <2>2, OneCallKeeps
<1>5. CASE p # None
    <2>1. call' = [call EXCEPT ![w] = reads]
        BY <1>1, <1>5 DEF ReadCert
    <2>0. c.certFile \in CertFiles /\ p = disk[c.certFile] /\ p \in 0..MaxPairs
        BY <1>2, <1>5 DEF CertNames, OnDisk, CInv, CacheType
    <2>2. reads \in Calls
        BY <1>1, <2>0 DEF Calls
    <2>3. p \in 1..MaxPairs /\ Since(p, c.now)
        BY <1>2, <1>5, <2>0 DEF CInv, DiskFits, Since
    <2>4. CallFits(reads)
        BY <1>1, <1>2, <2>0, <2>3 DEF CallFits, Calls
    <2> HIDE DEF reads
    <2> QED
        BY <1>3, <2>1, <2>2, <2>4, OneCallKeeps
<1> QED
    BY <1>4, <1>5

\* The key is read: it matches, or the pair is forgotten (ReadKey, Mismatch).
LEMMA ReadKeyKeeps ==
    ASSUME CInv, NEW w \in Workers, ReadKey(w), UNCHANGED transport
    PROVE  CInv'
<1> DEFINE c == call[w]
           match == [c EXCEPT !.pc = "store"]
           fails == [c EXCEPT !.pc = "store", !.pair = None, !.err = "unreadable"]
<1>1. c \in Calls /\ CallFits(c) /\ c.pc = "key" /\ call \in [Workers -> Calls]
    BY DEF CInv, CacheType, ReadKey, At
<1>2. UNCHANGED << clock, files, cache, sweepDue >>
    BY DEF ReadKey
<1>3. 0 \in 0..MaxPairs
    BY CertificateAssumption
<1>4. match \in Calls /\ CallFits(match)
    BY <1>1 DEF Calls, CallFits
<1>5. fails \in Calls /\ CallFits(fails)
    BY <1>1, <1>3 DEF Calls, CallFits, Errors
<1>6. PICK n \in Nat : n = c.tries + 1
    BY <1>1 DEF Calls
<1> DEFINE retry == [c EXCEPT !.pc = "cert", !.pair = None, !.tries = n]
           gives == [c EXCEPT !.pc = "store", !.pair = None, !.tries = n, !.err = "mismatch"]
<1>7. retry \in Calls /\ CallFits(retry)
    BY <1>1, <1>3 DEF Calls, CallFits
<1>8. gives \in Calls /\ CallFits(gives)
    BY <1>1, <1>3 DEF Calls, CallFits, Errors
<1>9. Mismatch(c) = retry \/ Mismatch(c) = gives
    BY <1>6 DEF Mismatch
<1>10. \/ call' = [call EXCEPT ![w] = match]
       \/ call' = [call EXCEPT ![w] = fails]
       \/ call' = [call EXCEPT ![w] = Mismatch(c)]
    <2>1. CASE OnDisk(c.keyFile) = c.pair
        <3>1. c.pair # None
            BY <1>1 DEF CallFits
        <3> QED
            BY <2>1, <3>1 DEF ReadKey
    <2>2. CASE OnDisk(c.keyFile) # c.pair /\ OnDisk(c.keyFile) = None
        BY <2>2 DEF ReadKey
    <2>3. CASE OnDisk(c.keyFile) # c.pair /\ OnDisk(c.keyFile) # None
        BY <2>3 DEF ReadKey
    <2> QED
        BY <2>1, <2>2, <2>3
<1> HIDE DEF match, fails, retry, gives, c
<1> QED
    BY <1>2, <1>4, <1>5, <1>7, <1>8, <1>9, <1>10, OneCallKeeps

\* The callback returns (Return).
LEMMA ReturnKeeps ==
    ASSUME CInv, NEW w \in Workers, Return(w), UNCHANGED transport
    PROVE  CInv'
<1>1. call' = [call EXCEPT ![w] = NoCall] /\ UNCHANGED << clock, files, cache, sweepDue >>
    BY DEF Return
<1>2. CallFits(NoCall)
    BY NoCallType DEF CallFits, CInv, CacheType
<1> QED
    BY <1>1, <1>2, NoCallType, OneCallKeeps

\* An entry is marked as accessed (Access).
LEMMA AccessKeeps ==
    ASSUME CInv, NEW w \in Workers, Access(w), UNCHANGED transport
    PROVE  CInv'
<1> DEFINE c == call[w]
           r == [c EXCEPT !.pc = "done", !.current = FALSE]
<1>1. c \in Calls /\ CallFits(c) /\ c.pc = "access" /\ call \in [Workers -> Calls]
    BY DEF CInv, CacheType, Access, At
<1>2. r \in Calls /\ CallFits(r)
    BY <1>1 DEF Calls, CallFits
<1>3. call' = [call EXCEPT ![w] = r] /\ UNCHANGED << clock, files, sweepDue >>
    BY <1>1 DEF Access
<1> HIDE DEF r
<1>4. call' \in [Workers -> Calls] /\ \A v \in Workers : CallFits(call'[v])
    BY <1>1, <1>2, <1>3 DEF CInv
<1>5. c.certFile \in CertNames /\ c.now \in Nat
    BY <1>1 DEF Calls
<1>6. cache \in [CertNames -> Entries] /\ \A f \in CertNames : EntryFits(cache[f])
    BY DEF CInv, CacheType
<1>7. cache' \in [CertNames -> Entries] /\ \A f \in CertNames : EntryFits(cache'[f])
    <2>1. CASE c.current
        <3> DEFINE e == [cache[c.certFile] EXCEPT !.lastAccess = c.now]
        <3>1. cache' = [cache EXCEPT ![c.certFile] = e]
            BY <1>5, <1>6, <2>1 DEF Access
        <3>2. e \in Entries /\ EntryFits(e)
            BY <1>5, <1>6 DEF Entries, EntryFits
        <3> HIDE DEF e
        <3> QED
            BY <1>5, <1>6, <3>1, <3>2
    <2>2. CASE ~c.current
        BY <1>6, <2>2 DEF Access
    <2> QED
        BY <2>1, <2>2
<1>8. sweepDue' \in BOOLEAN
    BY <1>3 DEF CInv, CacheType
<1> QED
    BY <1>3, <1>4, <1>7, <1>8, CallbackKeeps

\* Detaching entries changes nothing that the invariant is about (Detach).
LEMMA DetachKeeps ==
    ASSUME NEW calls \in [Workers -> Calls], \A v \in Workers : CallFits(calls[v]), NEW fs
    PROVE  /\ Detach(calls, fs) \in [Workers -> Calls]
           /\ \A v \in Workers : CallFits(Detach(calls, fs)[v])
           /\ \A v \in Workers : \/ Detach(calls, fs)[v] = calls[v]
                                 \/ Detach(calls, fs)[v] = [calls[v] EXCEPT !.current = FALSE]
<1>1. \A v \in Workers : [calls[v] EXCEPT !.current = FALSE] \in Calls
    BY DEF Calls
<1>2. \A v \in Workers : CallFits([calls[v] EXCEPT !.current = FALSE])
    BY DEF Calls, CallFits
<1>3. \A v \in Workers : \/ Detach(calls, fs)[v] = calls[v]
                         \/ Detach(calls, fs)[v] = [calls[v] EXCEPT !.current = FALSE]
    BY DEF Detach
<1>4. Detach(calls, fs) \in [Workers -> Calls]
    BY <1>1 DEF Detach
<1>5. \A v \in Workers : CallFits(Detach(calls, fs)[v])
    BY <1>2, <1>3
<1> QED
    BY <1>3, <1>4, <1>5

\* The entry is stored, dated to the beginning of the callback (StoreEntry, NewEntry).
LEMMA StoreEntryKeeps ==
    ASSUME CInv, NEW w \in Workers, StoreEntry(w), UNCHANGED transport
    PROVE  CInv'
<1> DEFINE c == call[w]
           calls == Detach(call, {c.certFile})
           r == [calls[w] EXCEPT !.pc = "done", !.lastUpdate = c.now]
<1>1. c \in Calls /\ CallFits(c) /\ c.pc = "store" /\ call \in [Workers -> Calls]
    BY DEF CInv, CacheType, StoreEntry, At
<1>2. calls \in [Workers -> Calls] /\ (\A v \in Workers : CallFits(calls[v]))
      /\ (calls[w] = c \/ calls[w] = [c EXCEPT !.current = FALSE])
    BY <1>1, DetachKeeps DEF CInv
<1>3. UNCHANGED << clock, files, sweepDue >> /\ cache' = [cache EXCEPT ![c.certFile] = NewEntry(c)]
    BY DEF StoreEntry
<1>4. call' = [calls EXCEPT ![w] = r]
    BY <1>2 DEF StoreEntry
<1>5. c.certFile \in CertNames /\ c.now \in Nat /\ c.now <= clock /\ CacheTimeout \in Nat /\ clock \in Nat
    BY <1>1, CertificateAssumption DEF CallFits, Calls, CInv, CacheType
<1>6. calls[w] \in Calls /\ calls[w].now = c.now /\ calls[w].pc = "store"
    BY <1>1, <1>2 DEF Calls
<1>7. r \in Calls /\ r.pc = "done" /\ r.pair = calls[w].pair /\ r.err = calls[w].err
      /\ r.certFile = calls[w].certFile /\ r.now = c.now
    BY <1>5, <1>6 DEF Calls
<1>8. CallFits(r)
    <2> DEFINE q == calls[w]
    <2>1. q.err = "none" => q.pair \in 1..MaxPairs /\ Since(q.pair, c.now)
        BY <1>2, <1>6 DEF CallFits
    <2>2. \A p \in 1..MaxPairs : Since(p, c.now) => Since(p, c.now - CacheTimeout)
        BY <1>5 DEF Since, CInv, CacheType
    <2> HIDE DEF r, q, c
    <2> QED
        BY <1>5, <1>7, <2>1, <2>2 DEF CallFits, q
<1>9. NewEntry(c) \in Entries /\ EntryFits(NewEntry(c))
    BY <1>1, <1>5 DEF Calls, CallFits, NewEntry, Entries, EntryFits
<1>10. cache' \in [CertNames -> Entries] /\ \A f \in CertNames : EntryFits(cache'[f])
    BY <1>3, <1>5, <1>9 DEF CInv, CacheType
<1> HIDE DEF r, calls
<1>11. call' \in [Workers -> Calls] /\ \A v \in Workers : CallFits(call'[v])
    BY <1>2, <1>4, <1>7, <1>8
<1>12. sweepDue' \in BOOLEAN
    BY <1>3 DEF CInv, CacheType
<1> QED
    BY <1>3, <1>10, <1>11, <1>12, CallbackKeeps

\* The eviction loop removes entries (Run).
LEMMA RunKeeps ==
    ASSUME CInv, Run, UNCHANGED transport
    PROVE  CInv'
<1>1. PICK fs : call' = Detach(call, fs)
              /\ cache' = [c \in CertNames |-> IF c \in fs THEN NoEntry ELSE cache[c]]
    BY DEF Run
<1>2. UNCHANGED << clock, files >> /\ sweepDue' \in BOOLEAN
    BY DEF Run
<1>3. NoEntry \in Entries /\ EntryFits(NoEntry)
    BY CertificateAssumption DEF NoEntry, Entries, EntryFits, Errors
<1>4. cache' \in [CertNames -> Entries] /\ \A f \in CertNames : EntryFits(cache'[f])
    BY <1>1, <1>3 DEF CInv, CacheType
<1>5. call' \in [Workers -> Calls] /\ \A v \in Workers : CallFits(call'[v])
    BY <1>1, DetachKeeps DEF CInv, CacheType
<1> QED
    BY <1>2, <1>4, <1>5, CallbackKeeps

--------------------------------------------------------------------------------
(* The clock and the files. *)

\* What fits still fits when time passes and pairs leave their files (Tick, Leaves).
LEMMA TimeKeeps ==
    ASSUME CInv, UNCHANGED << cache, call, transport >>,
           clock' \in Nat, clock' >= clock, replaced' \in [Pairs -> Int],
           \A p \in Pairs : replaced'[p] = replaced[p] \/ replaced'[p] >= clock
    PROVE  /\ \A f \in CertNames : EntryFits(cache[f])'
           /\ \A w \in Workers : CallFits(call[w])'
<1>1. clock \in Nat /\ replaced \in [1..MaxPairs -> Int] /\ CacheTimeout \in Nat
    BY CertificateAssumption DEF CInv, CacheType
<1>2. ASSUME NEW p \in Pairs, NEW t \in Int, t <= clock, Since(p, t)
      PROVE  Since(p, t)'
    BY <1>1, <1>2 DEF Since
<1>3. ASSUME NEW f \in CertNames PROVE EntryFits(cache[f])'
    <2>1. EntryFits(cache[f]) /\ cache[f] \in Entries
        BY DEF CInv, CacheType
    <2>2. cache[f].lastUpdate \in Int
        BY <2>1 DEF Entries
    <2> QED
        BY <1>1, <1>2, <2>1, <2>2 DEF EntryFits
<1>4. ASSUME NEW w \in Workers PROVE CallFits(call[w])'
    <2>1. CallFits(call[w]) /\ call[w] \in Calls
        BY DEF CInv, CacheType
    <2>2. call[w].now \in Nat /\ call[w].now <= clock
        BY <2>1 DEF Calls, CallFits
    <2>3. call[w].now - CacheTimeout \in Int /\ call[w].now - CacheTimeout <= clock
        BY <1>1, <2>2
    <2> QED
        BY <1>1, <1>2, <2>1, <2>2, <2>3 DEF CallFits
<1> QED
    BY <1>3, <1>4

\* Time passes (Tick).
LEMMA TickKeeps ==
    ASSUME CInv, Tick, UNCHANGED transport
    PROVE  CInv'
<1>1. clock \in Nat /\ clock' = clock + 1 /\ sweepDue' \in BOOLEAN /\ UNCHANGED << files, cache, call >>
    BY DEF Tick, CInv, CacheType
<1>2. disk' = disk /\ issued' = issued /\ replaced' = replaced /\ cache' = cache /\ call' = call
    BY <1>1 DEF files
<1>3. CacheType' /\ DiskFits' /\ TransportFits'
    BY <1>1, <1>2 DEF CInv, CacheType, DiskFits, TransportFits
<1>4. /\ \A f \in CertNames : EntryFits(cache[f])'
      /\ \A w \in Workers : CallFits(call[w])'
    BY <1>1, <1>2, TimeKeeps DEF CInv, CacheType
<1> QED
    BY <1>3, <1>4 DEF CInv

\* A certificate leaves its file (Leaves).
LEMMA LeavesType ==
    ASSUME CInv, NEW c \in CertFiles
    PROVE  /\ Leaves(c) \in [Pairs -> Int]
           /\ \A p \in Pairs : \/ Leaves(c)[p] = replaced[p]
                               \/ p = disk[c] /\ Leaves(c)[p] = clock
BY DEF CInv, CacheType, Leaves

\* A new pair is issued, and its certificate is written (RenewCert).
LEMMA RenewCertKeeps ==
    ASSUME CInv, NEW c \in CertFiles, RenewCert(c), UNCHANGED transport
    PROVE  CInv'
<1>1. /\ issued < MaxPairs /\ issued' = issued + 1 /\ disk' = [disk EXCEPT ![c] = issued + 1]
      /\ replaced' = Leaves(c) /\ UNCHANGED << clock, cache, sweepDue, call >>
    BY DEF RenewCert
<1>2. CacheType /\ DiskFits /\ MaxPairs \in Nat
    BY CertificateAssumption DEF CInv
<1>3. issued + 1 \in 1..MaxPairs /\ issued \in Nat
    BY <1>1, <1>2 DEF CacheType
<1>4. CacheType'
    BY <1>1, <1>2, <1>3, LeavesType DEF CacheType
<1>5. DiskFits'
    <2>1. \A d \in CertFiles : disk'[d] = IF d = c THEN issued + 1 ELSE disk[d]
        BY <1>1, <1>2 DEF CacheType
    <2>2. \A d \in CertFiles : disk[d] \in 0..MaxPairs /\ disk[d] <= issued
        BY <1>2, <1>3 DEF CacheType, DiskFits
    <2>3. \A p \in Pairs : p # disk[c] => replaced'[p] = replaced[p]
        BY <1>1, LeavesType
    <2>4. ASSUME NEW d \in CertFiles, disk'[d] # None
          PROVE  disk'[d] <= issued' /\ replaced'[disk'[d]] = Never
        <3>1. CASE d = c
            BY <1>1, <1>2, <1>3, <2>1, <2>2, <2>3, <3>1 DEF DiskFits
        <3>2. CASE d # c
            BY <1>1, <1>2, <1>3, <2>1, <2>2, <2>3, <2>4, <3>2 DEF DiskFits
        <3> QED
            BY <3>1, <3>2
    <2>5. ASSUME NEW d \in CertFiles, NEW e \in CertFiles, d # e, disk'[d] = disk'[e]
          PROVE  disk'[d] = None
        BY <1>2, <1>3, <2>1, <2>2, <2>5 DEF DiskFits
    <2>6. ASSUME NEW p \in Pairs, p > issued' PROVE replaced'[p] = Never
        BY <1>1, <1>2, <1>3, <2>2, <2>3, <2>6 DEF DiskFits
    <2> QED
        BY <2>4, <2>5, <2>6 DEF DiskFits
<1>6. /\ \A f \in CertNames : EntryFits(cache[f])'
      /\ \A w \in Workers : CallFits(call[w])'
    BY <1>1, <1>2, LeavesType, TimeKeeps DEF CacheType
<1>7. TransportFits'
    BY DEF CInv, TransportFits
<1> QED
    BY <1>4, <1>5, <1>6, <1>7 DEF CInv

\* The key follows (RenewKey).
LEMMA RenewKeyKeeps ==
    ASSUME CInv, NEW c \in CertFiles, RenewKey(c), UNCHANGED transport
    PROVE  CInv'
<1>1. /\ disk' = [disk EXCEPT ![KeyOf[c]] = disk[c]]
      /\ UNCHANGED << clock, issued, replaced, cache, sweepDue, call >>
    BY DEF RenewKey
<1>2. CacheType /\ DiskFits /\ TransportFits
    BY DEF CInv
<1>3. KeyOf[c] \in KeyFiles /\ \A d \in CertFiles : d # KeyOf[c]
    BY CertificateAssumption
<1>4. CacheType'
    BY <1>1, <1>2, <1>3 DEF CacheType
<1>5. \A d \in CertFiles : disk'[d] = disk[d]
    BY <1>1, <1>2, <1>3 DEF CacheType
<1>6. DiskFits' /\ TransportFits'
    BY <1>1, <1>2, <1>5 DEF DiskFits, TransportFits
<1>7. /\ \A f \in CertNames : EntryFits(cache[f])'
      /\ \A w \in Workers : CallFits(call[w])'
    BY <1>1, <1>2, TimeKeeps DEF CacheType
<1> QED
    BY <1>4, <1>6, <1>7 DEF CInv

\* A certificate file is missing (Vanish).
LEMMA VanishKeeps ==
    ASSUME CInv, NEW c \in CertFiles, Vanish(c), UNCHANGED transport
    PROVE  CInv'
<1>1. /\ disk' = [disk EXCEPT ![c] = None] /\ replaced' = Leaves(c)
      /\ UNCHANGED << clock, issued, cache, sweepDue, call >>
    BY DEF Vanish
<1>2. CacheType /\ DiskFits /\ TransportFits /\ MaxPairs \in Nat
    BY CertificateAssumption DEF CInv
<1>3. CacheType'
    BY <1>1, <1>2, LeavesType DEF CacheType
<1>4. DiskFits'
    <2>1. \A d \in CertFiles : disk'[d] = IF d = c THEN 0 ELSE disk[d]
        BY <1>1, <1>2 DEF CacheType
    <2>2. \A d \in CertFiles : disk[d] \in 0..MaxPairs /\ (disk[d] # 0 => disk[d] <= issued)
        BY <1>2 DEF CacheType, DiskFits
    <2>3. \A p \in Pairs : p # disk[c] => replaced'[p] = replaced[p]
        BY <1>1, LeavesType
    <2>4. ASSUME NEW d \in CertFiles, disk'[d] # None
          PROVE  disk'[d] <= issued' /\ replaced'[disk'[d]] = Never
        BY <1>1, <1>2, <2>1, <2>2, <2>3, <2>4 DEF DiskFits
    <2>5. ASSUME NEW d \in CertFiles, NEW e \in CertFiles, d # e, disk'[d] = disk'[e]
          PROVE  disk'[d] = None
        BY <1>2, <2>1, <2>5 DEF DiskFits
    <2>6. ASSUME NEW p \in Pairs, p > issued' PROVE replaced'[p] = Never
        <3>0. issued' = issued /\ issued \in Int /\ disk[c] \in Int /\ (disk[c] # 0 => disk[c] <= issued)
            BY <1>1, <1>2, <2>2 DEF CacheType
        <3>1. p # disk[c]
            BY <2>6, <3>0
        <3> QED
            BY <1>1, <1>2, <2>3, <2>6, <3>1 DEF DiskFits
    <2> QED
        BY <2>4, <2>5, <2>6 DEF DiskFits
<1>5. /\ \A f \in CertNames : EntryFits(cache[f])'
      /\ \A w \in Workers : CallFits(call[w])'
    BY <1>1, <1>2, LeavesType, TimeKeeps DEF CacheType
<1>6. TransportFits'
    BY <1>2 DEF TransportFits
<1> QED
    BY <1>3, <1>4, <1>5, <1>6 DEF CInv

--------------------------------------------------------------------------------
(* The theorem about the certificates. *)

\* Each file holds a pair of its own when the controller starts.
LEMMA InitCInv == Init => CInv
<1> SUFFICES ASSUME Init PROVE CInv
    OBVIOUS
<1>1. CacheInit /\ transport = NoConfig
    BY DEF Init
<1>2. Cardinality(CertFiles) \in Nat /\ MaxPairs \in Nat /\ Cardinality(CertFiles) <= MaxPairs
    BY CertificateAssumption, FS_CardinalityType
<1>3. issued \in 0..MaxPairs /\ disk \in [CertFiles \cup KeyFiles -> 1..issued]
    BY <1>1, <1>2 DEF CacheInit
<1>4. NoEntry \in Entries /\ EntryFits(NoEntry)
    BY CertificateAssumption DEF NoEntry, Entries, EntryFits, Errors
<1>5. CallFits(NoCall)
    BY <1>1, NoCallType DEF CacheInit, CallFits
<1>6. CacheType
    <2>1. disk \in [CertFiles \cup KeyFiles -> 0..MaxPairs]
        BY <1>2, <1>3
    <2>2. clock = 0 /\ sweepDue = FALSE /\ replaced = [p \in 1..MaxPairs |-> -1]
        BY <1>1, Zenon DEF CacheInit
    <2>3. replaced \in [1..MaxPairs -> Int]
        BY <2>2
    <2>4. cache \in [CertNames -> Entries] /\ call \in [Workers -> Calls]
        BY <1>1, <1>4, NoCallType DEF CacheInit
    <2> QED
        BY <1>3, <2>1, <2>2, <2>3, <2>4 DEF CacheType
<1>7. DiskFits
    BY <1>1, <1>2, <1>3 DEF CacheInit, DiskFits
<1>8. /\ \A f \in CertNames : EntryFits(cache[f])
      /\ \A w \in Workers : CallFits(call[w])
    BY <1>1, <1>4, <1>5 DEF CacheInit
<1> QED
    BY <1>1, <1>6, <1>7, <1>8 DEF CInv, TransportFits

\* The requests leave the cache alone, except where they call for a certificate.
LEMMA UnchangedCInv ==
    ASSUME CInv, UNCHANGED cvars, TransportFits'
    PROVE  CInv'
BY DEF CInv, cvars, files, CacheType, DiskFits, EntryFits, CallFits, Since

\* Every step keeps the invariant.
LEMMA NextCInv == CInv /\ [Next]_vars => CInv'
<1> SUFFICES ASSUME CInv, [Next]_vars PROVE CInv'
    OBVIOUS
<1>1. ASSUME NEW w \in Workers, GetReplicaRecommendation(w) PROVE CInv'
    <2>1. UNCHANGED cvars
        BY <1>1 DEF GetReplicaRecommendation
    <2>2. TransportFits'
        BY <1>1 DEF GetReplicaRecommendation, CInv, TransportFits
    <2> QED
        BY <2>1, <2>2, UnchangedCInv
<1>2. ASSUME NEW w \in Workers, DialWithCertificate(w) PROVE CInv'
    <2>1. Call(w, transport.certFile, transport.keyFile) /\ UNCHANGED transport /\ transport.set
        BY <1>2 DEF DialWithCertificate
    <2>2. transport # NoConfig
        BY <2>1 DEF NoConfig
    <2>3. transport.certFile \in CertNames /\ transport.keyFile \in KeyNames
        BY <2>2, MergedConfig DEF CInv, TransportFits
    <2> QED
        BY <2>1, <2>3, CallKeeps
<1>3. ASSUME NEW w \in Workers, Reuse(w) \/ Dial(w) \/ Answer(w) \/ RequestFails(w) PROVE CInv'
    <2>1. UNCHANGED << cvars, transport >>
        BY <1>3 DEF Reuse, Dial, Answer, RequestFails
    <2>2. TransportFits'
        BY <2>1 DEF CInv, TransportFits
    <2> QED
        BY <2>1, <2>2, UnchangedCInv
<1>4. ASSUME NEW w \in Workers, Callback(w) PROVE CInv'
    <2>1. CallbackStep(w) /\ UNCHANGED transport
        BY <1>4 DEF Callback, rvars
    <2> QED
        BY <2>1, LookupKeeps, AccessKeeps, ReadCertKeeps, ReadKeyKeeps, StoreEntryKeeps
        DEF CallbackStep
<1>5. ASSUME NEW w \in Workers, HandshakeEnds(w) PROVE CInv'
    BY <1>5, ReturnKeeps DEF HandshakeEnds
<1>6. CASE CloseIdle \/ UNCHANGED vars
    <2>1. UNCHANGED << cvars, transport >>
        BY <1>6 DEF CloseIdle, vars, rvars
    <2>2. TransportFits'
        BY <2>1 DEF CInv, TransportFits
    <2> QED
        BY <2>1, <2>2, UnchangedCInv
<1>7. CASE CacheEnvironment /\ UNCHANGED rvars
    <2>1. UNCHANGED transport
        BY <1>7 DEF rvars
    <2> QED
        BY <1>7, <2>1, RunKeeps, TickKeeps, RenewCertKeeps, RenewKeyKeeps, VanishKeeps
        DEF CacheEnvironment
<1> QED
    BY <1>1, <1>2, <1>3, <1>4, <1>5, <1>6, <1>7 DEF Next

\* What the cache, the callbacks and the files hold fits together in every reachable
\* state (GetClientCertificateReloadingFunc, the eviction loop).
THEOREM CacheInvariance == Spec => []CInv
BY InitCInv, NextCInv, PTL DEF Spec

\* A certificate that a handshake gets was in its file at most certificateCacheTimeout
\* before, and during the handshake if it had expired, in whatever order callbacks read
\* and store, and files are renewed or missing (GetClientCertificateReloadingFunc).
THEOREM FreshTheorem == Spec => []FreshEnough
<1>1. CInv => FreshEnough
    <2> SUFFICES ASSUME CInv, NEW w \in Workers, Delivered(w)
                 PROVE  LET left == replaced[call[w].pair]
                            now  == call[w].now
                        IN  \/ left = Never
                            \/ /\ left >= now - CacheTimeout
                               /\ now > NotAfter[call[w].pair] => left >= now
        BY DEF FreshEnough
    <2> QED
        BY DEF CInv, CallFits, Delivered, At, Since
<1> QED
    BY <1>1, CacheInvariance, PTL

--------------------------------------------------------------------------------
(* Renewals. *)

\* A callback that was called with both files was called with those of one pair, and has
\* mismatches left before its last attempt; what that attempt reads first stays the
\* matching one.
CallMatches(c) ==
    /\ c.err # "mismatch"
    /\ c.certFile # NoName /\ c.keyFile # NoName => c.keyFile = KeyOf[c.certFile]
    /\ c.pc \in {"lookup", "cert", "key"} => c.tries < Attempts
    /\ c.pc = "key" /\ c.tries > 0 /\ c.tries = Attempts - 1 =>
          OnDisk(c.keyFile) = c.pair /\ OnDisk(c.certFile) \in {None, c.pair}

MInv ==
    /\ \A f \in CertNames : cache[f].err # "mismatch"
    /\ \A w \in Workers : CallMatches(call[w])

\* The callbacks leave the files alone.
LEMMA MatchKeeps ==
    ASSUME disk' = disk, \A f \in CertNames : cache'[f].err # "mismatch",
           \A w \in Workers : CallMatches(call'[w])
    PROVE  MInv'
BY DEF MInv, CallMatches, OnDisk

\* A step of one callback.
LEMMA OneCallMatches ==
    ASSUME CInv, MInv, disk' = disk, cache' = cache,
           NEW w \in Workers, NEW r, CallMatches(r), call' = [call EXCEPT ![w] = r]
    PROVE  MInv'
<1>1. call \in [Workers -> Calls]
    BY DEF CInv, CacheType
<1>2. \A v \in Workers : CallMatches(call'[v])
    BY <1>1 DEF MInv
<1> QED
    BY <1>2, MatchKeeps DEF MInv

\* Detaching entries does not matter (Detach).
LEMMA DetachMatches ==
    ASSUME NEW calls \in [Workers -> Calls], \A v \in Workers : CallMatches(calls[v]), NEW fs
    PROVE  \A v \in Workers : /\ CallMatches(Detach(calls, fs)[v])
                              /\ Detach(calls, fs)[v].pc = calls[v].pc
<1>1. \A v \in Workers : \/ Detach(calls, fs)[v] = calls[v]
                         \/ Detach(calls, fs)[v] = [calls[v] EXCEPT !.current = FALSE]
    BY DEF Detach
<1>2. \A v \in Workers : /\ CallMatches([calls[v] EXCEPT !.current = FALSE])
                         /\ [calls[v] EXCEPT !.current = FALSE].pc = calls[v].pc
    BY DEF Calls, CallMatches
<1> QED
    BY <1>1, <1>2

\* The steps of the callback keep what the last attempt needs, when renewals are faster
\* than the attempts of a load (retryLoadingX09Keypair).
LEMMA CallbackMatches ==
    ASSUME CInv, MInv, Attempts > 1, "slow" \notin DiskFaults, NEW w \in Workers, CallbackStep(w)
    PROVE  MInv'
<1> DEFINE c == call[w]
<1>1. c \in Calls /\ CallFits(c) /\ CallMatches(c) /\ call \in [Workers -> Calls]
    BY DEF CInv, CacheType, MInv
<1>2. Attempts \in Nat /\ c.tries \in Nat
    BY <1>1, CertificateAssumption DEF Calls
<1>3. disk' = disk
    BY DEF CallbackStep, Lookup, Access, ReadCert, ReadKey, StoreEntry, files
<1>4. CASE Lookup(w)
    <2> DEFINE e == cache[c.certFile]
               reload == [c EXCEPT !.pc = "cert"]
               use == [c EXCEPT !.pc = "access", !.pair = e.pair, !.err = e.err,
                                !.lastUpdate = e.lastUpdate, !.current = TRUE]
    <2>1. c.pc = "lookup" /\ c.certFile \in CertNames /\ cache' = cache
        BY <1>1, <1>4 DEF Lookup, At, Calls
    <2>2. call' = [call EXCEPT ![w] = reload] \/ call' = [call EXCEPT ![w] = use]
        BY <1>1, <1>4 DEF Lookup
    <2>3. CallMatches(reload)
        BY <1>1, <2>1 DEF CallMatches, Calls
    <2>4. e.err # "mismatch"
        BY <2>1 DEF MInv
    <2>5. /\ use.pc = "access" /\ use.err = e.err
          /\ use.certFile = c.certFile /\ use.keyFile = c.keyFile
        BY <1>1 DEF Calls
    <2>6. CallMatches(use)
        BY <1>1, <2>1, <2>4, <2>5 DEF CallMatches
    <2> HIDE DEF reload, use
    <2> QED
        BY <1>3, <2>1, <2>2, <2>3, <2>6, OneCallMatches
<1>5. CASE ReadCert(w)
    <2> DEFINE fails == [c EXCEPT !.pc = "store", !.err = "unreadable"]
               reads == [c EXCEPT !.pc = "key", !.pair = OnDisk(c.certFile)]
    <2>1. c.pc = "cert" /\ SleptEnough(c) /\ cache' = cache
        BY <1>5 DEF ReadCert, At
    <2>2. CASE OnDisk(c.certFile) = None
        <3>1. call' = [call EXCEPT ![w] = fails]
            BY <1>1, <1>5, <2>2 DEF ReadCert
        <3>2. CallMatches(fails)
            BY <1>1, <2>1 DEF CallMatches, Calls
        <3> HIDE DEF fails
        <3> QED
            BY <1>3, <2>1, <3>1, <3>2, OneCallMatches
    <2>3. CASE OnDisk(c.certFile) # None
        <3>1. call' = [call EXCEPT ![w] = reads]
            BY <1>1, <1>5, <2>3 DEF ReadCert
        <3>2. c.tries > 0 /\ c.tries = Attempts - 1 => OnDisk(c.keyFile) = OnDisk(c.certFile)
            BY <1>2, <2>1, <2>3 DEF SleptEnough
        <3>3. /\ reads.pc = "key" /\ reads.pair = OnDisk(c.certFile) /\ reads.tries = c.tries
              /\ reads.err = c.err /\ reads.certFile = c.certFile /\ reads.keyFile = c.keyFile
            BY <1>1 DEF Calls
        <3>4. CallMatches(reads)
            BY <1>1, <2>1, <3>2, <3>3 DEF CallMatches
        <3> HIDE DEF reads
        <3> QED
            BY <1>3, <2>1, <3>1, <3>4, OneCallMatches
    <2> QED
        BY <2>2, <2>3
<1>6. CASE ReadKey(w)
    <2> DEFINE match == [c EXCEPT !.pc = "store"]
               fails == [c EXCEPT !.pc = "store", !.pair = None, !.err = "unreadable"]
    <2>1. c.pc = "key" /\ cache' = cache
        BY <1>6 DEF ReadKey, At
    <2>2. PICK n \in Nat : n = c.tries + 1
        BY <1>2
    <2> DEFINE retry == [c EXCEPT !.pc = "cert", !.pair = None, !.tries = n]
    <2>3. CallMatches(match) /\ CallMatches(fails)
        BY <1>1, <2>1 DEF CallMatches, Calls
    <2>4. CASE OnDisk(c.keyFile) = c.pair
        <3>1. c.pair # None
            BY <1>1, <2>1 DEF CallFits
        <3>2. call' = [call EXCEPT ![w] = match]
            BY <1>6, <2>4, <3>1 DEF ReadKey
        <3> HIDE DEF match, fails
        <3> QED
            BY <1>3, <2>1, <2>3, <3>2, OneCallMatches
    <2>5. CASE OnDisk(c.keyFile) # c.pair /\ OnDisk(c.keyFile) = None
        <3>1. call' = [call EXCEPT ![w] = fails]
            BY <1>6, <2>5 DEF ReadKey
        <3> HIDE DEF match, fails
        <3> QED
            BY <1>3, <2>1, <2>3, <3>1, OneCallMatches
    <2>6. CASE OnDisk(c.keyFile) # c.pair /\ OnDisk(c.keyFile) # None
        <3>1. call' = [call EXCEPT ![w] = Mismatch(c)]
            BY <1>6, <2>6 DEF ReadKey
        <3>2. c.tries + 1 < Attempts
            BY <1>1, <1>2, <2>1, <2>6 DEF CallMatches
        <3>3. Mismatch(c) = retry
            BY <2>2, <3>2 DEF Mismatch
        <3>4. CallMatches(retry)
            BY <1>1, <1>2, <2>1, <2>2, <3>2 DEF CallMatches, Calls
        <3> HIDE DEF retry
        <3> QED
            BY <1>3, <2>1, <3>1, <3>3, <3>4, OneCallMatches
    <2> QED
        BY <2>4, <2>5, <2>6
<1>7. CASE Access(w)
    <2> DEFINE r == [c EXCEPT !.pc = "done", !.current = FALSE]
    <2>1. c.pc = "access" /\ call' = [call EXCEPT ![w] = r]
        BY <1>1, <1>7 DEF Access, At
    <2>2. CallMatches(r)
        BY <1>1, <2>1 DEF CallMatches, Calls
    <2> HIDE DEF r
    <2>3. \A v \in Workers : CallMatches(call'[v])
        BY <1>1, <2>1, <2>2 DEF MInv
    <2>4. c.certFile \in CertNames /\ cache \in [CertNames -> Entries]
        BY <1>1 DEF Calls, CInv, CacheType
    <2>5. \A f \in CertNames : cache'[f].err = cache[f].err
        BY <1>7, <2>4 DEF Access, Entries
    <2> QED
        BY <1>3, <2>3, <2>5, MatchKeeps DEF MInv
<1>8. CASE StoreEntry(w)
    <2> DEFINE calls == Detach(call, {c.certFile})
               r == [calls[w] EXCEPT !.pc = "done", !.lastUpdate = c.now]
    <2>1. /\ call' = [calls EXCEPT ![w] = r] /\ c.pc = "store"
          /\ cache' = [cache EXCEPT ![c.certFile] = NewEntry(c)]
        BY <1>8 DEF StoreEntry, At, Detach
    <2>2. /\ calls \in [Workers -> Calls] /\ \A v \in Workers : CallMatches(calls[v])
          /\ calls[w].pc = "store"
        BY <1>1, <2>1, DetachMatches, DetachKeeps DEF CInv, MInv
    <2>3. CallMatches(r)
        BY <2>2 DEF CallMatches, Calls
    <2>4. \A f \in CertNames : cache'[f].err # "mismatch"
        BY <1>1, <2>1 DEF MInv, NewEntry, CallMatches, CInv, CacheType
    <2> HIDE DEF r, calls
    <2>5. \A v \in Workers : CallMatches(call'[v])
        BY <2>1, <2>2, <2>3
    <2> QED
        BY <1>3, <2>4, <2>5, MatchKeeps
<1> QED
    BY <1>4, <1>5, <1>6, <1>7, <1>8 DEF CallbackStep

\* So do the files, whose certificate is not replaced while a load is being retried.
LEMMA FilesMatch ==
    ASSUME CInv, MInv, "slow" \notin DiskFaults, NEW c \in CertFiles,
           RenewCert(c) \/ RenewKey(c) \/ Vanish(c)
    PROVE  MInv'
<1>1. cache' = cache /\ call' = call
    BY DEF RenewCert, RenewKey, Vanish
<1>2. SUFFICES ASSUME NEW w \in Workers, call[w].pc = "key", call[w].tries > 0,
                      call[w].tries = Attempts - 1
               PROVE  LET q == call[w]
                      IN  OnDisk(q.keyFile)' = q.pair /\ OnDisk(q.certFile)' \in {None, q.pair}
    BY <1>1 DEF MInv, CallMatches
<1> DEFINE q == call[w]
<1>3. /\ disk[q.keyFile] = q.pair /\ disk[q.certFile] \in {None, q.pair}
      /\ q.keyFile = KeyOf[q.certFile] /\ q.certFile \in CertFiles
    <2>1. /\ OnDisk(q.keyFile) = q.pair /\ OnDisk(q.certFile) \in {None, q.pair}
          /\ q.pair \in Pairs /\ q.certFile \in CertFiles
        BY <1>2 DEF CInv, CallFits, MInv, CallMatches
    <2>2. q.certFile # NoName /\ q.keyFile # NoName
        BY <2>1, CertificateAssumption DEF OnDisk
    <2> QED
        BY <2>1, <2>2 DEF OnDisk, MInv, CallMatches
<1>4. /\ disk \in [CertFiles \cup KeyFiles -> 0..MaxPairs]
      /\ q.keyFile \in KeyFiles /\ q.keyFile \notin CertFiles /\ q.certFile \notin KeyFiles
      /\ KeyOf[c] \in KeyFiles /\ c \notin KeyFiles
      /\ OnDisk(q.keyFile)' = disk'[q.keyFile] /\ OnDisk(q.certFile)' = disk'[q.certFile]
    <2>1. q.keyFile # NoName /\ q.certFile # NoName
        BY <1>3, CertificateAssumption
    <2>2. OnDisk(q.keyFile)' = disk'[q.keyFile] /\ OnDisk(q.certFile)' = disk'[q.certFile]
        BY <1>1, <2>1 DEF OnDisk
    <2> QED
        BY <1>3, <2>2, CertificateAssumption DEF CInv, CacheType
<1>5. ~RenewCert(c)
    BY <1>2 DEF RenewCert, Retrying
<1>6. CASE RenewKey(c)
    <2>1. c # q.certFile
        BY <1>3, <1>6 DEF RenewKey
    <2>2. KeyOf[c] # q.keyFile
        BY <1>3, <2>1, CertificateAssumption
    <2> QED
        BY <1>3, <1>4, <1>6, <2>2 DEF RenewKey
<1>7. CASE Vanish(c)
    BY <1>3, <1>4, <1>7 DEF Vanish
<1> QED
    BY <1>5, <1>6, <1>7

\* A configuration that names both files names those of one pair.
KeysFit == \A url \in DOMAIN Recommenders :
               LET config == ConfigOf(url)
               IN  config.set /\ config.certFile # NoName /\ config.keyFile # NoName =>
                       config.keyFile = KeyOf[config.certFile]

\* Every step keeps the last attempts matching.
LEMMA NextMInv ==
    ASSUME "slow" \notin DiskFaults, Attempts > 1, KeysFit, CInv, MInv, [Next]_vars
    PROVE  MInv'
<1>1. CASE UNCHANGED << disk, cache, call >>
    BY <1>1, MatchKeeps DEF MInv
<1>2. ASSUME NEW w \in Workers, GetReplicaRecommendation(w) \/ Reuse(w) \/ Dial(w) \/ Answer(w)
                                \/ RequestFails(w)
      PROVE  MInv'
    BY <1>1, <1>2 DEF GetReplicaRecommendation, Reuse, Dial, Answer, RequestFails, cvars, files
<1>3. ASSUME NEW w \in Workers, DialWithCertificate(w) PROVE MInv'
    <2>1. transport.set /\ Call(w, transport.certFile, transport.keyFile)
        BY <1>3 DEF DialWithCertificate
    <2>2. transport # NoConfig
        BY <2>1 DEF NoConfig
    <2>3. /\ transport.certFile \in CertNames /\ transport.keyFile \in KeyNames
          /\ transport.certFile # NoName /\ transport.keyFile # NoName =>
                transport.keyFile = KeyOf[transport.certFile]
        BY <2>1, <2>2, MergedConfig DEF CInv, TransportFits, KeysFit
    <2>4. PICK x \in Calls : x = NoCall
        BY NoCallType
    <2>5. PICK f \in CertNames, k \in KeyNames : f = transport.certFile /\ k = transport.keyFile
        BY <2>3
    <2>6. clock \in Nat
        BY DEF CInv, CacheType
    <2> DEFINE r == [x EXCEPT !.pc = "lookup", !.certFile = f, !.keyFile = k, !.now = clock]
    <2>7. call' = [call EXCEPT ![w] = r] /\ disk' = disk /\ cache' = cache
        BY <2>1, <2>4, <2>5 DEF Call, files
    <2>8. /\ r.pc = "lookup" /\ r.certFile = f /\ r.keyFile = k
          /\ r.tries = x.tries /\ r.err = x.err
        BY <2>6 DEF Calls
    <2>9. CallMatches(r)
        BY <2>3, <2>4, <2>5, <2>8, NoCallType, CertificateAssumption DEF CallMatches
    <2> HIDE DEF r
    <2> QED
        BY <2>7, <2>9, OneCallMatches
<1>4. ASSUME NEW w \in Workers, Callback(w) PROVE MInv'
    BY <1>4, CallbackMatches DEF Callback
<1>5. ASSUME NEW w \in Workers, HandshakeEnds(w) PROVE MInv'
    <2>1. call' = [call EXCEPT ![w] = NoCall] /\ disk' = disk /\ cache' = cache
        BY <1>5 DEF HandshakeEnds, Return, files
    <2>2. CallMatches(NoCall)
        BY NoCallType DEF CallMatches
    <2> QED
        BY <2>1, <2>2, OneCallMatches
<1>6. CASE CloseIdle \/ UNCHANGED vars \/ Tick
    BY <1>1, <1>6 DEF CloseIdle, vars, cvars, files, Tick
<1>7. CASE Run
    <2>1. PICK fs : call' = Detach(call, fs)
                  /\ cache' = [c \in CertNames |-> IF c \in fs THEN NoEntry ELSE cache[c]]
        BY <1>7 DEF Run
    <2>2. disk' = disk
        BY <1>7 DEF Run, files
    <2>3. \A v \in Workers : CallMatches(call'[v])
        BY <2>1, DetachMatches DEF CInv, CacheType, MInv
    <2>4. \A f \in CertNames : cache'[f].err # "mismatch"
        BY <2>1 DEF NoEntry, MInv
    <2> QED
        BY <2>2, <2>3, <2>4, MatchKeeps
<1>8. ASSUME NEW c \in CertFiles, RenewCert(c) \/ RenewKey(c) \/ Vanish(c) PROVE MInv'
    BY <1>8, FilesMatch
<1> QED
    BY <1>2, <1>3, <1>4, <1>5, <1>6, <1>7, <1>8 DEF Next, CacheEnvironment

\* A renewal that is faster than the attempts of a load never makes a handshake fail,
\* whenever it comes, if there are at least two attempts (retryLoadingX09Keypair).
THEOREM RenewalTheorem ==
    ASSUME "slow" \notin DiskFaults, Attempts > 1, KeysFit
    PROVE  Spec => []RenewalIsInvisible
<1>1. Init => MInv
    <2> SUFFICES ASSUME Init PROVE MInv
        OBVIOUS
    <2>1. /\ \A f \in CertNames : cache[f] = NoEntry
          /\ \A w \in Workers : call[w] = NoCall
        BY DEF Init, CacheInit
    <2>2. CallMatches(NoCall)
        BY NoCallType DEF CallMatches
    <2> QED
        BY <2>1, <2>2 DEF MInv, NoEntry
<1>2. CInv /\ MInv /\ [Next]_vars => MInv'
    BY NextMInv
<1>3. MInv => RenewalIsInvisible
    BY DEF MInv, CallMatches, RenewalIsInvisible, At
<1> QED
    BY <1>1, <1>2, <1>3, CacheInvariance, PTL DEF Spec
================================================================================
