------------------------- MODULE TlsCertificateCache -------------------------
(***************************************************************************)
(* The cache of client certificates and the callback that a TLS handshake  *)
(* gets its certificate from.  Callbacks of several handshakes run at once *)
(* and hold the lock only around each access of the cache; meanwhile the   *)
(* files are renewed on disk, certificate first and key second.            *)
(*                                                                         *)
(* A certificate and its key are one pair, named by a number, newer pairs  *)
(* by greater ones; a certificate and a key match when they are of the     *)
(* same pair.                                                              *)
(***************************************************************************)
EXTENDS Integers, FiniteSets

CONSTANTS
    Workers,             \* who makes handshakes
    CertFiles, KeyFiles, \* the names of files
    KeyOf,               \* the key file written together with a certificate file
    Attempts,            \* of retryLoadingX09Keypair
    CacheTimeout, ExpirationTimeout, ErrorTimeout,  \* the three constants of tls.go
    MaxPairs,            \* bound on the number of pairs ever issued
    NotAfter,            \* when the certificate of a pair expires
    DiskFaults,          \* missing: a certificate file may be missing for a while.
                         \* slow: a renewal may take longer than the retries of a load
    MaxClock             \* bound on the clock

Pairs == 1..MaxPairs
None == 0                \* no file, no certificate
NoName == ""             \* no name of a file

ASSUME CertificateAssumption ==
    /\ IsFiniteSet(CertFiles) /\ CertFiles \cap KeyFiles = {}
    /\ NoName \notin CertFiles \cup KeyFiles
    /\ KeyOf \in [CertFiles -> KeyFiles]
    /\ \A c, d \in CertFiles : KeyOf[c] = KeyOf[d] => c = d
    /\ Attempts \in Nat \ {0}
    /\ CacheTimeout \in Nat /\ ExpirationTimeout \in Nat \ {0} /\ ErrorTimeout \in Nat
    /\ MaxPairs \in Nat \ {0} /\ NotAfter \in [Pairs -> Int]
    /\ Cardinality(CertFiles) <= MaxPairs
    /\ DiskFaults \subseteq {"missing", "slow"} /\ MaxClock \in Nat

VARIABLES
    clock,
    disk,        \* what each file holds
    issued,      \* the newest pair
    replaced,    \* history: when a pair's certificate left its file, or Never
    cache,       \* the entry of each name of a certificate file, or NoEntry
    sweepDue,    \* time.Tick has a tick for the eviction loop
    call         \* the callback that each worker is in

files == << disk, issued, replaced >>
cvars == << clock, files, cache, sweepDue, call >>

\* A configuration may name no certificate; the cache keeps an entry for that as well.
CertNames == CertFiles \cup {NoName}
KeyNames == KeyFiles \cup {NoName}
OnDisk(name) == IF name = NoName THEN None ELSE disk[name]

Never == -1
NoError == "none"

NoEntry == [cached |-> FALSE, pair |-> None, err |-> NoError, lastUpdate |-> 0, lastAccess |-> 0]

\* certFile, keyFile and now are those of the callback; tries counts the mismatches
\* of its load; pair, err and lastUpdate are those of the entry it holds, and current
\* says that this very entry is in the cache.
NoCall == [pc |-> "idle", certFile |-> NoName, keyFile |-> NoName, now |-> 0, tries |-> 0,
           pair |-> None, err |-> NoError, lastUpdate |-> 0, current |-> FALSE]

CacheInit ==
    /\ clock = 0
    /\ issued = Cardinality(CertFiles)
    /\ disk \in [CertFiles \cup KeyFiles -> 1..issued]
    /\ \A c \in CertFiles : disk[c] = disk[KeyOf[c]]
    /\ \A c, d \in CertFiles : c # d => disk[c] # disk[d]
    /\ replaced = [p \in Pairs |-> Never]
    /\ cache = [c \in CertNames |-> NoEntry]
    /\ sweepDue = FALSE
    /\ call = [w \in Workers |-> NoCall]

--------------------------------------------------------------------------------
(* The callback of GetClientCertificateReloadingFunc. *)

At(w, pc) == call[w].pc = pc

\* now := time.Now()
Call(w, certFile, keyFile) ==
    /\ At(w, "idle")
    /\ call' = [call EXCEPT ![w] = [NoCall EXCEPT !.pc = "lookup", !.certFile = certFile,
                                                  !.keyFile = keyFile, !.now = clock]]
    /\ UNCHANGED << clock, files, cache, sweepDue >>

isExpired(entry, now) == now > entry.lastUpdate + CacheTimeout

isCertificateExpired(entry, now) == now > NotAfter[entry.pair]

\* An entry with an error is used as long as it is cached.
Reloads(entry, now) ==
    \/ ~entry.cached
    \/ entry.err = NoError /\ (isExpired(entry, now) \/ isCertificateExpired(entry, now))

Lookup(w) ==
    LET entry == cache[call[w].certFile]
    IN  /\ At(w, "lookup")
        /\ call' = IF Reloads(entry, call[w].now)
                   THEN [call EXCEPT ![w].pc = "cert"]
                   ELSE [call EXCEPT ![w].pc = "access", ![w].pair = entry.pair,
                                     ![w].err = entry.err, ![w].lastUpdate = entry.lastUpdate,
                                     ![w].current = TRUE]
        /\ UNCHANGED << clock, files, cache, sweepDue >>

\* The entry that was found is marked as accessed, wherever it is by now.
Access(w) ==
    LET c == call[w]
    IN  /\ At(w, "access")
        /\ cache' = IF c.current THEN [cache EXCEPT ![c.certFile].lastAccess = c.now] ELSE cache
        /\ call' = [call EXCEPT ![w].pc = "done", ![w].current = FALSE]
        /\ UNCHANGED << clock, files, sweepDue >>

\* The sleeps between the attempts of a load add up to more than a renewal takes,
\* unless renewals are slow: it is over when the last attempt begins.
SleptEnough(c) ==
    0 < c.tries /\ c.tries = Attempts - 1 =>
        OnDisk(c.certFile) \in {None, OnDisk(c.keyFile)} \/ "slow" \in DiskFaults

\* tls.LoadX509KeyPair reads the certificate ...
ReadCert(w) ==
    /\ At(w, "cert")
    /\ SleptEnough(call[w])
    /\ call' = IF OnDisk(call[w].certFile) = None
               THEN [call EXCEPT ![w].pc = "store", ![w].err = "unreadable"]
               ELSE [call EXCEPT ![w].pc = "key", ![w].pair = OnDisk(call[w].certFile)]
    /\ UNCHANGED << clock, files, cache, sweepDue >>

\* Mutant: a key that does not match is an error like any other.
MismatchAborts(c) == [c EXCEPT !.pc = "store", !.pair = None, !.err = "mismatch"]

\* A key that does not match is read again, with its certificate, a few times.
Mismatch(c) ==
    IF c.tries + 1 < Attempts
    THEN [c EXCEPT !.pc = "cert", !.pair = None, !.tries = @ + 1]
    ELSE [c EXCEPT !.pc = "store", !.pair = None, !.tries = @ + 1, !.err = "mismatch"]

\* ... and then the key.
ReadKey(w) ==
    LET c == call[w]
    IN  /\ At(w, "key")
        /\ call' = [call EXCEPT ![w] =
              CASE OnDisk(c.keyFile) = c.pair -> [c EXCEPT !.pc = "store"]
                [] OnDisk(c.keyFile) = None   -> [c EXCEPT !.pc = "store", !.pair = None,
                                                              !.err = "unreadable"]
                [] OTHER                      -> Mismatch(c)]
        /\ UNCHANGED << clock, files, cache, sweepDue >>

\* Whoever holds an entry for f no longer holds the one in the cache.
Detach(calls, fs) == [v \in Workers |-> IF calls[v].certFile \in fs
                                        THEN [calls[v] EXCEPT !.current = FALSE] ELSE calls[v]]

\* Mutant: a new entry is dated to the time it is stored.
NewEntryNow(c) == [cached |-> TRUE, pair |-> c.pair, err |-> c.err,
                   lastUpdate |-> clock, lastAccess |-> clock]

\* The new entry is dated back to the time the callback began.
NewEntry(c) == [cached |-> TRUE, pair |-> c.pair, err |-> c.err,
                lastUpdate |-> c.now, lastAccess |-> c.now]

StoreEntry(w) ==
    LET c == call[w]
    IN  /\ At(w, "store")
        /\ cache' = [cache EXCEPT ![c.certFile] = NewEntry(c)]
        /\ call' = [Detach(call, {c.certFile}) EXCEPT ![w].pc = "done", ![w].lastUpdate = c.now]
        /\ UNCHANGED << clock, files, sweepDue >>

\* The handshake takes what the callback returns.
Return(w) ==
    /\ At(w, "done")
    /\ call' = [call EXCEPT ![w] = NoCall]
    /\ UNCHANGED << clock, files, cache, sweepDue >>

\* The eviction loop.
Run ==
    LET idle == {c \in CertNames : /\ cache[c].cached
                                   /\ clock > cache[c].lastAccess + ExpirationTimeout}
    IN  /\ sweepDue
        /\ sweepDue' = FALSE
        /\ cache' = [c \in CertNames |-> IF c \in idle THEN NoEntry ELSE cache[c]]
        /\ call' = Detach(call, idle)
        /\ UNCHANGED << clock, files >>

--------------------------------------------------------------------------------
(* The clock and the files. *)

Tick ==
    /\ clock < MaxClock
    /\ clock' = clock + 1
    /\ sweepDue' = (sweepDue \/ clock' % ExpirationTimeout = 0)
    /\ UNCHANGED << files, cache, call >>

\* A renewal writes the certificate and then its key.  Unless renewals are slow, the
\* next one does not start while a load is being retried because of the last.
Retrying == \E w \in Workers : call[w].tries > 0 /\ call[w].pc \in {"cert", "key"}
Leaves(c) == IF disk[c] = None THEN replaced ELSE [replaced EXCEPT ![disk[c]] = clock]

RenewCert(c) ==
    /\ issued < MaxPairs
    /\ disk[c] \in {None, disk[KeyOf[c]]}
    /\ Retrying => "slow" \in DiskFaults
    /\ issued' = issued + 1
    /\ disk' = [disk EXCEPT ![c] = issued']
    /\ replaced' = Leaves(c)
    /\ UNCHANGED << clock, cache, sweepDue, call >>

RenewKey(c) ==
    /\ disk[c] \notin {None, disk[KeyOf[c]]}
    /\ disk' = [disk EXCEPT ![KeyOf[c]] = disk[c]]
    /\ UNCHANGED << clock, issued, replaced, cache, sweepDue, call >>

Vanish(c) ==
    /\ "missing" \in DiskFaults /\ disk[c] # None
    /\ disk' = [disk EXCEPT ![c] = None]
    /\ replaced' = Leaves(c)
    /\ UNCHANGED << clock, issued, cache, sweepDue, call >>

CallbackStep(w) == Lookup(w) \/ Access(w) \/ ReadCert(w) \/ ReadKey(w) \/ StoreEntry(w)

CacheEnvironment ==
    Run \/ Tick \/ \E c \in CertFiles : RenewCert(c) \/ RenewKey(c) \/ Vanish(c)

--------------------------------------------------------------------------------
(* Properties. *)

Delivered(w) == At(w, "done") /\ call[w].err = NoError

\* A certificate that a handshake gets was in its file at most certificateCacheTimeout
\* before the handshake, and during the handshake if it had expired by then, although
\* a slow load may store its older certificate over a newer one (the order in which
\* the callback takes the time, loads and stores).
FreshEnough ==
    \A w \in Workers : Delivered(w) =>
        LET left == replaced[call[w].pair]
            now  == call[w].now
        IN  \/ left = Never
            \/ /\ left >= now - CacheTimeout
               /\ now > NotAfter[call[w].pair] => left >= now

\* A renewal never makes a handshake fail: the mismatch of a certificate and a key
\* that are being replaced is retried until both are there (retryLoadingX09Keypair).
RenewalIsInvisible == \A w \in Workers : At(w, "done") => call[w].err # "mismatch"

\* An error is handed out again only until certificateErrorCacheTimeout after the
\* load that failed.
ErrorsAreRetried ==
    \A w \in Workers :
        At(w, "done") /\ call[w].err # NoError => call[w].now <= call[w].lastUpdate + ErrorTimeout
================================================================================
