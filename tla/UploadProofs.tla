---------------------------- MODULE UploadProofs ----------------------------
(***************************************************************************)
(* Proofs about the uploads of Services, for any number of callers and     *)
(* objects, bundles of any size, and any range of part sizes.              *)
(***************************************************************************)
EXTENDS Services, Sequences, NumberLemmas, TLAPS

-----------------------------------------------------------------------------
(* How a bundle is split *)

LEMMA UploadConstants ==
    /\ MinChunk \in Nat \ {0} /\ MaxChunk \in Nat \ {0} /\ MinChunk <= MaxChunk
    /\ Sizes \subseteq Nat /\ Chunks \subseteq Nat
  BY PartsAreBounded DEF Uploads!ChunkRangeIsPositive, Uploads!UploadBoundsAreNaturals

\* The number of parts: the last one ends at or after the last byte, the one
\* before it ends before.
LEMMA PartCount ==
    ASSUME NEW size \in Nat \ {0}, NEW chunk \in Nat \ {0}
    PROVE  LET n == (size + chunk - 1) \div chunk IN
           /\ n \in Nat \ {0}
           /\ n * chunk >= size
           /\ \A k \in 1 .. n - 1 : k * chunk < size
  <1> DEFINE n == (size + chunk - 1) \div chunk
             r == (size + chunk - 1) % chunk
  <1>1. n \in Nat /\ r \in 0 .. chunk - 1 /\ size + chunk - 1 = chunk * n + r
    <2>1. size + chunk - 1 \in Nat
      OBVIOUS
    <2> QED
      BY <2>1, Division
  <1> HIDE DEF n, r
  <1>2. n * chunk \in Nat /\ size + chunk - 1 = n * chunk + r
    BY <1>1
  <1>3. n * chunk >= size
    BY <1>1, <1>2
  <1>4. n # 0
    BY <1>3
  <1>5. ASSUME NEW k \in 1 .. n - 1 PROVE k * chunk < size
    <2>1. k * chunk <= (n - 1) * chunk /\ k * chunk \in Nat
      BY <1>1, <1>4, ProductIsMonotone
    <2>2. (n - 1) * chunk = n * chunk - chunk
      BY <1>1
    <2> QED
      BY <1>1, <1>2, <2>1, <2>2
  <1> QED
    BY <1>1, <1>3, <1>4, <1>5 DEF n

\* The bytes of a part.
Bytes == [from : Nat, to : Nat]

\* What _split_into_parts makes of a bundle is the bundle: all its bytes, in
\* order, in parts of the size asked for but the last.
LEMMA SplitIsWhole ==
    ASSUME NEW size \in Nat, NEW chunk \in MinChunk .. MaxChunk
    PROVE  /\ Uploads!Split(size, chunk) \in Seq(Bytes)
           /\ Len(Uploads!Split(size, chunk)) \in Nat \ {0}
           /\ Uploads!Whole(Uploads!Split(size, chunk), size)
  <1> DEFINE parts == Uploads!Split(size, chunk)
  <1>0. chunk \in Nat \ {0} /\ chunk <= MaxChunk /\ MinChunk <= chunk
        /\ MinChunk \in Nat /\ MaxChunk \in Nat
    BY UploadConstants
  <1>1. CASE size = 0
    <2>1. parts = <<[from |-> 0, to |-> 0]>>
      BY <1>1 DEF Uploads!Split
    <2> HIDE DEF parts
    <2>2. parts \in Seq(Bytes) /\ Len(parts) = 1 /\ parts[1] = [from |-> 0, to |-> 0]
      BY <2>1 DEF Bytes
    <2> QED
      BY <1>0, <1>1, <2>2 DEF Uploads!Whole, parts
  <1>2. CASE size # 0
    <2> DEFINE n == (size + chunk - 1) \div chunk
    <2>1. /\ n \in Nat \ {0}
          /\ n * chunk >= size
          /\ \A k \in 1 .. n - 1 : k * chunk < size
      BY <1>0, <1>2, PartCount
    <2>2. parts = [k \in 1 .. n |-> [from |-> (k - 1) * chunk,
                                     to |-> IF k * chunk < size THEN k * chunk ELSE size]]
      BY <1>2 DEF Uploads!Split
    <2> HIDE DEF n, parts
    <2>3. \A k \in 1 .. n : /\ k * chunk \in Nat /\ (k - 1) * chunk \in Nat
                            /\ k * chunk = (k - 1) * chunk + chunk
      BY <1>0, <2>1
    <2>4. parts \in [1 .. n -> Bytes]
      BY <2>2, <2>3 DEF Bytes
    <2>5. parts \in Seq(Bytes) /\ Len(parts) = n
      BY <2>1, <2>4
    <2>6. \A k \in 1 .. n : /\ parts[k].from = (k - 1) * chunk
                            /\ k * chunk < size => parts[k].to = k * chunk
                            /\ ~ (k * chunk < size) => parts[k].to = size
      BY <2>2
    <2>7. parts[1].from = 0
      BY <1>0, <2>1, <2>6
    <2>8. parts[n].to = size
      BY <2>1, <2>3, <2>6
    <2>9. \A k \in 1 .. n - 1 : /\ parts[k].to = parts[k + 1].from
                                /\ parts[k].to - parts[k].from >= MinChunk
      BY <1>0, <2>1, <2>3, <2>6
    <2>10. \A k \in 1 .. n : parts[k].to - parts[k].from <= MaxChunk
      BY <1>0, <2>1, <2>3, <2>6
    <2> QED
      BY <2>1, <2>5, <2>7, <2>8, <2>9, <2>10 DEF Uploads!Whole, parts
  <1> QED
    BY <1>1, <1>2

-----------------------------------------------------------------------------
(* The inductive invariant *)

\* The arguments of a caller are valid.
Fits(c) == args[c] \in Uploads!Arguments /\ Uploads!Valid(args[c])

\* The parts of a caller's bundle.
PartsOf(c) == Uploads!Split(args[c].size, args[c].chunk)

Stored(c) == \E o \in Objects : \E n \in DOMAIN versions[o] : versions[o][n].by = c

\* What the store has of caller c, by how far c has come.
CallerInv(c) ==
    /\ step[c] \in {"initiate", "send", "abort", "returned"} => Fits(c)
    /\ step[c] \in {"idle", "initiate"} => sent[c] = 0
    /\ step[c] \in {"idle", "initiate", "refused"} => c \notin DOMAIN slot
    /\ step[c] \in {"idle", "initiate", "send"} => ~ Stored(c)
    /\ step[c] = "send" => /\ c \in DOMAIN slot
                           /\ sent[c] \in 0 .. Len(PartsOf(c))
                           /\ slot[c] = [n \in 1 .. sent[c] |-> PartsOf(c)[n]]
    /\ step[c] = "returned" =>
           \E n \in DOMAIN versions[args[c].object] : versions[args[c].object][n].by = c

\* A version is the whole bundle of a caller that asked for this object.
VersionFits(o, n) ==
    LET v == versions[o][n] IN
    /\ v.by \in Callers
    /\ Fits(v.by)
    /\ args[v.by].object = o
    /\ v.parts = PartsOf(v.by)

UInv ==
    /\ step \in [Callers -> {"idle", "refused", "initiate", "send", "abort", "returned",
                             "raised", "dead"}]
    /\ DOMAIN args = Callers /\ args = [c \in Callers |-> args[c]]
    /\ sent \in [Callers -> Nat]
    /\ DOMAIN slot \subseteq Callers
    /\ versions \in [Objects -> Seq([by : Callers, parts : Seq(Bytes)])]
    /\ NoUploadDangles
    /\ \A c \in Callers : CallerInv(c)
    /\ \A o \in Objects : \A n \in DOMAIN versions[o] : VersionFits(o, n)
    /\ \A o \in Objects : \A m, n \in DOMAIN versions[o] :
           versions[o][m].by = versions[o][n].by => m = n

LEMMA PartsType ==
    ASSUME NEW c, Fits(c)
    PROVE  /\ PartsOf(c) \in Seq(Bytes)
           /\ Len(PartsOf(c)) \in Nat \ {0}
           /\ Uploads!Whole(PartsOf(c), args[c].size)
           /\ args[c].object \in Objects
  <1>1. /\ args[c].size \in Nat /\ args[c].chunk \in MinChunk .. MaxChunk
        /\ args[c].object \in Objects
    BY UploadConstants DEF Fits, Uploads!Arguments, Uploads!Valid
  <1> QED
    BY <1>1, SplitIsWhole DEF PartsOf

-----------------------------------------------------------------------------
(* Steps *)

\* The caller's arguments are checked.
Begins(c) ==
    /\ step[c] = "idle"
    /\ \E a : /\ args' = [args EXCEPT ![c] = a]
              /\ \/ /\ step' = [step EXCEPT ![c] = "initiate"]
                    /\ a \in Uploads!Arguments /\ Uploads!Valid(a)
                 \/ step' = [step EXCEPT ![c] = "refused"] /\ a = None
    /\ UNCHANGED <<sent, slot, versions, lost>>

\* The store opens an upload.
Opens(c) ==
    /\ step[c] = "initiate"
    /\ Uploads!Open(c)
    /\ \/ step' = [step EXCEPT ![c] = "send"] /\ UNCHANGED lost
       \/ step' = [step EXCEPT ![c] = "raised"] /\ lost' = lost \cup {c}
    /\ UNCHANGED <<args, sent, versions>>

\* The store takes a part.
Takes(c) ==
    /\ step[c] = "send"
    /\ sent[c] < Len(PartsOf(c))
    /\ slot' = [slot EXCEPT ![c] = Append(@, PartsOf(c)[sent[c] + 1])]
    /\ \/ step' = [step EXCEPT ![c] = "send"] /\ sent' = [sent EXCEPT ![c] = @ + 1]
       \/ step' = [step EXCEPT ![c] = "abort"] /\ UNCHANGED sent
    /\ UNCHANGED <<args, versions, lost>>

\* The store assembles the object.
Assembles(c) ==
    /\ step[c] = "send"
    /\ sent[c] = Len(PartsOf(c))
    /\ versions' = [versions EXCEPT ![args[c].object] = Append(@, [by |-> c, parts |-> slot[c]])]
    /\ slot' = [d \in DOMAIN slot \ {c} |-> slot[d]]
    /\ \E s \in {"returned", "abort"} : step' = [step EXCEPT ![c] = s]
    /\ UNCHANGED <<args, sent, lost>>

\* The store drops the upload.
Drops(c) ==
    /\ step[c] = "abort"
    /\ slot' = [d \in DOMAIN slot \ {c} |-> slot[d]]
    /\ step' = [step EXCEPT ![c] = "raised"]
    /\ lost' \in {lost, lost \cup {c}}
    /\ UNCHANGED <<args, sent, versions>>

\* A call raises that was not applied, or the caller dies.
Stops(c) ==
    /\ \/ step[c] = "initiate" /\ step' = [step EXCEPT ![c] = "raised"] /\ UNCHANGED lost
       \/ step[c] = "send" /\ step' = [step EXCEPT ![c] = "abort"] /\ UNCHANGED lost
       \/ /\ step[c] = "abort" /\ step' = [step EXCEPT ![c] = "raised"]
          /\ lost' = lost \cup {c}
       \/ step' = [step EXCEPT ![c] = "dead"] /\ lost' = lost \cup {c}
    /\ UNCHANGED <<args, sent, slot, versions>>

LEMMA UploadSteps ==
    ASSUME [Next]_vars
    PROVE  \/ UNCHANGED <<step, args, sent, slot, versions, lost>>
           \/ \E c \in Callers : \/ Begins(c) \/ Opens(c) \/ Takes(c)
                                 \/ Assembles(c) \/ Drops(c) \/ Stops(c)
  <1>1. \/ UNCHANGED <<step, args, sent, slot, versions, lost>>
        \/ Uploads!UploadStep
    BY DEF Next, vars, uploads, Export, Upload, Narrate, Simulate, Share, Rest, Alone,
           NotPools, NotExports
  <1>2. ASSUME NEW c \in Callers, Uploads!Call(c) PROVE Begins(c)
    BY <1>2 DEF Uploads!Call, Uploads!Goto, Begins
  <1>3. ASSUME NEW c \in Callers, Uploads!Initiate(c) PROVE Opens(c)
    BY <1>3 DEF Uploads!Initiate, Uploads!Goto, Opens
  <1>4. ASSUME NEW c \in Callers, Uploads!InitiateRaises(c) PROVE Opens(c) \/ Stops(c)
    <2>1. \/ Uploads!Open(c) /\ lost' = lost \cup {c}
          \/ UNCHANGED <<slot, lost>>
      BY <1>4 DEF Uploads!InitiateRaises, Uploads!Raises
    <2>2. /\ step[c] = "initiate" /\ step' = [step EXCEPT ![c] = "raised"]
          /\ UNCHANGED <<args, sent, versions>>
      BY <1>4 DEF Uploads!InitiateRaises, Uploads!Goto
    <2> QED
      BY <2>1, <2>2 DEF Opens, Stops
  <1>5. ASSUME NEW c \in Callers, Uploads!UploadPart(c) PROVE Takes(c)
    BY <1>5 DEF Uploads!UploadPart, Uploads!Take, Uploads!Parts, Uploads!Goto, Takes, PartsOf
  <1>6. ASSUME NEW c \in Callers, Uploads!UploadPartRaises(c) PROVE Takes(c) \/ Stops(c)
    BY <1>6 DEF Uploads!UploadPartRaises, Uploads!Raises, Uploads!Take, Uploads!Parts,
                Uploads!Goto, Takes, Stops, PartsOf
  <1>7. ASSUME NEW c \in Callers, Uploads!Complete(c) PROVE Assembles(c)
    BY <1>7 DEF Uploads!Complete, Uploads!Assemble, Uploads!Drop, Uploads!Restrict,
                Uploads!Parts, Uploads!Goto, Assembles, PartsOf
  <1>8. ASSUME NEW c \in Callers, Uploads!CompleteRaises(c) PROVE Assembles(c) \/ Stops(c)
    BY <1>8 DEF Uploads!CompleteRaises, Uploads!Raises, Uploads!Assemble, Uploads!Drop,
                Uploads!Restrict, Uploads!Parts, Uploads!Goto, Assembles, Stops, PartsOf
  <1>9. ASSUME NEW c \in Callers, Uploads!Abort(c) PROVE Drops(c)
    BY <1>9 DEF Uploads!Abort, Uploads!Drop, Uploads!Restrict, Uploads!Goto, Drops
  <1>10. ASSUME NEW c \in Callers, Uploads!AbortRaises(c) PROVE Drops(c) \/ Stops(c)
    BY <1>10 DEF Uploads!AbortRaises, Uploads!Raises, Uploads!Drop, Uploads!Restrict,
                 Uploads!Goto, Drops, Stops
  <1>11. ASSUME NEW c \in Callers, Uploads!Die(c) PROVE Stops(c)
    BY <1>11 DEF Uploads!Die, Uploads!Goto, Stops
  <1> QED
    BY <1>1, <1>2, <1>3, <1>4, <1>5, <1>6, <1>7, <1>8, <1>9, <1>10, <1>11
       DEF Uploads!UploadStep

-----------------------------------------------------------------------------
(* Every step preserves the invariant *)

LEMMA UInvInit ==
    ASSUME Init
    PROVE  UInv
  <1>1. /\ step = [c \in Callers |-> "idle"] /\ args = [c \in Callers |-> None]
        /\ sent = [c \in Callers |-> 0] /\ slot = <<>>
        /\ versions = [o \in Objects |-> <<>>]
    BY DEF Init, Uploads!UploadInit
  <1>2. DOMAIN slot = {} /\ \A o \in Objects : DOMAIN versions[o] = {}
    BY <1>1
  <1>3. \A c \in Callers : CallerInv(c)
    BY <1>1, <1>2 DEF CallerInv, Stored
  <1> QED
    BY <1>1, <1>2, <1>3 DEF UInv, NoUploadDangles, Uploads!NoUploadDangles

\* What a step that leaves the versions and the arguments of who is in them
\* keeps.
LEMMA VersionsKept ==
    ASSUME UInv, versions' = versions,
           \A d \in Callers : Stored(d) => args'[d] = args[d]
    PROVE  /\ \A o \in Objects : \A n \in DOMAIN versions'[o] : VersionFits(o, n)'
           /\ \A o \in Objects : \A m, n \in DOMAIN versions'[o] :
                  versions'[o][m].by = versions'[o][n].by => m = n
           /\ \A d : Stored(d)' <=> Stored(d)
  <1>1. ASSUME NEW o \in Objects, NEW n \in DOMAIN versions[o]
        PROVE  args'[versions[o][n].by] = args[versions[o][n].by]
    BY DEF UInv, VersionFits, Stored
  <1> QED
    BY <1>1 DEF UInv, VersionFits, Stored, Fits, PartsOf

\* A caller that does nothing keeps its part, if its upload and what is stored
\* for it are left alone.
LEMMA OthersKept ==
    ASSUME NEW d \in Callers, CallerInv(d),
           step'[d] = step[d], args'[d] = args[d], sent'[d] = sent[d],
           d \in DOMAIN slot' <=> d \in DOMAIN slot,
           d \in DOMAIN slot => slot'[d] = slot[d],
           Stored(d)' <=> Stored(d),
           versions'[args[d].object] = versions[args[d].object] \/ step[d] # "returned"
    PROVE  CallerInv(d)'
  BY DEF CallerInv, Fits, PartsOf

LEMMA BeginsNext ==
    ASSUME UInv, NEW c \in Callers, Begins(c)
    PROVE  UInv'
  <1>1. PICK a : /\ args' = [args EXCEPT ![c] = a]
                 /\ \/ /\ step' = [step EXCEPT ![c] = "initiate"]
                       /\ a \in Uploads!Arguments /\ Uploads!Valid(a)
                    \/ step' = [step EXCEPT ![c] = "refused"]
    BY DEF Begins
  <1>2. /\ step[c] = "idle" /\ UNCHANGED <<sent, slot, versions, lost>>
        /\ ~ Stored(c) /\ c \notin DOMAIN slot /\ sent[c] = 0
    BY DEF Begins, UInv, CallerInv
  <1>3. args'[c] = a /\ \A d \in Callers \ {c} : args'[d] = args[d] /\ step'[d] = step[d]
    BY <1>1 DEF UInv
  <1>4. /\ \A o \in Objects : \A n \in DOMAIN versions'[o] : VersionFits(o, n)'
        /\ \A o \in Objects : \A m, n \in DOMAIN versions'[o] :
               versions'[o][m].by = versions'[o][n].by => m = n
        /\ \A d : Stored(d)' <=> Stored(d)
    BY <1>2, <1>3, VersionsKept
  <1>5. ASSUME NEW d \in Callers \ {c} PROVE CallerInv(d)'
    BY <1>2, <1>3, <1>4, OthersKept DEF UInv
  <1>6. CallerInv(c)'
    BY <1>1, <1>2, <1>3, <1>4 DEF UInv, CallerInv, Fits
  <1>7. NoUploadDangles'
    BY <1>2, <1>3 DEF UInv, NoUploadDangles, Uploads!NoUploadDangles
  <1>8. /\ step' \in [Callers -> {"idle", "refused", "initiate", "send", "abort", "returned",
                                  "raised", "dead"}]
        /\ DOMAIN args' = Callers /\ args' = [d \in Callers |-> args'[d]]
    BY <1>1 DEF UInv
  <1> QED
    BY <1>2, <1>4, <1>5, <1>6, <1>7, <1>8 DEF UInv

LEMMA OpensNext ==
    ASSUME UInv, NEW c \in Callers, Opens(c)
    PROVE  UInv'
  <1>1. /\ step[c] = "initiate" /\ UNCHANGED <<args, sent, versions>>
        /\ \/ step' = [step EXCEPT ![c] = "send"] /\ UNCHANGED lost
           \/ step' = [step EXCEPT ![c] = "raised"] /\ lost' = lost \cup {c}
        /\ slot' = [d \in DOMAIN slot \cup {c} |-> IF d = c THEN <<>> ELSE slot[d]]
    BY DEF Opens, Uploads!Open
  <1>2. /\ ~ Stored(c) /\ Fits(c) /\ sent[c] = 0 /\ c \notin DOMAIN slot
        /\ DOMAIN slot' = DOMAIN slot \cup {c} /\ slot'[c] = <<>>
        /\ \A d \in DOMAIN slot : slot'[d] = slot[d]
    BY <1>1 DEF UInv, CallerInv
  <1>3. /\ \A o \in Objects : \A n \in DOMAIN versions'[o] : VersionFits(o, n)'
        /\ \A o \in Objects : \A m, n \in DOMAIN versions'[o] :
               versions'[o][m].by = versions'[o][n].by => m = n
        /\ \A d : Stored(d)' <=> Stored(d)
    BY <1>1, VersionsKept
  <1>4. ASSUME NEW d \in Callers \ {c} PROVE CallerInv(d)'
    <2>1. step'[d] = step[d]
      BY <1>1 DEF UInv
    <2> QED
      BY <1>1, <1>2, <1>3, <2>1, OthersKept DEF UInv
  <1>5. CallerInv(c)'
    <2>1. Len(PartsOf(c)) \in Nat \ {0} /\ <<>> = [n \in 1 .. 0 |-> PartsOf(c)[n]]
      BY <1>2, PartsType
    <2>2. step'[c] \in {"send", "raised"}
      BY <1>1 DEF UInv
    <2> QED
      BY <1>1, <1>2, <1>3, <2>1, <2>2 DEF CallerInv, Fits, PartsOf
  <1>6. NoUploadDangles'
    BY <1>1, <1>2 DEF UInv, NoUploadDangles, Uploads!NoUploadDangles
  <1>7. step' \in [Callers -> {"idle", "refused", "initiate", "send", "abort", "returned",
                               "raised", "dead"}]
    BY <1>1 DEF UInv
  <1>8. DOMAIN slot' \subseteq Callers /\ UNCHANGED <<args, sent, versions>>
    BY <1>1, <1>2 DEF UInv
  <1> QED
    BY <1>3, <1>4, <1>5, <1>6, <1>7, <1>8 DEF UInv

LEMMA OneMorePart ==
    ASSUME NEW p \in Seq(Bytes), NEW k \in Nat, k < Len(p)
    PROVE  Append([n \in 1 .. k |-> p[n]], p[k + 1]) = [n \in 1 .. k + 1 |-> p[n]]
  <1> DEFINE q == [n \in 1 .. k |-> p[n]]
  <1>1. q \in Seq(Bytes) /\ p[k + 1] \in Bytes
    OBVIOUS
  <1>2. Len(q) = k /\ \A n \in 1 .. k : q[n] = p[n]
    BY <1>1
  <1> HIDE DEF q
  <1>3. Append(q, p[k + 1]) = [n \in 1 .. k + 1 |-> p[n]]
    BY <1>1, <1>2
  <1> QED
    BY <1>3 DEF q

LEMMA TakesNext ==
    ASSUME UInv, NEW c \in Callers, Takes(c)
    PROVE  UInv'
  <1> DEFINE p == PartsOf(c)
             k == sent[c]
  <1>1. /\ step[c] = "send" /\ k < Len(p) /\ UNCHANGED <<args, versions, lost>>
        /\ slot' = [slot EXCEPT ![c] = Append(@, p[k + 1])]
        /\ \/ step' = [step EXCEPT ![c] = "send"] /\ sent' = [sent EXCEPT ![c] = @ + 1]
           \/ step' = [step EXCEPT ![c] = "abort"] /\ UNCHANGED sent
    BY DEF Takes
  <1>2. /\ ~ Stored(c) /\ Fits(c) /\ k \in Nat /\ c \in DOMAIN slot
        /\ slot[c] = [n \in 1 .. k |-> p[n]]
        /\ p \in Seq(Bytes) /\ Len(p) \in Nat \ {0}
    BY <1>1, PartsType DEF UInv, CallerInv
  <1>3. /\ \A o \in Objects : \A n \in DOMAIN versions'[o] : VersionFits(o, n)'
        /\ \A o \in Objects : \A m, n \in DOMAIN versions'[o] :
               versions'[o][m].by = versions'[o][n].by => m = n
        /\ \A d : Stored(d)' <=> Stored(d)
    BY <1>1, VersionsKept
  <1>4. ASSUME NEW d \in Callers \ {c} PROVE CallerInv(d)'
    <2>1. step'[d] = step[d] /\ sent'[d] = sent[d]
      BY <1>1 DEF UInv
    <2> QED
      BY <1>1, <1>2, <1>3, <2>1, OthersKept DEF UInv
  <1>5. CallerInv(c)'
    <2>1. PartsOf(c)' = p
      BY <1>1 DEF PartsOf
    <2> HIDE DEF p
    <2>2. CASE step' = [step EXCEPT ![c] = "send"] /\ sent' = [sent EXCEPT ![c] = @ + 1]
      <3>1. Append(slot[c], p[k + 1]) = [n \in 1 .. k + 1 |-> p[n]]
        BY <1>1, <1>2, OneMorePart
      <3>2. slot'[c] = [n \in 1 .. k + 1 |-> p[n]] /\ c \in DOMAIN slot'
        BY <1>1, <1>2, <3>1
      <3>3. step'[c] = "send" /\ sent'[c] = k + 1
        BY <2>2 DEF UInv
      <3> QED
        BY <1>1, <1>2, <1>3, <2>1, <3>2, <3>3 DEF CallerInv, Fits
    <2>3. CASE step' = [step EXCEPT ![c] = "abort"] /\ UNCHANGED sent
      <3>1. step'[c] = "abort"
        BY <2>3 DEF UInv
      <3> QED
        BY <1>1, <1>2, <3>1 DEF CallerInv, Fits
    <2> QED
      BY <1>1, <2>2, <2>3
  <1>6. NoUploadDangles'
    BY <1>1, <1>2 DEF UInv, NoUploadDangles, Uploads!NoUploadDangles
  <1>7. step' \in [Callers -> {"idle", "refused", "initiate", "send", "abort", "returned",
                               "raised", "dead"}]
    BY <1>1 DEF UInv
  <1>8. sent' \in [Callers -> Nat]
    BY <1>1 DEF UInv
  <1>9. DOMAIN slot' = DOMAIN slot /\ UNCHANGED <<args, versions>>
    BY <1>1
  <1> QED
    BY <1>3, <1>4, <1>5, <1>6, <1>7, <1>8, <1>9 DEF UInv

LEMMA StopsNext ==
    ASSUME UInv, NEW c \in Callers, Stops(c)
    PROVE  UInv'
  <1>1. UNCHANGED <<args, sent, slot, versions>>
    BY DEF Stops
  <1>2. \E s \in {"raised", "abort", "dead"} :
            /\ step' = [step EXCEPT ![c] = s]
            /\ s = "abort" => Fits(c)
            /\ c \in DOMAIN slot => s = "abort" \/ c \in lost'
            /\ lost \subseteq lost'
    BY DEF Stops, UInv, CallerInv
  <1>3. /\ \A o \in Objects : \A n \in DOMAIN versions'[o] : VersionFits(o, n)'
        /\ \A o \in Objects : \A m, n \in DOMAIN versions'[o] :
               versions'[o][m].by = versions'[o][n].by => m = n
        /\ \A d : Stored(d)' <=> Stored(d)
    BY <1>1, VersionsKept
  <1>4. ASSUME NEW d \in Callers \ {c} PROVE CallerInv(d)'
    <2>1. step'[d] = step[d]
      BY <1>2 DEF UInv
    <2> QED
      BY <1>1, <1>3, <2>1, OthersKept DEF UInv
  <1>5. CallerInv(c)'
    <2>1. step'[c] \in {"raised", "abort", "dead"} /\ (step'[c] = "abort" => Fits(c)')
      BY <1>1, <1>2 DEF UInv, Fits
    <2> QED
      BY <2>1 DEF CallerInv
  <1>6. NoUploadDangles'
    BY <1>1, <1>2 DEF UInv, NoUploadDangles, Uploads!NoUploadDangles
  <1>7. step' \in [Callers -> {"idle", "refused", "initiate", "send", "abort", "returned",
                               "raised", "dead"}]
    BY <1>2 DEF UInv
  <1> QED
    BY <1>1, <1>3, <1>4, <1>5, <1>6, <1>7 DEF UInv

LEMMA DropsNext ==
    ASSUME UInv, NEW c \in Callers, Drops(c)
    PROVE  UInv'
  <1>1. /\ UNCHANGED <<args, sent, versions>>
        /\ step' = [step EXCEPT ![c] = "raised"] /\ lost \subseteq lost'
        /\ slot' = [d \in DOMAIN slot \ {c} |-> slot[d]]
        /\ DOMAIN slot' = DOMAIN slot \ {c}
        /\ \A d \in DOMAIN slot \ {c} : slot'[d] = slot[d]
    BY DEF Drops
  <1>2. /\ \A o \in Objects : \A n \in DOMAIN versions'[o] : VersionFits(o, n)'
        /\ \A o \in Objects : \A m, n \in DOMAIN versions'[o] :
               versions'[o][m].by = versions'[o][n].by => m = n
        /\ \A d : Stored(d)' <=> Stored(d)
    BY <1>1, VersionsKept
  <1>3. ASSUME NEW d \in Callers \ {c} PROVE CallerInv(d)'
    <2>1. step'[d] = step[d]
      BY <1>1 DEF UInv
    <2> QED
      BY <1>1, <1>2, <2>1, OthersKept DEF UInv
  <1>4. CallerInv(c)'
    <2>1. step'[c] = "raised"
      BY <1>1 DEF UInv
    <2> QED
      BY <2>1 DEF CallerInv
  <1>5. NoUploadDangles'
    BY <1>1 DEF UInv, NoUploadDangles, Uploads!NoUploadDangles
  <1>6. step' \in [Callers -> {"idle", "refused", "initiate", "send", "abort", "returned",
                               "raised", "dead"}]
    BY <1>1 DEF UInv
  <1> QED
    BY <1>1, <1>2, <1>3, <1>4, <1>5, <1>6 DEF UInv

LEMMA AppendOne ==
    ASSUME NEW S, NEW q \in Seq(S), NEW x \in S
    PROVE  /\ Len(q) \in Nat /\ Append(q, x) \in Seq(S)
           /\ DOMAIN Append(q, x) = DOMAIN q \cup {Len(q) + 1} /\ Len(q) + 1 \notin DOMAIN q
           /\ Append(q, x)[Len(q) + 1] = x
           /\ \A n \in DOMAIN q : Append(q, x)[n] = q[n]
  OBVIOUS

\* The object has one version more, which is the whole bundle of c: the store
\* has all its parts, and c had stored nothing before.
LEMMA AssemblesNext ==
    ASSUME UInv, NEW c \in Callers, Assembles(c)
    PROVE  UInv'
  <1> DEFINE b == args[c].object
             v == [by |-> c, parts |-> slot[c]]
             k == Len(versions[b]) + 1
  <1>1. /\ step[c] = "send" /\ sent[c] = Len(PartsOf(c)) /\ UNCHANGED <<args, sent, lost>>
        /\ versions' = [versions EXCEPT ![b] = Append(@, v)]
        /\ slot' = [d \in DOMAIN slot \ {c} |-> slot[d]]
        /\ \E s \in {"returned", "abort"} : step' = [step EXCEPT ![c] = s]
    BY DEF Assembles
  <1>2. /\ Fits(c) /\ ~ Stored(c) /\ b \in Objects
        /\ PartsOf(c) \in Seq(Bytes) /\ slot[c] = PartsOf(c)
    <2>1. Fits(c) /\ ~ Stored(c) /\ slot[c] = [n \in 1 .. Len(PartsOf(c)) |-> PartsOf(c)[n]]
      BY <1>1 DEF UInv, CallerInv
    <2>2. b \in Objects /\ PartsOf(c) \in Seq(Bytes)
      BY <2>1, PartsType
    <2> QED
      BY <2>1, <2>2
  <1>3. /\ v \in [by : Callers, parts : Seq(Bytes)] /\ v.by = c /\ v.parts = PartsOf(c)
        /\ versions[b] \in Seq([by : Callers, parts : Seq(Bytes)])
    BY <1>2 DEF UInv
  <1> HIDE DEF v
  <1>4. /\ Len(versions[b]) \in Nat
        /\ Append(versions[b], v) \in Seq([by : Callers, parts : Seq(Bytes)])
        /\ DOMAIN Append(versions[b], v) = DOMAIN versions[b] \cup {k} /\ k \notin DOMAIN versions[b]
        /\ Append(versions[b], v)[k] = v
        /\ \A n \in DOMAIN versions[b] : Append(versions[b], v)[n] = versions[b][n]
    <2> DEFINE V == [by : Callers, parts : Seq(Bytes)]
    <2>1. v \in V /\ versions[b] \in Seq(V)
      BY <1>3
    <2> HIDE DEF V
    <2>2. /\ Len(versions[b]) \in Nat /\ Append(versions[b], v) \in Seq(V)
          /\ DOMAIN Append(versions[b], v) = DOMAIN versions[b] \cup {k}
          /\ k \notin DOMAIN versions[b]
          /\ Append(versions[b], v)[k] = v
          /\ \A n \in DOMAIN versions[b] : Append(versions[b], v)[n] = versions[b][n]
      BY <2>1, AppendOne
    <2> QED
      BY <2>2 DEF V
  <1>5. /\ versions' \in [Objects -> Seq([by : Callers, parts : Seq(Bytes)])]
        /\ versions'[b] = Append(versions[b], v)
        /\ \A o \in Objects \ {b} : versions'[o] = versions[o]
    BY <1>1, <1>2, <1>4 DEF UInv
  <1> HIDE DEF k, b
  <1>6. /\ DOMAIN versions'[b] = DOMAIN versions[b] \cup {k} /\ k \notin DOMAIN versions[b]
        /\ versions'[b][k] = v
        /\ \A n \in DOMAIN versions[b] : versions'[b][n] = versions[b][n]
    BY <1>4, <1>5
  <1>7. \A o \in Objects : \A n \in DOMAIN versions[o] : versions[o][n].by # c
    BY <1>2 DEF Stored
  <1>8. \A o \in Objects : \A n \in DOMAIN versions'[o] :
            /\ versions'[o][n].by = c => o = b /\ n = k
            /\ versions'[o][n].by # c => n \in DOMAIN versions[o] /\ versions'[o][n] = versions[o][n]
    <2>1. ASSUME NEW o \in Objects \ {b}, NEW n \in DOMAIN versions'[o]
          PROVE  n \in DOMAIN versions[o] /\ versions'[o][n] = versions[o][n] /\ versions'[o][n].by # c
      BY <1>5, <1>7
    <2>2. ASSUME NEW n \in DOMAIN versions'[b], n # k
          PROVE  n \in DOMAIN versions[b] /\ versions'[b][n] = versions[b][n] /\ versions'[b][n].by # c
      BY <1>2, <1>6, <1>7, <2>2
    <2>3. versions'[b][k].by = c
      BY <1>3, <1>6
    <2> QED
      BY <2>1, <2>2, <2>3
  <1>9. ASSUME NEW o \in Objects, NEW n \in DOMAIN versions'[o] PROVE VersionFits(o, n)'
    <2>1. CASE versions'[o][n].by = c
      <3>1. versions'[o][n] = v /\ o = b
        BY <1>6, <1>8, <2>1
      <3> QED
        BY <1>1, <1>2, <1>3, <3>1 DEF VersionFits, Fits, PartsOf, b
    <2>2. CASE versions'[o][n].by # c
      <3>1. n \in DOMAIN versions[o] /\ versions'[o][n] = versions[o][n] /\ VersionFits(o, n)
        BY <1>8, <2>2 DEF UInv
      <3> QED
        BY <1>1, <3>1 DEF VersionFits, Fits, PartsOf
    <2> QED
      BY <2>1, <2>2
  <1>10. ASSUME NEW o \in Objects, NEW m \in DOMAIN versions'[o], NEW n \in DOMAIN versions'[o],
                versions'[o][m].by = versions'[o][n].by
         PROVE  m = n
    <2>1. CASE versions'[o][m].by = c
      BY <1>8, <1>10, <2>1
    <2>2. CASE versions'[o][m].by # c
      BY <1>8, <1>10, <2>2 DEF UInv
    <2> QED
      BY <2>1, <2>2
  <1>11. \A d \in Callers \ {c} : Stored(d)' <=> Stored(d)
    <2>1. ASSUME NEW d \in Callers \ {c}, Stored(d)' PROVE Stored(d)
      BY <1>8, <2>1 DEF Stored
    <2>2. ASSUME NEW d \in Callers \ {c}, Stored(d) PROVE Stored(d)'
      BY <1>5, <1>6, <2>2 DEF Stored
    <2> QED
      BY <2>1, <2>2
  <1>12. ASSUME NEW d \in Callers \ {c} PROVE CallerInv(d)'
    <2>1. step'[d] = step[d] /\ (d \in DOMAIN slot' <=> d \in DOMAIN slot)
          /\ (d \in DOMAIN slot => slot'[d] = slot[d])
      BY <1>1 DEF UInv
    <2>2. CASE step[d] # "returned"
      BY <1>1, <1>11, <2>1, <2>2, OthersKept DEF UInv
    <2>3. CASE step[d] = "returned"
      <3>1. Fits(d) /\ \E n \in DOMAIN versions[args[d].object] : versions[args[d].object][n].by = d
        BY <2>3 DEF UInv, CallerInv
      <3>2. args[d].object \in Objects
        BY <3>1, PartsType
      <3>3. \E n \in DOMAIN versions'[args[d].object] : versions'[args[d].object][n].by = d
        BY <1>5, <1>6, <3>1, <3>2
      <3> QED
        BY <1>1, <2>1, <2>3, <3>1, <3>3 DEF CallerInv, Fits
    <2> QED
      BY <2>2, <2>3
  <1>13. CallerInv(c)'
    <2>1. step'[c] \in {"returned", "abort"}
      BY <1>1 DEF UInv
    <2>2. \E n \in DOMAIN versions'[b] : versions'[b][n].by = c
      BY <1>3, <1>6
    <2> QED
      BY <1>1, <1>2, <2>1, <2>2 DEF CallerInv, Fits, b
  <1>14. /\ NoUploadDangles' /\ DOMAIN slot' \subseteq Callers
         /\ step' \in [Callers -> {"idle", "refused", "initiate", "send", "abort", "returned",
                                   "raised", "dead"}]
    BY <1>1 DEF UInv, NoUploadDangles, Uploads!NoUploadDangles
  <1>15. UNCHANGED <<args, sent>> /\ versions' \in [Objects -> Seq([by : Callers, parts : Seq(Bytes)])]
    BY <1>1, <1>5
  <1> QED
    BY <1>9, <1>10, <1>12, <1>13, <1>14, <1>15 DEF UInv

LEMMA UInvNext ==
    ASSUME UInv, [Next]_vars
    PROVE  UInv'
  <1>1. CASE UNCHANGED <<step, args, sent, slot, versions, lost>>
    <2>1. /\ \A o \in Objects : \A n \in DOMAIN versions'[o] : VersionFits(o, n)'
          /\ \A o \in Objects : \A m, n \in DOMAIN versions'[o] :
                 versions'[o][m].by = versions'[o][n].by => m = n
          /\ \A d : Stored(d)' <=> Stored(d)
      BY <1>1, VersionsKept
    <2>2. ASSUME NEW d \in Callers PROVE CallerInv(d)'
      BY <1>1, <2>1, OthersKept DEF UInv
    <2> QED
      BY <1>1, <2>1, <2>2 DEF UInv, NoUploadDangles, Uploads!NoUploadDangles
  <1> QED
    BY <1>1, UploadSteps, BeginsNext, OpensNext, TakesNext, AssemblesNext, DropsNext, StopsNext

\* The invariant of the uploads.
THEOREM UploadInvariant == Spec => []UInv
  <1>1. UInv /\ [Next]_vars => UInv'
    BY UInvNext
  <1> QED
    BY <1>1, UInvInit, PTL DEF Spec

\* An upload in progress belongs to a caller that works at it, except where
\* nobody can clean up.
THEOREM UploadsDoNotDangle == Spec => []NoUploadDangles
  <1>1. UInv => NoUploadDangles
    BY DEF UInv
  <1> QED
    BY <1>1, UploadInvariant, PTL

LEMMA ObjectIsWholeAlways ==
    ASSUME UInv
    PROVE  ObjectIsWhole
  <1>1. ASSUME NEW o \in Objects, NEW n \in DOMAIN versions[o]
        PROVE  /\ args[versions[o][n].by].object = o
               /\ Uploads!Whole(versions[o][n].parts, args[versions[o][n].by].size)
    <2>1. VersionFits(o, n)
      BY DEF UInv
    <2>2. /\ Fits(versions[o][n].by) /\ args[versions[o][n].by].object = o
          /\ versions[o][n].parts = PartsOf(versions[o][n].by)
      BY <2>1 DEF VersionFits
    <2>3. Uploads!Whole(PartsOf(versions[o][n].by), args[versions[o][n].by].size)
      BY <2>2, PartsType
    <2> QED
      BY <2>2, <2>3
  <1>2. \A o \in Objects : \A m, n \in DOMAIN versions[o] :
            versions[o][m].by = versions[o][n].by => m = n
    BY DEF UInv
  <1>3. ASSUME NEW c \in Callers, step[c] = "returned"
        PROVE  \E n \in DOMAIN versions[args[c].object] : versions[args[c].object][n].by = c
    BY <1>3 DEF UInv, CallerInv
  <1> QED
    BY <1>1, <1>2, <1>3 DEF ObjectIsWhole, Uploads!ObjectIsWhole

\* Whatever size a bundle has and whatever size of part is asked for, and
\* however callers and failures interleave, an object is one caller's whole
\* bundle, stored once.
THEOREM ObjectsAreWhole == Spec => []ObjectIsWhole
  BY ObjectIsWholeAlways, UploadInvariant, PTL

-----------------------------------------------------------------------------
(* Types *)

\* Who has an ETag has valid arguments, and no more ETags than parts.
LEMMA SentFits ==
    ASSUME UInv, Uploads!UploadTypeOK, NEW c \in Callers,
           Begins(c) \/ Opens(c) \/ Takes(c) \/ Assembles(c) \/ Drops(c) \/ Stops(c)
    PROVE  /\ args' \in [Callers -> Uploads!Arguments \cup {None}]
           /\ \A d \in Callers : sent'[d] # 0 => sent'[d] \in 1 .. Len(PartsOf(d))'
           /\ DOMAIN versions' = Objects
           /\ lost' \subseteq Callers
  <1>1. /\ args \in [Callers -> Uploads!Arguments \cup {None}]
        /\ \A d \in Callers : sent[d] # 0 => sent[d] \in 1 .. Len(PartsOf(d))
        /\ DOMAIN versions = Objects /\ lost \subseteq Callers
    BY DEF Uploads!UploadTypeOK, Uploads!Parts, PartsOf
  <1>2. sent \in [Callers -> Nat]
    BY DEF UInv
  <1>3. DOMAIN versions' = Objects
    BY <1>1 DEF Begins, Opens, Takes, Assembles, Drops, Stops
  <1>4. lost' \subseteq Callers
    BY <1>1 DEF Begins, Opens, Takes, Assembles, Drops, Stops
  <1>5. CASE Begins(c)
    <2>1. sent' = sent /\ sent[c] = 0
      BY <1>5 DEF Begins, UInv, CallerInv
    <2>2. PICK a \in Uploads!Arguments \cup {None} : args' = [args EXCEPT ![c] = a]
      BY <1>5 DEF Begins
    <2>3. \A d \in Callers : sent'[d] # 0 => args'[d] = args[d]
      BY <1>1, <2>1, <2>2
    <2> QED
      BY <1>1, <1>3, <1>4, <2>1, <2>2, <2>3 DEF PartsOf
  <1>6. CASE Takes(c)
    <2>1. /\ args' = args /\ sent[c] \in Nat /\ sent[c] < Len(PartsOf(c))
          /\ sent' = sent \/ sent' = [sent EXCEPT ![c] = sent[c] + 1]
      BY <1>2, <1>6 DEF Takes
    <2>2. Len(PartsOf(c)) \in Nat
      BY <1>6, PartsType DEF Takes, UInv, CallerInv
    <2>3. \A d \in Callers : PartsOf(d)' = PartsOf(d)
      BY <2>1 DEF PartsOf
    <2>4. sent'[c] # 0 => sent'[c] \in 1 .. Len(PartsOf(c))
      BY <1>1, <1>2, <2>1, <2>2
    <2>5. \A d \in Callers \ {c} : sent'[d] = sent[d]
      BY <1>2, <2>1
    <2> QED
      BY <1>1, <1>3, <1>4, <2>1, <2>3, <2>4, <2>5
  <1>7. CASE UNCHANGED <<args, sent>>
    BY <1>1, <1>3, <1>4, <1>7 DEF PartsOf
  <1> QED
    BY <1>5, <1>6, <1>7 DEF Opens, Assembles, Drops, Stops

\* The bounds on the environment are kept.
LEMMA RaisesAndDeaths ==
    ASSUME Uploads!UploadTypeOK, [Next]_vars
    PROVE  raises' \in 0 .. MaxRaises /\ deaths' \in 0 .. MaxDeaths
  <1>1. raises \in 0 .. MaxRaises /\ deaths \in 0 .. MaxDeaths /\ {MaxRaises, MaxDeaths} \subseteq Nat
    BY PartsAreBounded DEF Uploads!UploadTypeOK, Uploads!UploadBoundsAreNaturals
  <1>2. UNCHANGED uploads \/ Uploads!UploadStep
    BY DEF Next, vars, uploads, Export, Upload, Narrate, Simulate, Share, Rest, Alone,
           NotPools, NotExports
  <1>3. ASSUME Uploads!UploadStep
        PROVE  /\ raises' = raises \/ (raises < MaxRaises /\ raises' = raises + 1)
               /\ deaths' = deaths \/ (deaths < MaxDeaths /\ deaths' = deaths + 1)
    BY <1>3 DEF Uploads!UploadStep, Uploads!Call, Uploads!Initiate, Uploads!InitiateRaises,
           Uploads!UploadPart, Uploads!UploadPartRaises, Uploads!Complete,
           Uploads!CompleteRaises, Uploads!Abort, Uploads!AbortRaises, Uploads!Die,
           Uploads!Raises, Uploads!bounds
  <1> QED
    BY <1>1, <1>2, <1>3 DEF uploads

LEMMA UploadTypeInit ==
    ASSUME Init
    PROVE  Uploads!UploadTypeOK
  <1>1. {MaxRaises, MaxDeaths} \subseteq Nat
    BY PartsAreBounded DEF Uploads!UploadBoundsAreNaturals
  <1> QED
    BY <1>1 DEF Init, Uploads!UploadInit, Uploads!UploadTypeOK

LEMMA UploadTypeNext ==
    ASSUME UInv, Uploads!UploadTypeOK, [Next]_vars
    PROVE  Uploads!UploadTypeOK'
  <1>1. /\ step' \in [Callers -> {"idle", "refused", "initiate", "send", "abort", "returned",
                                  "raised", "dead"}]
        /\ DOMAIN slot' \subseteq Callers
    BY UInvNext DEF UInv
  <1>2. /\ args' \in [Callers -> Uploads!Arguments \cup {None}]
        /\ \A d \in Callers : sent'[d] # 0 => sent'[d] \in 1 .. Len(PartsOf(d))'
        /\ DOMAIN versions' = Objects
        /\ lost' \subseteq Callers
    BY UploadSteps, SentFits DEF Uploads!UploadTypeOK, Uploads!Parts, PartsOf
  <1> QED
    BY <1>1, <1>2, RaisesAndDeaths DEF Uploads!UploadTypeOK, Uploads!Parts, PartsOf
=============================================================================
