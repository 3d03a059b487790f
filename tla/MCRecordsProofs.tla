------------------------ MODULE MCRecordsProofs ------------------------
(***************************************************************************)
(* Proofs about what a citizen leaves with the authority: the document     *)
(* locker, for any number of documents, types, applications, officers and  *)
(* overlapping requests; the properties, the profile and the pages that    *)
(* show documents and profile, for any number of each and of the calls     *)
(* between them.                                                           *)
(***************************************************************************)
EXTENDS MCRecords, SequenceTheorems, WellFoundedInduction, TLAPS

(***************************************************************************)
(* Tables.                                                                 *)
(***************************************************************************)
\* A table that is updated in place keeps its length.
LEMMA UpdatedInPlace ==
  ASSUME NEW S, NEW s \in Seq(S), NEW f, DOMAIN f = DOMAIN s, \A i \in DOMAIN s : f[i] \in S,
         f = [i \in DOMAIN f |-> f[i]]
  PROVE  f \in Seq(S) /\ Len(f) = Len(s)
<1>1. Len(s) \in Nat /\ DOMAIN s = 1 .. Len(s)
  BY LenProperties
<1>2. f \in [1 .. Len(s) -> S]
  BY <1>1
<1>3. f \in Seq(S)
  BY <1>1, <1>2, SeqDef
<1>4. Len(f) \in Nat /\ DOMAIN f = 1 .. Len(f)
  BY <1>3, LenProperties
<1> QED BY <1>1, <1>3, <1>4

\* A new row comes last.
LEMMA Appended ==
  ASSUME NEW S, NEW s \in Seq(S), NEW e \in S
  PROVE  /\ Append(s, e) \in Seq(S)
         /\ Len(s) \in Nat /\ DOMAIN s = 1 .. Len(s)
         /\ DOMAIN Append(s, e) = DOMAIN s \cup {Len(s) + 1}
         /\ \A i \in DOMAIN s : Append(s, e)[i] = s[i]
         /\ Append(s, e)[Len(s) + 1] = e
<1>1. Len(s) \in Nat /\ DOMAIN s = 1 .. Len(s)
  BY LenProperties
<1>2. /\ Append(s, e) \in Seq(S) /\ Len(Append(s, e)) = Len(s) + 1
      /\ \A i \in 1 .. Len(s) : Append(s, e)[i] = s[i]
      /\ Append(s, e)[Len(s) + 1] = e
  BY AppendProperties
<1>3. DOMAIN Append(s, e) = 1 .. (Len(s) + 1)
  BY <1>2, LenProperties
<1>4. 1 .. (Len(s) + 1) = (1 .. Len(s)) \cup {Len(s) + 1}
  BY <1>1
<1> QED BY <1>1, <1>2, <1>3, <1>4

LEMMA ElementType ==
  ASSUME NEW S, NEW s \in Seq(S), NEW i \in DOMAIN s
  PROVE  s[i] \in S
BY LenProperties, ElementOfSeq

\* Versions up to n have a greatest one.
LEMMA GreatestVersion ==
  ASSUME NEW n \in Nat, NEW S, S \subseteq 1 .. n
  PROVE  /\ Max({0} \cup S) \in 0 .. n
         /\ \A x \in S : x <= Max({0} \cup S)
<1> DEFINE U == {0} \cup S
           T == {n - i : i \in U}
<1>1. U \subseteq 0 .. n /\ U # {}
  OBVIOUS
<1>2. \A i \in U : i \in Int /\ n - i \in Nat
  BY <1>1
<1>3. T \subseteq Nat /\ T # {}
  BY <1>1, <1>2
<1>4. PICK m \in T : \A y \in T : ~(<<y, m>> \in OpToRel(<, Nat))
  <2> HIDE DEF T
  <2> QED BY <1>3, NatLessThanWellFounded, WFMin
<1>5. PICK i \in U : m = n - i
  BY <1>4
<1>6. ASSUME NEW j \in U
      PROVE  j <= i
  <2>1. n - j \in T
    BY <1>6
  <2> HIDE DEF T
  <2>2. ~(<<n - j, n - i>> \in OpToRel(<, Nat))
    BY <1>4, <1>5, <2>1
  <2>3. ~(n - j < n - i)
    BY <1>2, <1>5, <1>6, <2>2 DEF OpToRel
  <2> HIDE DEF U
  <2> QED BY <1>2, <2>3
<1>7. \E x \in U : \A y \in U : x >= y
  <2> HIDE DEF U, T
  <2> QED BY <1>2, <1>6
<1>8. Max(U) \in U /\ \A y \in U : Max(U) >= y
  <2> HIDE DEF U, T
  <2> QED BY <1>7 DEF Max
<1> HIDE DEF T
<1> QED BY <1>1, <1>2, <1>8

(***************************************************************************)
(* Type correctness.                                                       *)
(***************************************************************************)
RequestRow == {Idle} \cup Admission \cup Filing \cup Attachment \cup Broken

Files(r) == req[r].pc \in {"opened", "stored", "unlisted"}
Attaches(r) == req[r].pc \in {"attaching", "detached"}

\* Every version was made, and a request links a document that is listed.
Typed ==
  /\ TypeOK
  /\ \A d \in DOMAIN locker : locker[d].version <= made
  /\ \A r \in Request : /\ Files(r) => req[r].version <= made
                        /\ Attaches(r) => req[r].doc \in DOMAIN locker
  /\ \A o \in Officer : desk[o] # None => desk[o].link \in DOMAIN link

LEMMA RequestIs ==
  ASSUME TypeOK, NEW r \in Request
  PROVE  /\ req[r] = Idle => req[r].pc = "idle"
         /\ req[r].pc = "admitted" => req[r] \in Admission
         /\ Files(r) => req[r] \in Filing
         /\ Attaches(r) => req[r] \in Attachment
         /\ req[r].pc = "failed" => req[r] \in Broken
         /\ req[r].pc # "idle" => req[r].app \in App \cup {None} /\ req[r].type \in DocType
BY DEF TypeOK, Idle, Admission, Filing, Attachment, Broken, Files, Attaches

LEMMA RowIs ==
  ASSUME TypeOK
  PROVE  /\ \A d \in DOMAIN locker : locker[d] \in DocRow
         /\ \A l \in DOMAIN link : link[l] \in LinkRow /\ link[l].doc \in DOMAIN locker
         /\ made \in Nat /\ made <= MaxContents /\ MaxContents \in Nat
BY ElementType, KeysAssumption DEF TypeOK

LEMMA InitTyped == Init => Typed
<1> SUFFICES ASSUME Init PROVE Typed
  OBVIOUS
<1>1. << >> \in Seq(DocRow) /\ << >> \in Seq(LinkRow) /\ DOMAIN << >> = {}
  BY EmptySeq
<1>2. made \in 0 .. MaxContents
  BY KeysAssumption DEF Init
<1>3. Idle.pc = "idle"
  BY DEF Idle
<1> QED BY <1>1, <1>2, <1>3 DEF Init, Typed, TypeOK, Stage, Files, Attaches

LEMMA NextVersionType ==
  ASSUME Typed, made < MaxContents, NEW t \in DocType
  PROVE  /\ NextVersion(t) \in 1 .. MaxContents /\ NextVersion(t) <= made + 1
         /\ \A d \in DOMAIN locker : locker[d].type = t => locker[d].version < NextVersion(t)
<1>1. VersionsOf(t) \subseteq 1 .. made
  BY RowIs DEF Typed, VersionsOf, DocRow
<1>2. Max({0} \cup VersionsOf(t)) \in 0 .. made
      /\ \A x \in VersionsOf(t) : x <= Max({0} \cup VersionsOf(t))
  BY <1>1, RowIs, GreatestVersion DEF Typed
<1>3. made \in Nat /\ MaxContents \in Nat
  BY RowIs DEF Typed
<1>4. \A d \in DOMAIN locker : locker[d].type = t => locker[d].version \in VersionsOf(t)
  BY DEF VersionsOf
<1> DEFINE m == Max({0} \cup VersionsOf(t))
<1>5. NextVersion(t) = m + 1
  BY DEF NextVersion, LastVersion
<1>6. m \in 0 .. made /\ \A x \in VersionsOf(t) : x <= m
  BY <1>2
<1> HIDE DEF m
<1>7. \A d \in DOMAIN locker : locker[d].version \in Nat
  BY RowIs DEF Typed, DocRow
<1> QED BY <1>3, <1>4, <1>5, <1>6, <1>7

\* What the requests refer to, in the next state.
RequestsTyped ==
  /\ req \in [Request -> RequestRow]
  /\ \A r \in Request : /\ Files(r) => req[r].version <= made
                        /\ Attaches(r) => req[r].doc \in DOMAIN locker

LEMMA ContinueTyped ==
  ASSUME Typed, NEW r \in Request, NEW q \in RequestRow, Continue(r, q),
         q.pc \in {"opened", "stored", "unlisted"} => q.version <= made',
         q.pc \in {"attaching", "detached"} => q.doc \in DOMAIN locker',
         made' \in Nat, made <= made', DOMAIN locker \subseteq DOMAIN locker'
  PROVE  RequestsTyped'
<1>1. req' = [req EXCEPT ![r] = q]
  BY DEF Continue
<1>2. req \in [Request -> RequestRow]
  BY DEF Typed, TypeOK, RequestRow
<1>3. req' \in [Request -> RequestRow] /\ \A s \in Request : req'[s] = IF s = r THEN q ELSE req[s]
  BY <1>1, <1>2
<1>4. ASSUME NEW s \in Request, s # r
      PROVE  Files(s)' => req'[s].version <= made'
  <2>1. CASE Files(s)
    <3>1. req[s].version <= made /\ req[s].version \in Nat
      BY <2>1, RequestIs, KeysAssumption DEF Typed, Filing
    <3> QED BY <1>3, <1>4, <3>1, RowIs DEF Typed
  <2>2. CASE ~Files(s)
    BY <1>3, <1>4, <2>2 DEF Files
  <2> QED BY <2>1, <2>2
<1>5. ASSUME NEW s \in Request, s # r
      PROVE  Attaches(s)' => req'[s].doc \in DOMAIN locker'
  BY <1>3, <1>5 DEF Typed, Attaches
<1> QED BY <1>3, <1>4, <1>5 DEF RequestsTyped, Files, Attaches

LEMMA PutTyped ==
  ASSUME TypeOK, NEW k \in Key, NEW c \in Content \cup {Partial}
  PROVE  /\ DOMAIN Put(k, c) = DOMAIN blob \cup {k} /\ DOMAIN Put(k, c) \subseteq Key
         /\ \A x \in DOMAIN Put(k, c) : Put(k, c)[x] = IF x = k THEN c ELSE blob[x]
         /\ \A x \in DOMAIN Put(k, c) : Put(k, c)[x] \in Content \cup {Partial}
BY DEF TypeOK, Put

LEMMA SkipsAreRows == Idle \in RequestRow /\ Idle.pc = "idle"
BY DEF RequestRow, Idle

LEMMA StartUploadTyped ==
  ASSUME Typed, NEW r \in Request, NEW a \in App \cup {None}, NEW t \in DocType,
         StartUpload(r, a, t)
  PROVE  Typed'
<1> DEFINE q == [pc |-> "admitted", app |-> a, type |-> t, version |-> 0,
                 key |-> None, checksum |-> Partial]
<1>1. q \in RequestRow /\ q.pc = "admitted" /\ Continue(r, q)
  BY DEF Admission, RequestRow, StartUpload
<1> HIDE DEF q
<1>2. RequestsTyped'
  BY <1>1, ContinueTyped, RowIs DEF StartUpload, Typed
<1> QED BY <1>2 DEF StartUpload, Typed, TypeOK, RequestsTyped, RequestRow

LEMMA OpenFileTyped ==
  ASSUME Typed, NEW r \in Request, OpenFile(r)
  PROVE  Typed'
<1> DEFINE t == req[r].type
           k == StorageKey(r, t)
           q == [req[r] EXCEPT !.pc = "opened", !.key = k, !.version = NextVersion(t),
                               !.checksum = made + 1]
<1>1. req[r] \in Admission /\ made < MaxContents /\ made' = made + 1
  BY RequestIs DEF OpenFile, Typed
<1>2. t \in DocType
  BY <1>1 DEF Admission
<1>3. made \in Nat /\ MaxContents \in Nat
  BY RowIs DEF Typed
<1>4. made' \in 0 .. MaxContents /\ made + 1 \in Content
  BY <1>1, <1>3 DEF Content
<1>5. NextVersion(t) \in 1 .. MaxContents /\ NextVersion(t) <= made + 1
  BY <1>1, <1>2, NextVersionType
<1>6. k \in Key
  BY <1>2, <1>5 DEF StorageKey, Key
<1>7. Continue(r, q) /\ blob' = Put(k, Partial) /\ UNCHANGED <<locker, link, stage, desk>>
  BY DEF OpenFile
<1> HIDE DEF k, t
<1>8. q \in Filing /\ q.version <= made' /\ q.pc = "opened"
  BY <1>1, <1>4, <1>5, <1>6 DEF Admission, Filing
<1> HIDE DEF q
<1>9. RequestsTyped'
  BY <1>1, <1>3, <1>7, <1>8, ContinueTyped DEF RequestRow
<1>10. \A d \in DOMAIN locker : locker[d].version <= made'
  <2>1. \A d \in DOMAIN locker : locker[d].version \in Nat /\ locker[d].version <= made
    BY RowIs DEF Typed, DocRow
  <2> QED BY <1>1, <1>3, <2>1
<1> QED BY <1>4, <1>6, <1>7, <1>9, <1>10, PutTyped DEF Typed, TypeOK, RequestsTyped, RequestRow

LEMMA StoreFileTyped ==
  ASSUME Typed, NEW r \in Request, StoreFile(r)
  PROVE  Typed'
<1> DEFINE q == [req[r] EXCEPT !.pc = "stored"]
<1>1. req[r] \in Filing /\ Files(r)
  BY RequestIs DEF StoreFile, Typed, Files
<1>2. q \in Filing /\ q.pc = "stored" /\ q.version = req[r].version
  BY <1>1 DEF Filing
<1>3. Continue(r, q) /\ UNCHANGED <<locker, link, stage, made, desk>>
      /\ blob' = Put(req[r].key, req[r].checksum)
  BY DEF StoreFile
<1> HIDE DEF q
<1>4. RequestsTyped'
  BY <1>1, <1>2, <1>3, ContinueTyped, RowIs DEF Typed, RequestRow
<1>5. req[r].key \in Key /\ req[r].checksum \in Content
  BY <1>1 DEF Filing
<1> QED BY <1>3, <1>4, <1>5, PutTyped DEF Typed, TypeOK, RequestsTyped, RequestRow

LEMMA RejectFileTyped ==
  ASSUME Typed, NEW r \in Request, RejectFile(r)
  PROVE  Typed'
<1>1. Continue(r, Idle) /\ UNCHANGED <<locker, link, stage, made, desk>>
  BY DEF RejectFile
<1>2. RequestsTyped'
  BY <1>1, ContinueTyped, SkipsAreRows, RowIs DEF Typed
<1>3. DOMAIN blob' \subseteq DOMAIN blob /\ \A k \in DOMAIN blob' : blob'[k] = blob[k]
  BY DEF RejectFile
<1> QED BY <1>1, <1>2, <1>3 DEF Typed, TypeOK, RequestsTyped, RequestRow

LEMMA IssueDocumentTyped ==
  ASSUME Typed, NEW r \in Request, NEW a \in App, NEW t \in DocType, IssueDocument(r, a, t)
  PROVE  Typed'
<1> DEFINE q == [pc |-> "stored", app |-> None, type |-> t, version |-> NextVersion(t),
                 key |-> a, checksum |-> made + 1]
<1>1. made < MaxContents /\ made' = made + 1
  BY DEF IssueDocument
<1>2. made \in Nat /\ MaxContents \in Nat
  BY RowIs DEF Typed
<1>3. made' \in 0 .. MaxContents /\ made + 1 \in Content
  BY <1>1, <1>2 DEF Content
<1>4. NextVersion(t) \in 1 .. MaxContents /\ NextVersion(t) <= made + 1
  BY <1>1, NextVersionType
<1>5. a \in Key
  BY DEF Key
<1>6. Continue(r, q) /\ blob' = Put(a, made + 1) /\ UNCHANGED <<locker, link, stage, desk>>
  BY DEF IssueDocument
<1>7. q \in Filing /\ q.version <= made' /\ q.pc = "stored"
  BY <1>1, <1>3, <1>4, <1>5 DEF Filing
<1> HIDE DEF q
<1>8. RequestsTyped'
  BY <1>1, <1>2, <1>6, <1>7, ContinueTyped DEF RequestRow
<1>9. \A d \in DOMAIN locker : locker[d].version <= made'
  <2>1. \A d \in DOMAIN locker : locker[d].version \in Nat /\ locker[d].version <= made
    BY RowIs DEF Typed, DocRow
  <2> QED BY <1>1, <1>2, <2>1
<1> QED BY <1>3, <1>5, <1>6, <1>8, <1>9, PutTyped DEF Typed, TypeOK, RequestsTyped, RequestRow

\* Rows of the locker keep what they list.
SameFile(x, y) ==
  x.type = y.type /\ x.version = y.version /\ x.key = y.key /\ x.checksum = y.checksum

LEMMA UnlistedRows ==
  ASSUME TypeOK, NEW t
  PROVE  /\ Unlisted(t) \in Seq(DocRow) /\ DOMAIN Unlisted(t) = DOMAIN locker
         /\ \A d \in DOMAIN locker : SameFile(Unlisted(t)[d], locker[d])
<1>1. ASSUME NEW d \in DOMAIN locker
      PROVE  Unlisted(t)[d] \in DocRow /\ SameFile(Unlisted(t)[d], locker[d])
  <2>1. locker[d] \in DocRow
    BY RowIs
  <2>2. Unlisted(t)[d] = IF locker[d].type = t THEN [locker[d] EXCEPT !.current = FALSE]
                         ELSE locker[d]
    BY DEF Unlisted
  <2> QED BY <2>1, <2>2 DEF DocRow, SameFile
<1>2. /\ DOMAIN Unlisted(t) = DOMAIN locker
      /\ Unlisted(t) = [d \in DOMAIN Unlisted(t) |-> Unlisted(t)[d]]
  BY DEF Unlisted
<1>3. Unlisted(t) \in Seq(DocRow)
  BY <1>1, <1>2, UpdatedInPlace DEF TypeOK
<1> QED BY <1>1, <1>2, <1>3

LEMMA UnlistOldTyped ==
  ASSUME Typed, NEW r \in Request, UnlistOld(r)
  PROVE  Typed'
<1> DEFINE q == [req[r] EXCEPT !.pc = "unlisted"]
<1>1. req[r] \in Filing /\ Files(r)
  BY RequestIs DEF UnlistOld, Typed, Files
<1>2. q \in Filing /\ q.pc = "unlisted" /\ q.version = req[r].version
  BY <1>1 DEF Filing
<1>3. /\ Continue(r, q) /\ UNCHANGED <<blob, link, stage, made, desk>>
      /\ locker' = Unlisted(req[r].type)
  BY DEF UnlistOld
<1> HIDE DEF q
<1>4. /\ locker' \in Seq(DocRow) /\ DOMAIN locker' = DOMAIN locker
      /\ \A d \in DOMAIN locker : locker'[d].version = locker[d].version
  BY <1>3, UnlistedRows DEF Typed, SameFile
<1>5. RequestsTyped'
  BY <1>1, <1>2, <1>3, <1>4, ContinueTyped, RowIs DEF Typed, RequestRow
<1> QED BY <1>3, <1>4, <1>5 DEF Typed, TypeOK, RequestsTyped, RequestRow

\* The row that an upload lists.
NewRow(q) == [type |-> q.type, version |-> q.version, key |-> q.key,
              checksum |-> q.checksum, current |-> TRUE]

LEMMA ListedRows ==
  ASSUME Typed, NEW r \in Request, ListNew(r)
  PROVE  /\ Files(r) /\ req[r] \in Filing /\ NewRow(req[r]) \in DocRow
         /\ locker' \in Seq(DocRow) /\ Len(locker) + 1 \in Nat
         /\ DOMAIN locker' = DOMAIN locker \cup {Len(locker) + 1}
         /\ \A d \in DOMAIN locker : locker'[d] = locker[d]
         /\ locker'[Len(locker) + 1] = NewRow(req[r])
<1>1. req[r] \in Filing /\ Files(r)
  BY RequestIs DEF ListNew, Typed, Files
<1>2. NewRow(req[r]) \in DocRow
  BY <1>1 DEF NewRow, Filing, DocRow
<1>3. locker' = Append(locker, NewRow(req[r]))
  BY DEF ListNew, NewRow
<1> QED BY <1>1, <1>2, <1>3, Appended DEF Typed, TypeOK

LEMMA ListNewTyped ==
  ASSUME Typed, NEW r \in Request, ListNew(r)
  PROVE  Typed'
<1> DEFINE n == Len(locker) + 1
           q == [pc |-> "attaching", app |-> req[r].app, type |-> req[r].type, doc |-> n]
<1>1. /\ Files(r) /\ req[r] \in Filing /\ NewRow(req[r]) \in DocRow
      /\ locker' \in Seq(DocRow) /\ n \in Nat
      /\ DOMAIN locker' = DOMAIN locker \cup {n}
      /\ \A d \in DOMAIN locker : locker'[d] = locker[d]
      /\ locker'[n] = NewRow(req[r])
  BY ListedRows
<1>2. UNCHANGED <<blob, link, stage, made, desk>> /\ made \in Nat
  BY RowIs DEF ListNew, Typed
<1>3. IF req[r].app = None THEN Continue(r, Idle) ELSE Continue(r, q)
  BY DEF ListNew
<1>4. req[r].app # None => q \in Attachment
  BY <1>1 DEF Filing, Attachment
<1>5. q.pc = "attaching" /\ q.doc = n
  OBVIOUS
<1> HIDE DEF q, n
<1>6. RequestsTyped'
  <2>1. CASE req[r].app = None
    BY <1>1, <1>2, <1>3, <2>1, SkipsAreRows, ContinueTyped
  <2>2. CASE req[r].app # None
    BY <1>1, <1>2, <1>3, <1>4, <1>5, <2>2, ContinueTyped DEF RequestRow
  <2> QED BY <2>1, <2>2
<1>7. ASSUME NEW d \in DOMAIN locker' PROVE locker'[d].version <= made'
  <2>1. CASE d \in DOMAIN locker
    BY <1>1, <1>2, <2>1 DEF Typed
  <2>2. CASE d = n
    BY <1>1, <1>2, <2>2 DEF Typed, NewRow
  <2> QED BY <1>1, <2>1, <2>2
<1> QED BY <1>1, <1>2, <1>6, <1>7 DEF Typed, TypeOK, RequestsTyped, RequestRow

LEMMA StartAttachTyped ==
  ASSUME Typed, NEW r \in Request, NEW a \in App, NEW d \in DOMAIN locker, NEW t \in DocType,
         StartAttach(r, a, d, t)
  PROVE  Typed'
<1> DEFINE q == [pc |-> "attaching", app |-> a, type |-> t, doc |-> d]
<1>1. d \in Nat
  BY LenProperties DEF Typed, TypeOK
<1>2. q \in RequestRow /\ q.pc = "attaching" /\ q.doc = d /\ Continue(r, q)
  BY <1>1 DEF Attachment, RequestRow, StartAttach
<1> HIDE DEF q
<1>3. UNCHANGED <<locker, blob, link, stage, made, desk>>
  BY DEF StartAttach
<1>4. RequestsTyped'
  BY <1>2, <1>3, ContinueTyped, RowIs DEF Typed
<1> QED BY <1>3, <1>4 DEF Typed, TypeOK, RequestsTyped, RequestRow

\* Links keep what they link.
SameLink(x, y) == x.app = y.app /\ x.type = y.type /\ x.doc = y.doc

LEMMA DetachedRows ==
  ASSUME Typed, NEW r \in Request, DetachOld(r)
  PROVE  /\ req[r] \in Attachment /\ Attaches(r)
         /\ link' \in Seq(LinkRow) /\ DOMAIN link' = DOMAIN link
         /\ \A l \in DOMAIN link :
              /\ SameLink(link'[l], link[l])
              /\ link'[l].verification = link[l].verification
              /\ link'[l].inspected = link[l].inspected
              /\ ~Replaced(l, req[r]) => link'[l] = link[l]
<1>1. req[r] \in Attachment /\ Attaches(r)
  BY RequestIs DEF DetachOld, Typed, Attaches
<1>2. link' = [l \in DOMAIN link |->
        IF Replaced(l, req[r]) THEN [link[l] EXCEPT !.current = FALSE] ELSE link[l]]
  BY DEF DetachOld
<1>3. ASSUME NEW l \in DOMAIN link
      PROVE  /\ link'[l] \in LinkRow /\ SameLink(link'[l], link[l])
             /\ link'[l].verification = link[l].verification
             /\ link'[l].inspected = link[l].inspected
             /\ ~Replaced(l, req[r]) => link'[l] = link[l]
  <2>1. link[l] \in LinkRow
    BY RowIs DEF Typed
  <2>2. link'[l] = IF Replaced(l, req[r]) THEN [link[l] EXCEPT !.current = FALSE] ELSE link[l]
    BY <1>2
  <2> QED BY <2>1, <2>2 DEF LinkRow, SameLink
<1>4. DOMAIN link' = DOMAIN link /\ link' = [l \in DOMAIN link' |-> link'[l]]
  BY <1>2
<1>5. link' \in Seq(LinkRow)
  BY <1>3, <1>4, UpdatedInPlace DEF Typed, TypeOK
<1> QED BY <1>1, <1>3, <1>4, <1>5

LEMMA DetachOldTyped ==
  ASSUME Typed, NEW r \in Request, DetachOld(r)
  PROVE  Typed'
<1> DEFINE q == [req[r] EXCEPT !.pc = "detached"]
<1>1. /\ req[r] \in Attachment /\ Attaches(r)
      /\ link' \in Seq(LinkRow) /\ DOMAIN link' = DOMAIN link
      /\ \A l \in DOMAIN link : link'[l].doc = link[l].doc
  BY DetachedRows DEF SameLink
<1>2. q \in Attachment /\ q.pc = "detached" /\ q.doc = req[r].doc
  BY <1>1 DEF Attachment
<1>3. Continue(r, q) /\ UNCHANGED <<locker, blob, stage, made, desk>>
  BY DEF DetachOld
<1> HIDE DEF q
<1>4. RequestsTyped'
  BY <1>1, <1>2, <1>3, ContinueTyped, RowIs DEF Typed, RequestRow
<1> QED BY <1>1, <1>3, <1>4 DEF Typed, TypeOK, RequestsTyped, RequestRow

LEMMA AttachedRows ==
  ASSUME Typed, NEW r \in Request, AttachNew(r), ~Linked(req[r].app, req[r].doc)
  PROVE  /\ link' \in Seq(LinkRow)
         /\ DOMAIN link' = DOMAIN link \cup {Len(link) + 1}
         /\ \A l \in DOMAIN link : link'[l] = link[l]
         /\ link'[Len(link) + 1] = NewLink(req[r])
<1>1. req[r] \in Attachment
  BY RequestIs DEF AttachNew, Typed, Attaches
<1>2. NewLink(req[r]) \in LinkRow
  BY <1>1 DEF NewLink, Attachment, LinkRow, Partial
<1>3. link' = Append(link, NewLink(req[r]))
  BY DEF AttachNew, Fresh
<1> QED BY <1>2, <1>3, Appended DEF Typed, TypeOK

LEMMA AttachNewTyped ==
  ASSUME Typed, NEW r \in Request, AttachNew(r)
  PROVE  Typed'
<1>1. req[r] \in Attachment /\ req[r].doc \in DOMAIN locker
  BY RequestIs DEF AttachNew, Typed, Attaches
<1>2. UNCHANGED <<locker, blob, stage, made, desk>> /\ made \in Nat
  BY RowIs DEF AttachNew, Typed
<1>3. CASE Linked(req[r].app, req[r].doc)
  <2> DEFINE q == [pc |-> "failed", app |-> req[r].app, type |-> req[r].type]
  <2>1. q \in RequestRow /\ q.pc = "failed"
    BY <1>1 DEF RequestRow, Broken, Attachment
  <2>2. Continue(r, q) /\ UNCHANGED link
    BY <1>3 DEF AttachNew
  <2> HIDE DEF q
  <2>3. RequestsTyped'
    BY <1>2, <2>1, <2>2, ContinueTyped
  <2> QED BY <1>2, <2>2, <2>3 DEF Typed, TypeOK, RequestsTyped, RequestRow
<1>4. CASE ~Linked(req[r].app, req[r].doc)
  <2> DEFINE n == Len(link) + 1
  <2>1. /\ link' \in Seq(LinkRow) /\ DOMAIN link' = DOMAIN link \cup {n}
        /\ \A l \in DOMAIN link : link'[l] = link[l]
        /\ link'[n] = NewLink(req[r])
    BY <1>4, AttachedRows
  <2>2. Continue(r, Idle)
    BY <1>4 DEF AttachNew
  <2>3. RequestsTyped'
    BY <1>2, <2>2, SkipsAreRows, ContinueTyped
  <2> HIDE DEF n
  <2>4. \A l \in DOMAIN link' : link'[l].doc \in DOMAIN locker
    BY <1>1, <2>1, RowIs DEF Typed, NewLink
  <2> QED BY <1>2, <2>1, <2>3, <2>4 DEF Typed, TypeOK, RequestsTyped, RequestRow
<1> QED BY <1>3, <1>4

LEMMA DiesTyped ==
  ASSUME Typed, NEW r \in Request, Dies(r)
  PROVE  Typed'
<1> DEFINE q == [pc |-> "failed", app |-> req[r].app, type |-> req[r].type]
<1>1. q \in RequestRow /\ q.pc = "failed" /\ Continue(r, q)
  BY RequestIs DEF RequestRow, Broken, Dies, Typed
<1> HIDE DEF q
<1>2. UNCHANGED <<locker, blob, link, stage, made, desk>>
  BY DEF Dies
<1>3. RequestsTyped'
  BY <1>1, <1>2, ContinueTyped, RowIs DEF Typed
<1> QED BY <1>2, <1>3 DEF Typed, TypeOK, RequestsTyped, RequestRow

LEMMA OpenDocumentTyped ==
  ASSUME Typed, NEW o \in Officer, NEW l \in DOMAIN link, OpenDocument(o, l)
  PROVE  Typed'
<1> DEFINE v == [link |-> l, file |-> FileOf(link[l].doc)]
<1>1. l \in Nat
  BY LenProperties DEF Typed, TypeOK
<1>2. FileOf(link[l].doc) \in Content \cup {Partial}
  BY DEF OpenDocument, FileOf, Typed, TypeOK
<1>3. desk' = [desk EXCEPT ![o] = v] /\ UNCHANGED <<locker, blob, link, stage, made, req>>
  BY DEF OpenDocument
<1>4. v \in [link : Nat, file : Content \cup {Partial}] /\ v.link = l
  BY <1>1, <1>2
<1> HIDE DEF v
<1> QED BY <1>3, <1>4 DEF Typed, TypeOK, Files, Attaches

\* An answer of an officer changes one link, and there only the verdict.
LEMMA VerifiedRows ==
  ASSUME Typed, NEW o \in Officer, NEW s \in {"VERIFIED", "REJECTED"}, VerifyDocument(o, s)
  PROVE  /\ desk[o].link \in DOMAIN link /\ desk[o].file \in Content \cup {Partial}
         /\ link' \in Seq(LinkRow) /\ DOMAIN link' = DOMAIN link
         /\ \A l \in DOMAIN link :
              /\ SameLink(link'[l], link[l]) /\ link'[l].current = link[l].current
              /\ l # desk[o].link => link'[l] = link[l]
         /\ link'[desk[o].link].inspected = desk[o].file
<1> DEFINE i == desk[o].link
           f == desk[o].file
           e == [link[i] EXCEPT !.verification = s, !.inspected = f]
<1>1. i \in DOMAIN link /\ f \in Content \cup {Partial}
  BY DEF VerifyDocument, Typed, TypeOK
<1>2. link[i] \in LinkRow
  BY <1>1, RowIs DEF Typed
<1>3. /\ e \in LinkRow /\ SameLink(e, link[i]) /\ e.current = link[i].current
      /\ e.inspected = f
  BY <1>1, <1>2 DEF LinkRow, SameLink
<1>4. link' = [link EXCEPT ![i] = e]
  BY DEF VerifyDocument
<1>5. link \in Seq(LinkRow) /\ DOMAIN link = 1 .. Len(link)
  BY LenProperties DEF Typed, TypeOK
<1> HIDE DEF e, i
<1>6. link' \in Seq(LinkRow) /\ DOMAIN link' = DOMAIN link
  BY <1>1, <1>3, <1>4, <1>5, ExceptSeq
<1>7. \A l \in DOMAIN link : link'[l] = IF l = i THEN e ELSE link[l]
  BY <1>1, <1>3, <1>4, <1>5, ExceptSeq
<1> QED BY <1>1, <1>3, <1>6, <1>7 DEF i, SameLink

LEMMA VerifyDocumentTyped ==
  ASSUME Typed, NEW o \in Officer, NEW s \in {"VERIFIED", "REJECTED"}, VerifyDocument(o, s)
  PROVE  Typed'
<1>1. /\ link' \in Seq(LinkRow) /\ DOMAIN link' = DOMAIN link
      /\ \A l \in DOMAIN link : link'[l].doc = link[l].doc
  BY VerifiedRows DEF SameLink
<1>2. desk' = [desk EXCEPT ![o] = None] /\ UNCHANGED <<locker, blob, stage, made, req>>
  BY DEF VerifyDocument
<1> QED BY <1>1, <1>2 DEF Typed, TypeOK, Files, Attaches

LEMMA StageTyped ==
  ASSUME Typed, NEW a \in App, Submit(a) \/ RaiseQuery(a)
  PROVE  Typed'
BY DEF Submit, RaiseQuery, Typed, TypeOK, Stage, Files, Attaches

LEMMA NextTyped == Typed /\ [Next]_vars => Typed'
<1> SUFFICES ASSUME Typed, [Next]_vars PROVE Typed'
  OBVIOUS
<1>1. CASE UNCHANGED vars
  BY <1>1 DEF vars, Typed, TypeOK, Files, Attaches
<1>2. CASE Next
  BY <1>2, StartUploadTyped, OpenFileTyped, StoreFileTyped, RejectFileTyped,
     IssueDocumentTyped, UnlistOldTyped, ListNewTyped, StartAttachTyped, DetachOldTyped,
     AttachNewTyped, DiesTyped, OpenDocumentTyped, VerifyDocumentTyped, StageTyped
  DEF Next, Step
<1> QED BY <1>1, <1>2

\* Rows, files and requests keep the shape the code gives them, and every
\* link refers to a row of the locker.
THEOREM TypeCorrect == Spec => []TypeOK
<1>1. Typed => TypeOK
  BY DEF Typed
<1> QED BY <1>1, InitTyped, NextTyped, PTL DEF Spec

(***************************************************************************)
(* Links.                                                                  *)
(***************************************************************************)
\* A request that took the application's document away, or may have.
Owes(r, a, t) == req[r].pc \in {"detached", "failed"} /\ req[r].app = a /\ req[r].type = t

InForce(a, t) ==
  \/ ~ \E l \in DOMAIN link : link[l].app = a /\ link[l].type = t
  \/ \E l \in DOMAIN link : link[l].app = a /\ link[l].type = t /\ link[l].current
  \/ \E r \in Request : Owes(r, a, t)

AllInForce == \A a \in App, t \in DocType : InForce(a, t)

LEMMA InForceMeans == AllInForce <=> DocumentInForce
BY DEF AllInForce, InForce, Owes, DocumentInForce

\* A step that leaves the links alone, and every request that owes one.
LEMMA LinksKept ==
  ASSUME AllInForce, UNCHANGED link,
         \A r \in Request : req[r].pc \in {"detached", "failed"}
                              => /\ req'[r].pc \in {"detached", "failed"}
                                 /\ req'[r].app = req[r].app /\ req'[r].type = req[r].type
  PROVE  AllInForce'
<1> SUFFICES ASSUME NEW a \in App, NEW t \in DocType PROVE InForce(a, t)'
  BY DEF AllInForce
<1>1. InForce(a, t)
  BY DEF AllInForce
<1> QED BY <1>1 DEF InForce, Owes

\* The same, for the one request that goes on.
LEMMA OthersOwe ==
  ASSUME TypeOK, AllInForce, UNCHANGED link, NEW r \in Request,
         req[r].pc \notin {"detached", "failed"}, \E q : Continue(r, q)
  PROVE  AllInForce'
<1>1. \A s \in Request : s # r => req'[s] = req[s]
  BY DEF Continue, TypeOK
<1> QED BY <1>1, LinksKept

LEMMA DiesInForce ==
  ASSUME TypeOK, AllInForce, NEW r \in Request, Dies(r)
  PROVE  AllInForce'
<1> DEFINE q == [pc |-> "failed", app |-> req[r].app, type |-> req[r].type]
<1>1. q.pc = "failed" /\ q.app = req[r].app /\ q.type = req[r].type
  OBVIOUS
<1>2. req' = [req EXCEPT ![r] = q] /\ UNCHANGED link
  BY DEF Dies, Continue
<1> HIDE DEF q
<1>3. \A s \in Request : req'[s] = IF s = r THEN q ELSE req[s]
  BY <1>2 DEF TypeOK
<1> QED BY <1>1, <1>2, <1>3, LinksKept

LEMMA DetachInForce ==
  ASSUME Typed, AllInForce, NEW r \in Request, DetachOld(r)
  PROVE  AllInForce'
<1> DEFINE q == [req[r] EXCEPT !.pc = "detached"]
<1>1. /\ req[r] \in Attachment /\ Attaches(r) /\ DOMAIN link' = DOMAIN link
      /\ \A l \in DOMAIN link : /\ SameLink(link'[l], link[l])
                                /\ ~Replaced(l, req[r]) => link'[l] = link[l]
  BY DetachedRows
<1>2. q.pc = "detached" /\ q.app = req[r].app /\ q.type = req[r].type
  BY <1>1 DEF Attachment
<1>3. req' = [req EXCEPT ![r] = q] /\ req[r].pc = "attaching"
  BY DEF DetachOld, Continue
<1> HIDE DEF q
<1>4. \A s \in Request : req'[s] = IF s = r THEN q ELSE req[s]
  BY <1>3 DEF Typed, TypeOK
<1> SUFFICES ASSUME NEW a \in App, NEW t \in DocType PROVE InForce(a, t)'
  BY DEF AllInForce
<1>5. CASE a = req[r].app /\ t = req[r].type
  BY <1>2, <1>4, <1>5 DEF InForce, Owes
<1>6. CASE ~(a = req[r].app /\ t = req[r].type)
  <2>1. \A l \in DOMAIN link : link[l].app = a /\ link[l].type = t => link'[l] = link[l]
    BY <1>1, <1>6 DEF Replaced
  <2>2. InForce(a, t)
    BY DEF AllInForce
  <2>3. \A s \in Request : Owes(s, a, t) => Owes(s, a, t)'
    BY <1>3, <1>4 DEF Owes
  <2> QED BY <1>1, <2>1, <2>2, <2>3 DEF InForce, SameLink
<1> QED BY <1>5, <1>6

LEMMA AttachInForce ==
  ASSUME Typed, AllInForce, NEW r \in Request, AttachNew(r)
  PROVE  AllInForce'
<1>1. CASE Linked(req[r].app, req[r].doc)
  <2> DEFINE q == [pc |-> "failed", app |-> req[r].app, type |-> req[r].type]
  <2>1. q.pc = "failed" /\ q.app = req[r].app /\ q.type = req[r].type
    OBVIOUS
  <2>2. req' = [req EXCEPT ![r] = q] /\ UNCHANGED link
    BY <1>1 DEF AttachNew, Continue
  <2> HIDE DEF q
  <2>3. \A s \in Request : req'[s] = IF s = r THEN q ELSE req[s]
    BY <2>2 DEF Typed, TypeOK
  <2> QED BY <2>1, <2>2, <2>3, LinksKept
<1>2. CASE ~Linked(req[r].app, req[r].doc)
  <2> DEFINE n == Len(link) + 1
  <2>1. /\ DOMAIN link' = DOMAIN link \cup {n}
        /\ \A l \in DOMAIN link : link'[l] = link[l]
        /\ link'[n] = NewLink(req[r])
    BY <1>2, AttachedRows
  <2>2. \A s \in Request : s # r => req'[s] = req[s]
    BY <1>2 DEF AttachNew, Continue, Typed, TypeOK
  <2>3. link'[n].app = req[r].app /\ link'[n].type = req[r].type /\ link'[n].current
    BY <2>1 DEF NewLink
  <2> HIDE DEF n
  <2> SUFFICES ASSUME NEW a \in App, NEW t \in DocType PROVE InForce(a, t)'
    BY DEF AllInForce
  <2>4. CASE a = req[r].app /\ t = req[r].type
    BY <2>1, <2>3, <2>4 DEF InForce
  <2>5. CASE ~(a = req[r].app /\ t = req[r].type)
    <3>1. InForce(a, t)
      BY DEF AllInForce
    <3>2. \A s \in Request : Owes(s, a, t) => Owes(s, a, t)'
      BY <2>2, <2>5 DEF Owes
    <3> QED BY <2>1, <2>3, <2>5, <3>1, <3>2 DEF InForce
  <2> QED BY <2>4, <2>5
<1> QED BY <1>1, <1>2

LEMMA VerifyInForce ==
  ASSUME Typed, AllInForce, NEW o \in Officer, NEW s \in {"VERIFIED", "REJECTED"},
         VerifyDocument(o, s)
  PROVE  AllInForce'
<1>1. /\ DOMAIN link' = DOMAIN link
      /\ \A l \in DOMAIN link : /\ link'[l].app = link[l].app /\ link'[l].type = link[l].type
                                /\ link'[l].current = link[l].current
  BY VerifiedRows DEF SameLink
<1>2. UNCHANGED req
  BY DEF VerifyDocument
<1> SUFFICES ASSUME NEW a \in App, NEW t \in DocType PROVE InForce(a, t)'
  BY DEF AllInForce
<1>3. InForce(a, t)
  BY DEF AllInForce
<1> QED BY <1>1, <1>2, <1>3 DEF InForce, Owes

LEMMA NextInForce == Typed /\ AllInForce /\ [Next]_vars => AllInForce'
<1> SUFFICES ASSUME Typed, TypeOK, AllInForce, [Next]_vars PROVE AllInForce'
  BY DEF Typed
<1>1. CASE UNCHANGED <<link, req>>
  BY <1>1, LinksKept
<1>2. CASE UNCHANGED vars
  BY <1>1, <1>2 DEF vars
<1>3. ASSUME NEW r \in Request, NEW a \in App \cup {None}, NEW t \in DocType,
             StartUpload(r, a, t)
      PROVE  AllInForce'
  BY <1>3, SkipsAreRows, OthersOwe DEF StartUpload
<1>4. ASSUME NEW r \in Request, NEW a \in App, NEW t \in DocType, IssueDocument(r, a, t)
      PROVE  AllInForce'
  BY <1>4, SkipsAreRows, OthersOwe DEF IssueDocument
<1>5. ASSUME NEW r \in Request, NEW a \in App, NEW t \in DocType, NEW d \in DOMAIN locker,
             StartAttach(r, a, d, t)
      PROVE  AllInForce'
  BY <1>5, SkipsAreRows, OthersOwe DEF StartAttach
<1>6. ASSUME NEW r \in Request, Step(r) PROVE AllInForce'
  <2>1. CASE OpenFile(r) \/ StoreFile(r) \/ RejectFile(r) \/ UnlistOld(r)
    BY <2>1, OthersOwe DEF OpenFile, StoreFile, RejectFile, UnlistOld
  <2>2. CASE ListNew(r)
    <3>1. req[r].pc = "unlisted" /\ UNCHANGED link /\ \E q : Continue(r, q)
      BY <2>2 DEF ListNew
    <3> QED BY <3>1, OthersOwe
  <2> QED BY <1>6, <2>1, <2>2, DetachInForce, AttachInForce, DiesInForce DEF Step
<1>7. ASSUME NEW a \in App, Submit(a) \/ RaiseQuery(a) PROVE AllInForce'
  BY <1>1, <1>7 DEF Submit, RaiseQuery
<1>8. ASSUME NEW o \in Officer, NEW l \in DOMAIN link, OpenDocument(o, l) PROVE AllInForce'
  BY <1>1, <1>8 DEF OpenDocument
<1>9. CASE Next
  BY <1>3, <1>4, <1>5, <1>6, <1>7, <1>8, <1>9, VerifyInForce DEF Next
<1> QED BY <1>2, <1>9

\* Who was answered with success left a document of the application in force:
\* only a request in between, or one that failed, has taken it away.
THEOREM DocumentAlwaysInForce == Spec => []DocumentInForce
<1>1. Init => Typed /\ AllInForce
  <2>1. Init => AllInForce
    BY DEF Init, AllInForce, InForce
  <2> QED BY <2>1, InitTyped
<1>2. Typed /\ AllInForce /\ [Next]_vars => (Typed /\ AllInForce)'
  BY NextTyped, NextInForce
<1>3. AllInForce => DocumentInForce
  BY InForceMeans
<1> QED BY <1>1, <1>2, <1>3, PTL DEF Spec

(***************************************************************************)
(* Files.                                                                  *)
(***************************************************************************)
\* Uploads of one type that overlap between opening the file and listing it
\* have different file names.  Version and name make the storage key, and
\* overlapping uploads read the same version: nothing in the code refuses two
\* of one name, and then the second truncates the file of the first.
NamesApart ==
  \A r, s \in Request :
    /\ r # s /\ Files(r) /\ Files(s) /\ req[r].type = req[s].type
    /\ req[r].key \notin App /\ req[s].key \notin App
    => NameOf[r] # NameOf[s]

\* The key of an upload under way, and of a listed one.
OwnKey(r, q) == q.key = <<q.type, q.version, NameOf[r]>>
RowKey(x) == x.key \in App \/ \E n : x.key = <<x.type, x.version, n>>

Stored(k, c) == k \in DOMAIN blob /\ blob[k] = c

\* The file of an upload is its own, and complete once it is stored.
Kept(r) ==
  /\ req[r].key \in App \/ OwnKey(r, req[r])
  /\ IF req[r].pc = "opened" THEN OwnKey(r, req[r]) ELSE Stored(req[r].key, req[r].checksum)
  /\ \A d \in DOMAIN locker : locker[d].key # req[r].key
  /\ \A s \in Request \ {r} : Files(s) => req[s].key # req[r].key

FilesKept ==
  /\ \A r \in Request : Files(r) => Kept(r)
  /\ \A d \in DOMAIN locker : RowKey(locker[d]) /\ Stored(locker[d].key, locker[d].checksum)

LEMMA KeptMatches == FilesKept => FilesMatchRows
BY DEF FilesKept, Stored, FilesMatchRows, FileOf

LEMMA InitKept == Init => FilesKept
<1> SUFFICES ASSUME Init PROVE FilesKept
  OBVIOUS
<1>1. DOMAIN locker = {}
  BY DEF Init
<1> QED BY <1>1, SkipsAreRows DEF Init, FilesKept, Files

\* No file and no listed key changes hands.
LEMMA NoFileStep ==
  ASSUME TypeOK, FilesKept, NEW r \in Request, NEW q, Continue(r, q),
         UNCHANGED <<locker, blob>>, q.pc \notin {"opened", "stored", "unlisted"}
  PROVE  FilesKept'
<1>1. \A s \in Request : req'[s] = IF s = r THEN q ELSE req[s]
  BY DEF Continue, TypeOK
<1>2. \A s \in Request : Files(s)' => s # r /\ Files(s) /\ req'[s] = req[s]
  BY <1>1 DEF Files
<1>3. ASSUME NEW s \in Request, Files(s)' PROVE Kept(s)'
  BY <1>2, <1>3 DEF FilesKept, Kept, OwnKey, Stored
<1> QED BY <1>3 DEF FilesKept, RowKey, Stored

\* A step of r that touches one file, which is nobody else's.
LEMMA FileStep ==
  ASSUME TypeOK, FilesKept, NEW r \in Request, NEW q, NEW k, Continue(r, q),
         DOMAIN locker' = DOMAIN locker,
         \A d \in DOMAIN locker : SameFile(locker'[d], locker[d]),
         \A x \in DOMAIN blob : x # k => x \in DOMAIN blob' /\ blob'[x] = blob[x],
         \A d \in DOMAIN locker : locker[d].key # k,
         \A s \in Request \ {r} : Files(s) => req[s].key # k,
         q.pc \in {"opened", "stored", "unlisted"} =>
           /\ q.key = k /\ (k \in App \/ OwnKey(r, q))
           /\ IF q.pc = "opened" THEN OwnKey(r, q) ELSE k \in DOMAIN blob' /\ blob'[k] = q.checksum
  PROVE  FilesKept'
<1>1. \A s \in Request : req'[s] = IF s = r THEN q ELSE req[s]
  BY DEF Continue, TypeOK
<1>2. \A s \in Request \ {r} : Files(s)' <=> Files(s)
  BY <1>1 DEF Files
<1>3. \A d \in DOMAIN locker' : locker'[d].key = locker[d].key
  BY DEF SameFile
<1>4. ASSUME NEW s \in Request, s # r, Files(s)' PROVE Kept(s)'
  <2>1. Files(s) /\ Kept(s) /\ req'[s] = req[s] /\ req[s].key # k
    BY <1>1, <1>2, <1>4 DEF FilesKept
  <2>2. req[s].pc # "opened" => Stored(req[s].key, req[s].checksum)'
    BY <2>1 DEF Kept, Stored
  <2>3. \A p \in Request \ {s} : Files(p)' => req'[p].key # req'[s].key
    <3>1. ASSUME NEW p \in Request \ {s}, p # r, Files(p)' PROVE req'[p].key # req'[s].key
      BY <1>1, <1>2, <2>1, <3>1 DEF Kept
    <3>2. Files(r)' => req'[r].key = k
      BY <1>1 DEF Files
    <3> QED BY <2>1, <3>1, <3>2
  <2> QED BY <1>3, <2>1, <2>2, <2>3 DEF Kept, OwnKey
<1>5. ASSUME Files(r)' PROVE Kept(r)'
  <2>1. req'[r] = q /\ q.pc \in {"opened", "stored", "unlisted"}
    BY <1>1, <1>5 DEF Files
  <2>2. \A s \in Request \ {r} : Files(s)' => req'[s].key # q.key
    BY <1>1, <1>2, <2>1
  <2> QED BY <1>3, <2>1, <2>2 DEF Kept, OwnKey, Stored
<1>6. ASSUME NEW d \in DOMAIN locker'
      PROVE  RowKey(locker'[d]) /\ Stored(locker[d].key, locker[d].checksum)'
  <2>1. /\ RowKey(locker[d]) /\ Stored(locker[d].key, locker[d].checksum)
        /\ SameFile(locker'[d], locker[d]) /\ locker[d].key # k
    BY <1>6 DEF FilesKept
  <2>2. RowKey(locker'[d])
    BY <2>1 DEF RowKey, SameFile
  <2>3. Stored(locker[d].key, locker[d].checksum)'
    BY <2>1 DEF Stored, SameFile
  <2> QED BY <2>2, <2>3
<1> QED BY <1>4, <1>5, <1>6 DEF FilesKept

\* The rows of the locker stay.
LEMMA SameRows ==
  ASSUME UNCHANGED locker
  PROVE  DOMAIN locker' = DOMAIN locker
         /\ \A d \in DOMAIN locker : SameFile(locker'[d], locker[d])
BY DEF SameFile

LEMMA OpenFileKept ==
  ASSUME Typed, FilesKept, NEW r \in Request, OpenFile(r), NamesApart'
  PROVE  FilesKept'
<1> DEFINE t == req[r].type
           v == NextVersion(t)
           k == StorageKey(r, t)
           q == [req[r] EXCEPT !.pc = "opened", !.key = k, !.version = v, !.checksum = made + 1]
<1>1. req[r] \in Admission /\ made < MaxContents /\ TypeOK
  BY RequestIs DEF OpenFile, Typed
<1>2. t \in DocType
  BY <1>1 DEF Admission
<1>3. v \in 1 .. MaxContents
      /\ \A d \in DOMAIN locker : locker[d].type = t => locker[d].version < v
  BY <1>1, <1>2, NextVersionType
<1>4. k = <<t, v, NameOf[r]>> /\ k \notin App
  BY <1>2, <1>3, KeysAssumption DEF StorageKey
<1>5. Continue(r, q) /\ blob' = Put(k, Partial) /\ UNCHANGED locker
  BY DEF OpenFile
<1>6. q.pc = "opened" /\ q.key = k /\ q.type = t /\ q.version = v
  BY <1>1 DEF Admission
<1> HIDE DEF k, v, q, t
<1>7. ASSUME NEW d \in DOMAIN locker PROVE locker[d].key # k
  <2>1. RowKey(locker[d]) /\ locker[d].version \in Nat
    BY RowIs DEF FilesKept, Typed, DocRow
  <2>2. ASSUME NEW n, locker[d].key = <<locker[d].type, locker[d].version, n>>,
               locker[d].key = k
        PROVE  FALSE
    <3>1. locker[d].type = t /\ locker[d].version = v
      BY <1>4, <2>2
    <3> QED BY <1>3, <2>1, <3>1
  <2> QED BY <1>4, <2>1, <2>2 DEF RowKey
<1>8. \A s \in Request : req'[s] = IF s = r THEN q ELSE req[s]
  BY <1>1, <1>5 DEF Continue, TypeOK
<1>9. ASSUME NEW s \in Request \ {r}, Files(s), req[s].key = k PROVE FALSE
  <2>1. OwnKey(s, req[s])
    BY <1>4, <1>9 DEF FilesKept, Kept
  <2>2. req[s].type = t /\ NameOf[s] = NameOf[r]
    BY <1>4, <1>9, <2>1 DEF OwnKey
  <2>3. /\ Files(s)' /\ Files(r)' /\ req'[s].type = req'[r].type
        /\ req'[r].key \notin App /\ req'[s].key \notin App
    BY <1>4, <1>6, <1>8, <1>9, <2>2 DEF Files
  <2> QED BY <1>9, <2>2, <2>3 DEF NamesApart
<1>10. \A x \in DOMAIN blob : x # k => x \in DOMAIN blob' /\ blob'[x] = blob[x]
  BY <1>5 DEF Put
<1>11. OwnKey(r, q)
  BY <1>4, <1>6 DEF OwnKey
<1>12. DOMAIN locker' = DOMAIN locker /\ \A d \in DOMAIN locker : SameFile(locker'[d], locker[d])
  BY <1>5, SameRows
<1> QED BY <1>1, <1>5, <1>6, <1>7, <1>9, <1>10, <1>11, <1>12, FileStep

LEMMA StoreFileKept ==
  ASSUME Typed, FilesKept, NEW r \in Request, StoreFile(r)
  PROVE  FilesKept'
<1> DEFINE k == req[r].key
           q == [req[r] EXCEPT !.pc = "stored"]
<1>1. req[r] \in Filing /\ Files(r) /\ Kept(r) /\ TypeOK
  BY RequestIs DEF StoreFile, Typed, Files, FilesKept
<1>2. /\ q.pc = "stored" /\ q.key = k /\ q.type = req[r].type /\ q.version = req[r].version
      /\ q.checksum = req[r].checksum
  BY <1>1 DEF Filing
<1>3. Continue(r, q) /\ blob' = Put(k, req[r].checksum) /\ UNCHANGED locker
  BY DEF StoreFile
<1>4. k \in App \/ OwnKey(r, q)
  BY <1>1, <1>2 DEF Kept, OwnKey
<1>5. /\ \A d \in DOMAIN locker : locker[d].key # k
      /\ \A s \in Request \ {r} : Files(s) => req[s].key # k
  BY <1>1 DEF Kept
<1> HIDE DEF k, q
<1>6. /\ \A x \in DOMAIN blob : x # k => x \in DOMAIN blob' /\ blob'[x] = blob[x]
      /\ k \in DOMAIN blob' /\ blob'[k] = q.checksum
  BY <1>2, <1>3 DEF Put
<1>7. DOMAIN locker' = DOMAIN locker /\ \A d \in DOMAIN locker : SameFile(locker'[d], locker[d])
  BY <1>3, SameRows
<1> QED BY <1>1, <1>2, <1>3, <1>4, <1>5, <1>6, <1>7, FileStep

LEMMA RejectFileKept ==
  ASSUME Typed, FilesKept, NEW r \in Request, RejectFile(r)
  PROVE  FilesKept'
<1> DEFINE k == req[r].key
<1>1. Files(r) /\ Kept(r) /\ TypeOK
  BY DEF RejectFile, Typed, Files, FilesKept
<1>2. Continue(r, Idle) /\ UNCHANGED locker
      /\ blob' = [x \in DOMAIN blob \ {k} |-> blob[x]]
  BY DEF RejectFile
<1>3. /\ \A d \in DOMAIN locker : locker[d].key # k
      /\ \A s \in Request \ {r} : Files(s) => req[s].key # k
  BY <1>1 DEF Kept
<1> HIDE DEF k
<1>4. \A x \in DOMAIN blob : x # k => x \in DOMAIN blob' /\ blob'[x] = blob[x]
  BY <1>2
<1>5. DOMAIN locker' = DOMAIN locker /\ \A d \in DOMAIN locker : SameFile(locker'[d], locker[d])
  BY <1>2, SameRows
<1> QED BY <1>1, <1>2, <1>3, <1>4, <1>5, SkipsAreRows, FileStep

LEMMA IssueDocumentKept ==
  ASSUME Typed, FilesKept, NEW r \in Request, NEW a \in App, NEW t \in DocType,
         IssueDocument(r, a, t)
  PROVE  FilesKept'
<1> DEFINE q == [pc |-> "stored", app |-> None, type |-> t, version |-> NextVersion(t),
                 key |-> a, checksum |-> made + 1]
<1>1. /\ Continue(r, q) /\ blob' = Put(a, made + 1) /\ UNCHANGED locker /\ TypeOK
      /\ a \notin DOMAIN blob
  BY DEF IssueDocument, Typed
<1>2. q.pc = "stored" /\ q.key = a /\ q.checksum = made + 1
  OBVIOUS
<1> HIDE DEF q
<1>3. \A d \in DOMAIN locker : locker[d].key # a
  BY <1>1 DEF FilesKept, Stored
<1>4. ASSUME NEW s \in Request \ {r}, Files(s) PROVE req[s].key # a
  <2>1. Kept(s) /\ req[s] \in Filing
    BY <1>1, <1>4, RequestIs DEF FilesKept
  <2>2. CASE req[s].pc = "opened"
    <3>1. req[s].key = <<req[s].type, req[s].version, NameOf[s]>>
      BY <2>1, <2>2 DEF Kept, OwnKey
    <3> QED BY <2>1, <3>1, KeysAssumption DEF Filing
  <2>3. CASE req[s].pc # "opened"
    BY <1>1, <2>1, <2>3 DEF Kept, Stored
  <2> QED BY <2>2, <2>3
<1>5. /\ \A x \in DOMAIN blob : x # a => x \in DOMAIN blob' /\ blob'[x] = blob[x]
      /\ a \in DOMAIN blob' /\ blob'[a] = made + 1
  BY <1>1 DEF Put
<1>6. DOMAIN locker' = DOMAIN locker /\ \A d \in DOMAIN locker : SameFile(locker'[d], locker[d])
  BY <1>1, SameRows
<1> QED BY <1>1, <1>2, <1>3, <1>4, <1>5, <1>6, FileStep

LEMMA UnlistOldKept ==
  ASSUME Typed, FilesKept, NEW r \in Request, UnlistOld(r)
  PROVE  FilesKept'
<1> DEFINE k == req[r].key
           q == [req[r] EXCEPT !.pc = "unlisted"]
<1>1. req[r] \in Filing /\ Files(r) /\ Kept(r) /\ TypeOK /\ req[r].pc = "stored"
  BY RequestIs DEF UnlistOld, Typed, Files, FilesKept
<1>2. /\ q.pc = "unlisted" /\ q.key = k /\ q.type = req[r].type /\ q.version = req[r].version
      /\ q.checksum = req[r].checksum
  BY <1>1 DEF Filing
<1>3. Continue(r, q) /\ UNCHANGED blob /\ locker' = Unlisted(req[r].type)
  BY DEF UnlistOld
<1>4. (k \in App \/ OwnKey(r, q)) /\ k \in DOMAIN blob' /\ blob'[k] = q.checksum
  BY <1>1, <1>2, <1>3 DEF Kept, OwnKey, Stored
<1>5. /\ \A d \in DOMAIN locker : locker[d].key # k
      /\ \A s \in Request \ {r} : Files(s) => req[s].key # k
  BY <1>1 DEF Kept
<1>6. DOMAIN locker' = DOMAIN locker /\ \A d \in DOMAIN locker : SameFile(locker'[d], locker[d])
  BY <1>1, <1>3, UnlistedRows
<1> HIDE DEF k, q
<1> QED BY <1>1, <1>2, <1>3, <1>4, <1>5, <1>6, FileStep

LEMMA ListNewKept ==
  ASSUME Typed, FilesKept, NEW r \in Request, ListNew(r)
  PROVE  FilesKept'
<1> DEFINE n == Len(locker) + 1
           row == NewRow(req[r])
<1>1. /\ Files(r) /\ Kept(r) /\ req[r].pc = "unlisted"
      /\ DOMAIN locker' = DOMAIN locker \cup {n}
      /\ \A d \in DOMAIN locker : locker'[d] = locker[d]
      /\ locker'[n] = row
  BY ListedRows DEF ListNew, FilesKept
<1>2. PICK q : Continue(r, q) /\ q.pc \notin {"opened", "stored", "unlisted"}
  BY SkipsAreRows DEF ListNew
<1>3. UNCHANGED blob
  BY DEF ListNew
<1>4. \A s \in Request : req'[s] = IF s = r THEN q ELSE req[s]
  BY <1>2 DEF Continue, Typed, TypeOK
<1>5. \A s \in Request : Files(s)' => s # r /\ Files(s) /\ req'[s] = req[s]
  BY <1>2, <1>4 DEF Files
<1>6. row.key = req[r].key /\ row.checksum = req[r].checksum
      /\ row.type = req[r].type /\ row.version = req[r].version
  BY DEF NewRow
<1>7. RowKey(row) /\ Stored(row.key, row.checksum)
  BY <1>1, <1>6 DEF Kept, RowKey, OwnKey
<1> HIDE DEF row, n
<1>8. ASSUME NEW s \in Request, Files(s)' PROVE Kept(s)'
  <2>1. Kept(s) /\ req'[s] = req[s] /\ req[s].key # req[r].key
    BY <1>1, <1>5, <1>8 DEF FilesKept, Kept
  <2>2. \A d \in DOMAIN locker' : locker'[d].key # req[s].key
    BY <1>1, <1>6, <2>1 DEF Kept
  <2>3. \A p \in Request \ {s} : Files(p)' => req'[p].key # req[s].key
    BY <1>5, <2>1 DEF Kept
  <2> QED BY <1>3, <2>1, <2>2, <2>3 DEF Kept, OwnKey, Stored
<1>9. ASSUME NEW d \in DOMAIN locker'
      PROVE  RowKey(locker'[d]) /\ Stored(locker[d].key, locker[d].checksum)'
  <2>1. CASE d = n
    BY <1>1, <1>3, <1>7, <2>1 DEF Stored
  <2>2. CASE d \in DOMAIN locker
    BY <1>1, <1>3, <2>2 DEF FilesKept, Stored
  <2> QED BY <1>1, <2>1, <2>2
<1> QED BY <1>8, <1>9 DEF FilesKept

LEMMA NextKept == Typed /\ FilesKept /\ NamesApart' /\ [Next]_vars => FilesKept'
<1> SUFFICES ASSUME Typed, TypeOK, FilesKept, NamesApart', [Next]_vars PROVE FilesKept'
  BY DEF Typed
<1>1. CASE UNCHANGED <<locker, blob, req>>
  BY <1>1 DEF FilesKept, Kept, OwnKey, RowKey, Stored, Files
<1>2. CASE UNCHANGED vars
  BY <1>1, <1>2 DEF vars
<1>3. ASSUME NEW r \in Request, NEW a \in App \cup {None}, NEW t \in DocType,
             StartUpload(r, a, t)
      PROVE  FilesKept'
  <2> DEFINE q == [pc |-> "admitted", app |-> a, type |-> t, version |-> 0,
                   key |-> None, checksum |-> Partial]
  <2>1. Continue(r, q) /\ q.pc = "admitted" /\ UNCHANGED <<locker, blob>>
    BY <1>3 DEF StartUpload
  <2> HIDE DEF q
  <2> QED BY <2>1, NoFileStep
<1>4. ASSUME NEW r \in Request, NEW a \in App, NEW d \in DOMAIN locker, NEW t \in DocType,
             StartAttach(r, a, d, t)
      PROVE  FilesKept'
  <2> DEFINE q == [pc |-> "attaching", app |-> a, type |-> t, doc |-> d]
  <2>1. Continue(r, q) /\ q.pc = "attaching" /\ UNCHANGED <<locker, blob>>
    BY <1>4 DEF StartAttach
  <2> HIDE DEF q
  <2> QED BY <2>1, NoFileStep
<1>5. ASSUME NEW r \in Request, Step(r) PROVE FilesKept'
  <2>1. CASE DetachOld(r)
    <3> DEFINE q == [req[r] EXCEPT !.pc = "detached"]
    <3>1. req[r] \in Attachment
      BY <2>1, DetachedRows
    <3>2. Continue(r, q) /\ UNCHANGED <<locker, blob>>
      BY <2>1 DEF DetachOld
    <3>3. q.pc = "detached"
      BY <3>1 DEF Attachment
    <3> HIDE DEF q
    <3> QED BY <3>2, <3>3, NoFileStep
  <2>2. CASE AttachNew(r)
    <3> DEFINE q == [pc |-> "failed", app |-> req[r].app, type |-> req[r].type]
    <3>1. (Continue(r, q) \/ Continue(r, Idle)) /\ UNCHANGED <<locker, blob>>
      BY <2>2 DEF AttachNew
    <3>2. q.pc = "failed"
      OBVIOUS
    <3> HIDE DEF q
    <3> QED BY <3>1, <3>2, SkipsAreRows, NoFileStep
  <2>3. CASE Dies(r)
    <3> DEFINE q == [pc |-> "failed", app |-> req[r].app, type |-> req[r].type]
    <3>1. Continue(r, q) /\ UNCHANGED <<locker, blob>> /\ q.pc = "failed"
      BY <2>3 DEF Dies
    <3> HIDE DEF q
    <3> QED BY <3>1, NoFileStep
  <2> QED BY <1>5, <2>1, <2>2, <2>3, OpenFileKept, StoreFileKept, RejectFileKept,
             UnlistOldKept, ListNewKept DEF Step
<1>6. ASSUME NEW a \in App, Submit(a) \/ RaiseQuery(a) PROVE FilesKept'
  BY <1>1, <1>6 DEF Submit, RaiseQuery
<1>7. ASSUME NEW o \in Officer, NEW l \in DOMAIN link, OpenDocument(o, l) PROVE FilesKept'
  BY <1>1, <1>7 DEF OpenDocument
<1>8. ASSUME NEW o \in Officer, NEW s \in {"VERIFIED", "REJECTED"}, VerifyDocument(o, s)
      PROVE  FilesKept'
  BY <1>1, <1>8 DEF VerifyDocument
<1>9. CASE Next
  BY <1>3, <1>4, <1>5, <1>6, <1>7, <1>8, <1>9, IssueDocumentKept DEF Next
<1> QED BY <1>2, <1>9

\* As long as overlapping uploads of one type have different names, a listed
\* document keeps the file it was listed with, whatever is uploaded, refused
\* or breaks off beside it.
THEOREM FilesAlwaysMatchRows == Spec /\ []NamesApart => []FilesMatchRows
<1>1. Init => Typed /\ FilesKept
  BY InitTyped, InitKept
<1>2. Typed /\ FilesKept /\ NamesApart' /\ [Next]_vars => (Typed /\ FilesKept)'
  BY NextTyped, NextKept
<1>3. FilesKept => FilesMatchRows
  BY KeptMatches
<1> QED BY <1>1, <1>2, <1>3, PTL DEF Spec

(***************************************************************************)
(* Verification.                                                           *)
(***************************************************************************)
\* What is in front of an officer, and what one has verified, is the file
\* that the linked row was listed with.
Inspected ==
  /\ \A l \in DOMAIN link :
       link[l].verification # "PENDING" => link[l].inspected = locker[link[l].doc].checksum
  /\ \A o \in Officer :
       desk[o] # None => desk[o].file = locker[link[desk[o].link].doc].checksum

LEMMA InspectedMeans == Typed /\ FilesKept /\ Inspected => VerifiedAsInspected
<1> SUFFICES ASSUME Typed, FilesKept, Inspected, NEW l \in DOMAIN link,
                    link[l].verification # "PENDING"
             PROVE  link[l].inspected = FileOf(link[l].doc)
  BY DEF VerifiedAsInspected
<1>1. link[l].doc \in DOMAIN locker
  BY RowIs DEF Typed
<1> QED BY <1>1 DEF Inspected, FilesKept, Stored, FileOf

LEMMA InitInspected == Init => Inspected
BY DEF Init, Inspected

\* Neither links nor desks change, and rows keep their checksums.
LEMMA InspectedKept ==
  ASSUME Typed, Inspected, UNCHANGED <<link, desk>>,
         \A d \in DOMAIN locker : locker'[d].checksum = locker[d].checksum
  PROVE  Inspected'
<1>1. \A l \in DOMAIN link : link[l].doc \in DOMAIN locker
  BY RowIs DEF Typed
<1>2. \A o \in Officer : desk[o] # None => desk[o].link \in DOMAIN link
  BY DEF Typed
<1> QED BY <1>1, <1>2 DEF Inspected

LEMMA NextInspected == Typed /\ FilesKept /\ Inspected /\ [Next]_vars => Inspected'
<1> SUFFICES ASSUME Typed, TypeOK, FilesKept, Inspected, [Next]_vars PROVE Inspected'
  BY DEF Typed
<1>1. /\ \A l \in DOMAIN link : link[l].doc \in DOMAIN locker
      /\ \A o \in Officer : desk[o] # None => desk[o].link \in DOMAIN link
  BY RowIs DEF Typed
<1>2. CASE UNCHANGED <<locker, link, desk>>
  BY <1>2, InspectedKept
<1>3. CASE UNCHANGED vars
  BY <1>2, <1>3 DEF vars
<1>4. ASSUME NEW r \in Request, Step(r) PROVE Inspected'
  <2>1. CASE OpenFile(r) \/ StoreFile(r) \/ RejectFile(r) \/ Dies(r)
    BY <2>1, <1>2 DEF OpenFile, StoreFile, RejectFile, Dies
  <2>2. CASE UnlistOld(r)
    BY <2>2, UnlistedRows, InspectedKept DEF UnlistOld, SameFile
  <2>3. CASE ListNew(r)
    <3>1. UNCHANGED <<link, desk>>
      BY <2>3 DEF ListNew
    <3> QED BY <2>3, <3>1, ListedRows, InspectedKept
  <2>4. CASE DetachOld(r)
    <3>1. UNCHANGED <<locker, desk>>
      BY <2>4 DEF DetachOld
    <3>2. /\ DOMAIN link' = DOMAIN link
          /\ \A l \in DOMAIN link : /\ link'[l].doc = link[l].doc
                                    /\ link'[l].verification = link[l].verification
                                    /\ link'[l].inspected = link[l].inspected
      BY <2>4, DetachedRows DEF SameLink
    <3> QED BY <1>1, <3>1, <3>2 DEF Inspected
  <2>5. CASE AttachNew(r)
    <3>1. UNCHANGED <<locker, desk>>
      BY <2>5 DEF AttachNew
    <3>2. CASE Linked(req[r].app, req[r].doc)
      BY <2>5, <3>2, <1>2 DEF AttachNew
    <3>3. CASE ~Linked(req[r].app, req[r].doc)
      <4> DEFINE n == Len(link) + 1
      <4>1. /\ DOMAIN link' = DOMAIN link \cup {n}
            /\ \A l \in DOMAIN link : link'[l] = link[l]
            /\ link'[n] = NewLink(req[r])
        BY <2>5, <3>3, AttachedRows
      <4>2. link'[n].verification = "PENDING"
        BY <4>1 DEF NewLink
      <4> HIDE DEF n
      <4> QED BY <1>1, <3>1, <4>1, <4>2 DEF Inspected
    <3> QED BY <3>2, <3>3
  <2> QED BY <1>4, <2>1, <2>2, <2>3, <2>4, <2>5 DEF Step
<1>5. ASSUME NEW o \in Officer, NEW l \in DOMAIN link, OpenDocument(o, l) PROVE Inspected'
  <2> DEFINE v == [link |-> l, file |-> FileOf(link[l].doc)]
  <2>1. desk' = [desk EXCEPT ![o] = v] /\ UNCHANGED <<locker, link>>
    BY <1>5 DEF OpenDocument
  <2>2. v.link = l /\ v.file = locker[link[l].doc].checksum
    BY <1>1 DEF FilesKept, Stored, FileOf
  <2> HIDE DEF v
  <2>3. \A p \in Officer : desk'[p] = IF p = o THEN v ELSE desk[p]
    BY <2>1 DEF TypeOK
  <2> QED BY <2>1, <2>2, <2>3 DEF Inspected
<1>6. ASSUME NEW o \in Officer, NEW s \in {"VERIFIED", "REJECTED"}, VerifyDocument(o, s)
      PROVE  Inspected'
  <2>1. /\ desk[o].link \in DOMAIN link /\ DOMAIN link' = DOMAIN link
        /\ \A l \in DOMAIN link : /\ link'[l].doc = link[l].doc
                                  /\ l # desk[o].link => link'[l] = link[l]
        /\ link'[desk[o].link].inspected = desk[o].file
    BY <1>6, VerifiedRows DEF SameLink
  <2>2. UNCHANGED locker /\ desk[o] # None
    BY <1>6 DEF VerifyDocument
  <2>3. \A p \in Officer : desk'[p] = IF p = o THEN None ELSE desk[p]
    BY <1>6 DEF VerifyDocument, TypeOK
  <2> QED BY <1>1, <2>1, <2>2, <2>3 DEF Inspected
<1>7. ASSUME NEW r \in Request, NEW t \in DocType, NEW a \in App \cup {None},
             StartUpload(r, a, t)
      PROVE  Inspected'
  BY <1>2, <1>7 DEF StartUpload
<1>8. ASSUME NEW r \in Request, NEW t \in DocType, NEW a \in App, IssueDocument(r, a, t)
      PROVE  Inspected'
  BY <1>2, <1>8 DEF IssueDocument
<1>9. ASSUME NEW r \in Request, NEW t \in DocType, NEW a \in App, NEW d \in DOMAIN locker,
             StartAttach(r, a, d, t)
      PROVE  Inspected'
  BY <1>2, <1>9 DEF StartAttach
<1>10. ASSUME NEW a \in App, Submit(a) \/ RaiseQuery(a) PROVE Inspected'
  BY <1>2, <1>10 DEF Submit, RaiseQuery
<1>11. CASE Next
  BY <1>4, <1>5, <1>6, <1>7, <1>8, <1>9, <1>10, <1>11 DEF Next
<1> QED BY <1>3, <1>11

\* Under the same condition a verification never passes to a file that
\* another upload brought: what an officer verified is what the application's
\* document still is.
THEOREM VerifiedAlwaysAsInspected == Spec /\ []NamesApart => []VerifiedAsInspected
<1> DEFINE I == Typed /\ FilesKept /\ Inspected
<1>1. Init => I
  BY InitTyped, InitKept, InitInspected
<1>2. I /\ NamesApart' /\ [Next]_vars => I'
  BY NextTyped, NextKept, NextInspected
<1>3. I => VerifiedAsInspected
  BY InspectedMeans
<1> HIDE DEF I
<1> QED BY <1>1, <1>2, <1>3, PTL DEF Spec

(***************************************************************************)
(* The others: a step of the composition is a step of one of them, and     *)
(* stutters for the rest.                                                  *)
(***************************************************************************)
LEMMA RegisterSteps == MCNext => Register!Next \/ UNCHANGED registerVars
BY DEF MCNext, Locker, OfProfile, OfRegister, Page, Register!Next

LEMMA ProfileSteps == MCNext => Profile!Next \/ UNCHANGED profileVars
BY DEF MCNext, Locker, OfProfile, OfRegister, Page, Profile!Next

LEMMA DocumentSteps == MCNext => Documents!Next \/ UNCHANGED documentVars
BY DEF MCNext, Locker, OfProfile, OfRegister, Page, pageVars

LEMMA PersonSteps == MCNext => Person!Next \/ UNCHANGED personVars
BY DEF MCNext, Locker, OfProfile, OfRegister, Page, pageVars

(***************************************************************************)
(* Properties of applications.                                             *)
(***************************************************************************)
Checking == [op : {"check"}, upn : Upn, found : BOOLEAN]
Naming == [op : {"create", "submit"}, arn : Arn, upn : Upn,
           at : {"find", "insert", "link", "own", "aborted"}]
IsNaming(q) == q.op \in {"create", "submit"}
StateOf == {None} \cup {Stages[i] : i \in DOMAIN Stages}

\* A request names a property its application has named, and links one that
\* exists; "submit" is nowhere the transaction can be.
RegisterTyped ==
  /\ app \in [Arn -> [state : StateOf, upn : Upn \cup {None}]]
  /\ named \in [Arn -> SUBSET Upn]
  /\ calls \in [Request -> {Register!Idle} \cup Checking \cup Naming]

RequestsName ==
  \A r \in Request :
    IsNaming(calls[r]) =>
      /\ Register!Exists(calls[r].arn) /\ calls[r].upn \in named[calls[r].arn]
      /\ calls[r].at = "link" => calls[r].upn \in rows

SubmittedNames ==
  \A a \in Arn :
    /\ Register!Exists(a) => app[a].upn \in named[a]
    /\ Register!Exists(a) /\ ~Register!At(a, "DRAFT") => \E u \in named[a] : <<a, u>> \in linked
    /\ \A u \in Upn : <<a, u>> \in linked => /\ Register!Exists(a)
                                             /\ u \in named[a] /\ u \in rows

RegisterInv == RegisterTyped /\ RequestsName /\ SubmittedNames

LEMMA StagesAre ==
  /\ Stages[1] = "DRAFT" /\ Stages[2] = "PENDING_AT_CLERK" /\ Len(Stages) = 5
  /\ Stages[2] # "DRAFT" /\ Stages[2] # None /\ "DRAFT" # None
  /\ "DRAFT" \in StateOf /\ Stages[2] \in StateOf
  /\ \A i \in 2 .. (Len(Stages) - 1) : /\ Stages[i + 1] \in StateOf
                                       /\ Stages[i + 1] # "DRAFT" /\ Stages[i + 1] # None
                                       /\ Stages[i] # "DRAFT" /\ Stages[i] # None
<1>1. DOMAIN Stages = 1 .. 5 /\ Len(Stages) = 5
  BY DEF Stages
<1>2. \A i \in 1 .. 5 : Stages[i] # None /\ Stages[i] \in StateOf
  BY <1>1, StagesAssumption DEF StateOf
<1>3. Stages[1] = "DRAFT" /\ Stages[2] = "PENDING_AT_CLERK" /\ Stages[3] # "DRAFT"
      /\ Stages[4] # "DRAFT" /\ Stages[5] # "DRAFT"
  BY DEF Stages
<1>4. \A i \in 2 .. 4 : i \in 1 .. 5 /\ i + 1 \in 1 .. 5 /\ i + 1 \in {3, 4, 5} /\ i \in {2, 3, 4}
  OBVIOUS
<1> QED BY <1>1, <1>2, <1>3, <1>4

LEMMA InitRegister == Register!Init => RegisterInv
BY DEF Register!Init, RegisterInv, RegisterTyped, RequestsName, SubmittedNames, Register!Exists,
       Register!Missing, Register!Idle, IsNaming, StateOf

\* A request goes on, or ends; nothing else changes.
LEMMA RequestGoesOn ==
  ASSUME RegisterInv, NEW r \in Request, NEW q \in {Register!Idle} \cup Checking \cup Naming,
         calls' = [calls EXCEPT ![r] = q], UNCHANGED <<app, named, linked, rows>>,
         IsNaming(q) => /\ Register!Exists(q.arn) /\ q.upn \in named[q.arn]
                        /\ q.at = "link" => q.upn \in rows
  PROVE  RegisterInv'
<1>1. calls' \in [Request -> {Register!Idle} \cup Checking \cup Naming]
      /\ \A s \in Request : calls'[s] = IF s = r THEN q ELSE calls[s]
  BY DEF RegisterInv, RegisterTyped
<1>2. RegisterTyped'
  BY <1>1 DEF RegisterInv, RegisterTyped
<1>3. ASSUME NEW s \in Request, IsNaming(calls[s])'
      PROVE  /\ Register!Exists(calls[s].arn)' /\ calls'[s].upn \in named'[calls'[s].arn]
             /\ calls'[s].at = "link" => calls'[s].upn \in rows'
  <2>1. CASE s = r
    <3>1. calls'[s] = q
      BY <1>1, <2>1
    <3> QED BY <1>3, <3>1 DEF Register!Exists, IsNaming
  <2>2. CASE s # r
    <3>1. calls'[s] = calls[s]
      BY <1>1, <2>2
    <3> QED BY <1>3, <3>1 DEF RegisterInv, RequestsName, Register!Exists, IsNaming
  <2> QED BY <2>1, <2>2
<1>4. SubmittedNames'
  BY DEF RegisterInv, SubmittedNames, Register!Exists, Register!At
<1> QED BY <1>2, <1>3, <1>4 DEF RegisterInv, RequestsName

LEMMA CallIs ==
  ASSUME RegisterInv, NEW r \in Request
  PROVE  /\ IsNaming(calls[r]) => calls[r] \in Naming /\ Register!Exists(calls[r].arn)
                                /\ calls[r].upn \in named[calls[r].arn]
         /\ calls[r].op = "check" => calls[r] \in Checking
         /\ ~IsNaming(Register!Idle)
         /\ \A q \in Checking : ~IsNaming(q)
BY DEF RegisterInv, RegisterTyped, RequestsName, Checking, Naming, IsNaming, Register!Idle

LEMMA CreateKept ==
  ASSUME RegisterInv, NEW r \in Request, NEW a \in Arn, NEW u \in Upn, Register!Create(r, a, u)
  PROVE  RegisterInv'
<1> DEFINE q == [op |-> "create", arn |-> a, upn |-> u, at |-> "find"]
           n == [state |-> "DRAFT", upn |-> u]
<1>1. /\ ~Register!Exists(a) /\ calls' = [calls EXCEPT ![r] = q]
      /\ app' = [app EXCEPT ![a] = n] /\ named' = [named EXCEPT ![a] = {u}]
      /\ UNCHANGED <<rows, linked>>
  BY DEF Register!Create, Register!Begin
<1>2. q \in Naming /\ q.arn = a /\ q.upn = u /\ q.at # "link"
  BY DEF Naming
<1>3. n \in [state : StateOf, upn : Upn \cup {None}] /\ n.state = "DRAFT" /\ n.upn = u
  BY StagesAre
<1> HIDE DEF q, n
<1>4. RegisterTyped'
  BY <1>1, <1>2, <1>3 DEF RegisterInv, RegisterTyped
<1>5. /\ \A b \in Arn : app'[b] = IF b = a THEN n ELSE app[b]
      /\ \A b \in Arn : named'[b] = IF b = a THEN {u} ELSE named[b]
      /\ \A s \in Request : calls'[s] = IF s = r THEN q ELSE calls[s]
  BY <1>1 DEF RegisterInv, RegisterTyped
<1>6. \A s \in Request : IsNaming(calls[s]) => calls[s].arn \in Arn /\ calls[s].arn # a
  BY <1>1, CallIs DEF Naming
<1>7. RequestsName'
  BY <1>1, <1>2, <1>3, <1>5, <1>6, StagesAre DEF RegisterInv, RequestsName, Register!Exists
<1>8. \A v \in Upn : <<a, v>> \notin linked'
  BY <1>1 DEF RegisterInv, SubmittedNames
<1>9. ASSUME NEW b \in Arn, b # a
      PROVE  /\ Register!Exists(b)' => app'[b].upn \in named'[b]
             /\ Register!Exists(b)' /\ ~Register!At(b, "DRAFT")' =>
                  \E v \in named'[b] : <<b, v>> \in linked'
             /\ \A v \in Upn : <<b, v>> \in linked' => /\ Register!Exists(b)'
                                                       /\ v \in named'[b] /\ v \in rows'
  <2>1. app'[b] = app[b] /\ named'[b] = named[b] /\ linked' = linked /\ rows' = rows
    BY <1>1, <1>5, <1>9
  <2> QED BY <2>1 DEF RegisterInv, SubmittedNames, Register!Exists, Register!At
<1>10. Register!Exists(a)' => app'[a].upn \in named'[a] /\ Register!At(a, "DRAFT")'
  BY <1>3, <1>5 DEF Register!At
<1>11. SubmittedNames'
  BY <1>8, <1>9, <1>10 DEF SubmittedNames
<1> QED BY <1>4, <1>7, <1>11 DEF RegisterInv

LEMMA RenameKept ==
  ASSUME RegisterInv, NEW a \in Arn, NEW u \in Upn, Register!Rename(a, u)
  PROVE  RegisterInv'
<1> DEFINE n == [app[a] EXCEPT !.upn = u]
<1>1. /\ app' = [app EXCEPT ![a] = n] /\ named' = [named EXCEPT ![a] = @ \cup {u}]
      /\ Register!At(a, "DRAFT") /\ UNCHANGED <<rows, linked, calls>>
  BY DEF Register!Rename
<1>2. n \in [state : StateOf, upn : Upn \cup {None}] /\ n.state = app[a].state /\ n.upn = u
  BY DEF RegisterInv, RegisterTyped
<1> HIDE DEF n
<1>3. RegisterTyped'
  BY <1>1, <1>2 DEF RegisterInv, RegisterTyped
<1>4. /\ \A b \in Arn : app'[b] = IF b = a THEN n ELSE app[b]
      /\ \A b \in Arn : named[b] \subseteq named'[b] /\ (b = a => u \in named'[b])
      /\ \A b \in Arn : Register!Exists(b)' <=> Register!Exists(b)
  BY <1>1, <1>2 DEF RegisterInv, RegisterTyped, Register!Exists
<1>5. \A s \in Request : IsNaming(calls[s]) => calls[s].arn \in Arn
  BY CallIs DEF Naming
<1>6. RequestsName'
  BY <1>1, <1>4, <1>5 DEF RegisterInv, RequestsName
<1>7. SubmittedNames'
  BY <1>1, <1>2, <1>4 DEF RegisterInv, SubmittedNames, Register!At
<1> QED BY <1>3, <1>6, <1>7 DEF RegisterInv

\* The application's own state moves on; it stays linked, and so do others.
LEMMA StateMoves ==
  ASSUME RegisterInv, NEW a \in Arn, Register!Exists(a), NEW s \in StateOf, s # None,
         app' = [app EXCEPT ![a].state = s], UNCHANGED named,
         linked \subseteq linked', rows \subseteq rows',
         \A b \in Arn, u \in Upn :
           <<b, u>> \in linked' => <<b, u>> \in linked \/ (b = a /\ u \in named[a] /\ u \in rows'),
         s = "DRAFT" \/ \E u \in named[a] : <<a, u>> \in linked'
  PROVE  /\ app' \in [Arn -> [state : StateOf, upn : Upn \cup {None}]]
         /\ \A b \in Arn : Register!Exists(b)' <=> Register!Exists(b)
         /\ SubmittedNames'
<1> DEFINE n == [app[a] EXCEPT !.state = s]
<1>1. n \in [state : StateOf, upn : Upn \cup {None}] /\ n.state = s /\ n.upn = app[a].upn
  BY DEF RegisterInv, RegisterTyped
<1>2. app' = [app EXCEPT ![a] = n]
  OBVIOUS
<1> HIDE DEF n
<1>3. app' \in [Arn -> [state : StateOf, upn : Upn \cup {None}]]
      /\ \A b \in Arn : app'[b] = IF b = a THEN n ELSE app[b]
  BY <1>1, <1>2 DEF RegisterInv, RegisterTyped
<1>4. \A b \in Arn : Register!Exists(b)' <=> Register!Exists(b)
  BY <1>1, <1>3 DEF Register!Exists
<1>5. SubmittedNames'
  BY <1>1, <1>3, <1>4 DEF RegisterInv, SubmittedNames, Register!At
<1> QED BY <1>3, <1>4, <1>5

LEMMA CommitKept ==
  ASSUME RegisterInv, NEW r \in Request, Register!Commit(r)
  PROVE  RegisterInv'
<1> DEFINE q == calls[r]
<1>1. q \in Naming /\ q.arn \in Arn /\ q.upn \in Upn /\ q.at # "submit" /\ Register!Exists(q.arn)
      /\ q.upn \in named[q.arn] /\ (q.at = "link" => q.upn \in rows)
  BY CallIs DEF Register!Commit, IsNaming, Naming, RegisterInv, RequestsName
<1>2. calls' = [calls EXCEPT ![r] = Register!Idle] /\ UNCHANGED named
  BY DEF Register!Commit, Register!Step
<1>3. CASE ~Register!At(q.arn, "DRAFT")
  BY <1>2, <1>3, RequestGoesOn, CallIs DEF Register!Commit
<1>4. CASE Register!At(q.arn, "DRAFT")
  <2>1. /\ app' = [app EXCEPT ![q.arn].state = Stages[2]]
        /\ rows' = (IF q.at = "own" THEN rows \cup {q.upn} ELSE rows)
        /\ linked' = linked \cup {<<q.arn, q.upn>>}
        /\ q.at \in {"link", "own"}
    BY <1>1, <1>4 DEF Register!Commit
  <2>2. q.upn \in rows' /\ rows \subseteq rows' /\ linked \subseteq linked'
    BY <1>1, <2>1
  <2> HIDE DEF q
  <2>3. \A b \in Arn, u \in Upn :
          <<b, u>> \in linked' => <<b, u>> \in linked \/ (b = q.arn /\ u \in named[q.arn] /\ u \in rows')
    BY <1>1, <2>1, <2>2
  <2>4. \E u \in named[q.arn] : <<q.arn, u>> \in linked'
    BY <1>1, <2>1
  <2>5. /\ app' \in [Arn -> [state : StateOf, upn : Upn \cup {None}]]
        /\ \A b \in Arn : Register!Exists(b)' <=> Register!Exists(b)
        /\ SubmittedNames'
    BY <1>1, <1>2, <2>1, <2>2, <2>3, <2>4, StateMoves, StagesAre
  <2>6. \A s \in Request : calls'[s] = IF s = r THEN Register!Idle ELSE calls[s]
    BY <1>2 DEF RegisterInv, RegisterTyped
  <2>7. \A s \in Request : IsNaming(calls[s]) => calls[s].arn \in Arn
    BY CallIs DEF Naming
  <2>8. RequestsName'
    BY <1>2, <2>2, <2>5, <2>6, <2>7, CallIs DEF RegisterInv, RequestsName
  <2>9. RegisterTyped'
    BY <1>2, <2>5 DEF RegisterInv, RegisterTyped
  <2> QED BY <2>5, <2>8, <2>9 DEF RegisterInv
<1> QED BY <1>3, <1>4

LEMMA AdvanceKept ==
  ASSUME RegisterInv, NEW a \in Arn, Register!Advance(a)
  PROVE  RegisterInv'
<1>1. PICK i \in 2 .. (Len(Stages) - 1) :
        Register!At(a, Stages[i]) /\ app' = [app EXCEPT ![a].state = Stages[i + 1]]
  BY DEF Register!Advance
<1>2. UNCHANGED <<rows, linked, calls, named>>
  BY DEF Register!Advance
<1>3. Register!Exists(a) /\ ~Register!At(a, "DRAFT")
  BY <1>1, StagesAre DEF Register!Exists, Register!At
<1>4. \E u \in named[a] : <<a, u>> \in linked'
  BY <1>2, <1>3 DEF RegisterInv, SubmittedNames
<1> DEFINE s == Stages[i + 1]
<1>5. s \in StateOf /\ s # None /\ app' = [app EXCEPT ![a].state = s]
  BY <1>1, StagesAre
<1> HIDE DEF s
<1>6. /\ app' \in [Arn -> [state : StateOf, upn : Upn \cup {None}]]
      /\ \A b \in Arn : Register!Exists(b)' <=> Register!Exists(b)
      /\ SubmittedNames'
  BY <1>2, <1>3, <1>4, <1>5, StateMoves
<1>7. \A r \in Request : IsNaming(calls[r]) => calls[r].arn \in Arn
  BY CallIs DEF Naming
<1>8. RequestsName'
  BY <1>2, <1>6, <1>7 DEF RegisterInv, RequestsName
<1> QED BY <1>2, <1>6, <1>8 DEF RegisterInv, RegisterTyped

LEMMA LinkKept ==
  ASSUME RegisterInv, NEW r \in Request, Register!Link(r)
  PROVE  RegisterInv'
<1>1. /\ calls[r] \in Naming /\ Register!Exists(calls[r].arn)
      /\ calls[r].upn \in named[calls[r].arn] /\ calls[r].upn \in rows
  BY CallIs DEF Register!Link, IsNaming, RegisterInv, RequestsName
<1>2. /\ calls' = [calls EXCEPT ![r] = Register!Idle] /\ UNCHANGED <<app, named, rows>>
      /\ linked' = linked \cup {<<calls[r].arn, calls[r].upn>>}
  BY DEF Register!Link, Register!Step
<1>3. RegisterTyped' /\ RequestsName'
  BY <1>2, CallIs DEF RegisterInv, RegisterTyped, RequestsName, Register!Exists
<1>4. SubmittedNames'
  BY <1>1, <1>2 DEF RegisterInv, SubmittedNames, Register!Exists, Register!At
<1> QED BY <1>3, <1>4 DEF RegisterInv

LEMMA InsertKept ==
  ASSUME RegisterInv, NEW r \in Request, Register!Insert(r)
  PROVE  RegisterInv'
<1> DEFINE q == calls[r]
<1>1. q \in Naming /\ Register!Exists(q.arn) /\ q.upn \in named[q.arn]
  BY CallIs DEF Register!Insert, IsNaming
<1>2. UNCHANGED <<app, named, linked>>
  BY DEF Register!Insert
<1>3. ASSUME Register!Step(r, Register!Collided(q)), UNCHANGED rows PROVE RegisterInv'
  <2>1. CASE q.op = "create"
    BY <1>2, <1>3, <2>1, RequestGoesOn, CallIs DEF Register!Step, Register!Collided
  <2>2. CASE q.op # "create"
    <3> DEFINE p == [q EXCEPT !.at = "aborted"]
    <3>1. p \in Naming /\ p.arn = q.arn /\ p.upn = q.upn /\ p.at # "link"
      BY <1>1 DEF Naming
    <3>2. calls' = [calls EXCEPT ![r] = p]
      BY <1>3, <2>2 DEF Register!Step, Register!Collided
    <3> HIDE DEF p
    <3> QED BY <1>1, <1>2, <1>3, <3>1, <3>2, RequestGoesOn
  <2> QED BY <2>1, <2>2
<1>4. ASSUME rows' = rows \cup {q.upn}, Register!Step(r, [q EXCEPT !.at = "link"])
      PROVE  RegisterInv'
  <2> DEFINE p == [q EXCEPT !.at = "link"]
  <2>1. p \in Naming /\ p.arn = q.arn /\ p.upn = q.upn
    BY <1>1 DEF Naming
  <2>2. calls' = [calls EXCEPT ![r] = p]
    BY <1>4 DEF Register!Step
  <2> HIDE DEF p
  <2>3. \A s \in Request : calls'[s] = IF s = r THEN p ELSE calls[s]
    BY <2>2 DEF RegisterInv, RegisterTyped
  <2>4. RegisterTyped'
    BY <1>2, <2>1, <2>2 DEF RegisterInv, RegisterTyped
  <2>5. RequestsName'
    BY <1>1, <1>2, <1>4, <2>1, <2>3 DEF RegisterInv, RequestsName, Register!Exists
  <2>6. SubmittedNames'
    BY <1>2, <1>4 DEF RegisterInv, SubmittedNames, Register!Exists, Register!At
  <2> QED BY <2>4, <2>5, <2>6 DEF RegisterInv
<1>5. ASSUME Register!Step(r, [q EXCEPT !.at = "own"]), UNCHANGED rows PROVE RegisterInv'
  <2> DEFINE p == [q EXCEPT !.at = "own"]
  <2>1. p \in Naming /\ p.arn = q.arn /\ p.upn = q.upn /\ p.at # "link"
    BY <1>1 DEF Naming
  <2>2. calls' = [calls EXCEPT ![r] = p]
    BY <1>5 DEF Register!Step
  <2> HIDE DEF p
  <2> QED BY <1>1, <1>2, <1>5, <2>1, <2>2, RequestGoesOn
<1> HIDE DEF q
<1> QED BY <1>3, <1>4, <1>5 DEF Register!Insert, q

LEMMA FindKept ==
  ASSUME RegisterInv, NEW r \in Request, Register!Find(r)
  PROVE  RegisterInv'
<1> DEFINE q == calls[r]
           at == IF q.upn \in rows THEN "link" ELSE "insert"
           p == [q EXCEPT !.at = at]
<1>1. q \in Naming /\ Register!Exists(q.arn) /\ q.upn \in named[q.arn]
  BY CallIs DEF Register!Find, IsNaming
<1>2. at \in {"link", "insert"} /\ (at = "link" => q.upn \in rows)
  OBVIOUS
<1>3. calls' = [calls EXCEPT ![r] = p] /\ UNCHANGED <<app, named, linked, rows>>
  BY DEF Register!Find, Register!Step
<1> HIDE DEF at
<1>4. p \in Naming /\ p.arn = q.arn /\ p.upn = q.upn /\ p.at = at
  BY <1>1, <1>2 DEF Naming
<1> HIDE DEF p
<1> QED BY <1>1, <1>2, <1>3, <1>4, RequestGoesOn

LEMMA NextRegister == RegisterInv /\ (Register!Next \/ UNCHANGED registerVars) => RegisterInv'
<1> SUFFICES ASSUME RegisterInv, Register!Next \/ UNCHANGED registerVars PROVE RegisterInv'
  OBVIOUS
<1>1. CASE UNCHANGED registerVars
  BY <1>1 DEF registerVars, RegisterInv, RegisterTyped, RequestsName, SubmittedNames,
              Register!Exists, Register!At
<1>2. ASSUME NEW r \in Request, NEW u \in Upn, Register!StartCheck(r, u) PROVE RegisterInv'
  <2> DEFINE q == [op |-> "check", upn |-> u, found |-> u \in rows]
  <2>1. q \in Checking
    BY DEF Checking
  <2>2. calls' = [calls EXCEPT ![r] = q] /\ UNCHANGED <<app, named, linked, rows>>
    BY <1>2 DEF Register!StartCheck, Register!Begin
  <2> HIDE DEF q
  <2> QED BY <2>1, <2>2, CallIs, RequestGoesOn
<1>3. ASSUME NEW r \in Request, NEW a \in Arn, Register!Submit(r, a) PROVE RegisterInv'
  <2> DEFINE q == [op |-> "submit", arn |-> a, upn |-> app[a].upn, at |-> "find"]
  <2>1. Register!Exists(a) /\ app[a].upn \in named[a]
    BY <1>3, StagesAre DEF Register!Submit, Register!At, Register!Exists, RegisterInv, SubmittedNames
  <2>2. q \in Naming /\ q.arn = a /\ q.upn = app[a].upn /\ q.at # "link"
    BY <2>1 DEF Naming, RegisterInv, RegisterTyped
  <2>3. calls' = [calls EXCEPT ![r] = q] /\ UNCHANGED <<app, named, linked, rows>>
    BY <1>3 DEF Register!Submit, Register!Begin
  <2> HIDE DEF q
  <2> QED BY <2>1, <2>2, <2>3, RequestGoesOn
<1>4. ASSUME NEW r \in Request, Register!AnswerCheck(r) \/ Register!Stop(r) PROVE RegisterInv'
  <2>1. calls' = [calls EXCEPT ![r] = Register!Idle] /\ UNCHANGED <<app, named, linked, rows>>
    BY <1>4 DEF Register!AnswerCheck, Register!Stop, Register!Step
  <2> QED BY <2>1, CallIs, RequestGoesOn
<1> QED BY <1>1, <1>2, <1>3, <1>4, CreateKept, RenameKept, CommitKept, AdvanceKept, LinkKept,
           InsertKept, FindKept DEF Register!Next

\* A submitted application has a property it named, and is linked to none
\* other, for any number of applications, properties and requests, whatever
\* the order of their statements and wherever they fail.
THEOREM SubmittedAlwaysLinked == MCSpec => []SubmittedIsLinked
<1>1. MCInit => RegisterInv
  BY InitRegister DEF MCInit
<1>2. RegisterInv /\ [MCNext]_<<vars, profileVars, registerVars, pageVars, beside>> => RegisterInv'
  BY NextRegister, RegisterSteps
<1>3. RegisterInv => SubmittedIsLinked
  BY DEF RegisterInv, SubmittedNames, SubmittedIsLinked, Register!SubmittedIsLinked
<1> QED BY <1>1, <1>2, <1>3, PTL DEF MCSpec

(***************************************************************************)
(* The profile on the server.                                              *)
(***************************************************************************)
\* What a citizen's own request carries, and how far a verification is.
OwnPatch == {[f \in own |-> "typed"] : own \in SUBSET (Profile!Own \cup {"onboarded"})}
Card1(c) == [f \in {"name", "aadhaar"} |-> c]
Card2(c) == [f \in {"address"} |-> c]
Card3 == [f \in {"aadhaar_verified"} |-> "yes"]
Pan1(p) == [f \in {"pan"} |-> p]
Pan2 == [f \in {"pan_verified"} |-> "yes"]

AfterNumber(s) == s = <<Card3>> \/ \E c \in Card : s = <<Card2(c), Card3>>
AfterPan(s) == s = <<Pan2>>

TodoIs(s, had) ==
  \/ s \in Seq(OwnPatch)
  \/ \E c \in Card \cap had : s = <<Card1(c), Card2(c), Card3>>
  \/ AfterNumber(s)
  \/ \E p \in Pan \cap had : s = <<Pan1(p), Pan2>>
  \/ AfterPan(s)

\* What nobody typed is of a card the service confirmed; what is marked as
\* verified, or about to be, is there.
Sourced(row, t) ==
  /\ t \cap {"name", "aadhaar"} = {} => row["name"] = row["aadhaar"]
                                        /\ row["aadhaar"] \in confirmed \cup {None}
  /\ "pan" \notin t => row["pan"] \in confirmed \cup {None}

ProfileInv ==
  /\ profile = [f \in Profile!Field |-> profile[f]]
  /\ DOMAIN todo = Request /\ todo = [r \in Request |-> todo[r]]
  /\ \A r \in Request : TodoIs(todo[r], confirmed)
  /\ Sourced(profile, typed)
  /\ profile["aadhaar_verified"] = "yes" \/ (\E r \in Request : AfterNumber(todo[r])) =>
       profile["aadhaar"] # None
  /\ profile["pan_verified"] = "yes" \/ (\E r \in Request : AfterPan(todo[r])) =>
       profile["pan"] # None

LEMMA InitProfile == Profile!Init => ProfileInv
<1>1. << >> \in Seq(OwnPatch) /\ ~AfterNumber(<< >>) /\ ~AfterPan(<< >>)
  BY EmptySeq DEF AfterNumber, AfterPan
<1> QED BY <1>1, CardsAssumption DEF Profile!Init, ProfileInv, TodoIs, Sourced, Profile!Field,
             Profile!Own

LEMMA OwnPatches ==
  ASSUME NEW fields
  PROVE  /\ Profile!Carried(fields \cap Profile!Section[1]) \in Seq(OwnPatch)
         /\ Profile!Carried(fields \cap Profile!Section[2]) \in Seq(OwnPatch)
         /\ Profile!Carried(fields \cap Profile!Section[3]) \in Seq(OwnPatch)
         /\ Profile!Carried(fields \cap Profile!Section[4]) \in Seq(OwnPatch)
<1>1. ASSUME NEW own \in SUBSET (Profile!Own \cup {"onboarded"})
      PROVE  Profile!Carried(own) \in Seq(OwnPatch)
  <2> DEFINE e == [f \in own |-> "typed"]
  <2>1. e \in OwnPatch
    BY DEF OwnPatch
  <2> HIDE DEF e
  <2>2. <<e>> \in Seq(OwnPatch) /\ << >> \in Seq(OwnPatch)
    BY <2>1
  <2> QED BY <2>2 DEF Profile!Carried, e
<1>2. \A i \in 1 .. 4 : Profile!Section[i] \subseteq Profile!Own \cup {"onboarded"}
  <2>1. Profile!Section[1] = {"name", "aadhaar", "pan"} /\ Profile!Section[2] = {"address"}
        /\ Profile!Section[3] = {"theme"} /\ Profile!Section[4] = {"onboarded"}
    BY DEF Profile!Section
  <2> QED BY <2>1 DEF Profile!Own
<1> QED BY <1>1, <1>2

\* The start of a request.
LEMMA BeginKept ==
  ASSUME ProfileInv, NEW r \in Request, NEW s, Profile!Begin(r, s),
         confirmed \subseteq confirmed', TodoIs(s, confirmed'), ~AfterNumber(s), ~AfterPan(s)
  PROVE  ProfileInv'
<1>1. /\ todo' = [todo EXCEPT ![r] = s] /\ profile' = profile /\ typed' = typed
  BY DEF Profile!Begin
<1>2. /\ todo' = [q \in Request |-> todo'[q]] /\ DOMAIN todo' = Request
      /\ \A q \in Request : todo'[q] = IF q = r THEN s ELSE todo[q]
  BY <1>1 DEF ProfileInv
<1>3. \A q \in Request : TodoIs(todo[q], confirmed')
  BY DEF ProfileInv, TodoIs
<1>4. \A q \in Request : /\ AfterNumber(todo'[q]) => AfterNumber(todo[q])
                         /\ AfterPan(todo'[q]) => AfterPan(todo[q])
                         /\ TodoIs(todo'[q], confirmed')
  BY <1>2, <1>3
<1>5. Sourced(profile, typed)'
  BY <1>1 DEF ProfileInv, Sourced
<1> QED BY <1>1, <1>2, <1>4, <1>5 DEF ProfileInv

\* What is typed is not what a verification writes.
LEMMA OwnIsNotVerified ==
  ASSUME NEW s \in Seq(OwnPatch)
  PROVE  ~AfterNumber(s) /\ ~AfterPan(s)
<1>1. \A e \in OwnPatch : "aadhaar_verified" \notin DOMAIN e /\ "pan_verified" \notin DOMAIN e
  BY DEF OwnPatch, Profile!Own
<1>2. Card3 \notin OwnPatch /\ Pan2 \notin OwnPatch
  BY <1>1 DEF Card3, Pan2
<1>3. ASSUME NEW x, s = <<x>> PROVE x \in OwnPatch
  BY <1>3, ElementOfSeq
<1>4. ASSUME NEW x, NEW y, s = <<x, y>> PROVE y \in OwnPatch
  BY <1>4, ElementOfSeq
<1> QED BY <1>2, <1>3, <1>4 DEF AfterNumber, AfterPan

LEMMA PatchKept ==
  ASSUME ProfileInv, NEW r \in Request, NEW fields, Profile!Patch(r, fields)
  PROVE  ProfileInv'
<1> DEFINE s == Profile!Carried(fields \cap Profile!Section[1])
                \o Profile!Carried(fields \cap Profile!Section[2])
                \o Profile!Carried(fields \cap Profile!Section[3])
                \o Profile!Carried(fields \cap Profile!Section[4])
<1>1. s \in Seq(OwnPatch)
  BY OwnPatches, ConcatProperties
<1>2. Profile!Begin(r, s) /\ UNCHANGED confirmed
  BY DEF Profile!Patch
<1> HIDE DEF s
<1>3. ~AfterNumber(s) /\ ~AfterPan(s)
  BY <1>1, OwnIsNotVerified
<1> QED BY <1>1, <1>2, <1>3, BeginKept DEF TodoIs

\* What is left of each list once its first patch is made.
LEMMA Heads ==
  ASSUME NEW c
  PROVE  /\ Head(<<Card1(c), Card2(c), Card3>>) = Card1(c)
         /\ Tail(<<Card1(c), Card2(c), Card3>>) = <<Card2(c), Card3>>
         /\ Head(<<Card2(c), Card3>>) = Card2(c) /\ Tail(<<Card2(c), Card3>>) = <<Card3>>
         /\ Head(<<Card3>>) = Card3 /\ Tail(<<Card3>>) = << >>
         /\ Head(<<Pan1(c), Pan2>>) = Pan1(c) /\ Tail(<<Pan1(c), Pan2>>) = <<Pan2>>
         /\ Head(<<Pan2>>) = Pan2 /\ Tail(<<Pan2>>) = << >>
<1> DEFINE a == Card1(c)
           b == Card2(c)
           d == Card3
           e == Pan1(c)
           f == Pan2
<1> HIDE DEF a, b, d, e, f
<1>1. /\ Head(<<a, b, d>>) = a /\ Tail(<<a, b, d>>) = <<b, d>>
      /\ Head(<<b, d>>) = b /\ Tail(<<b, d>>) = <<d>>
      /\ Head(<<d>>) = d /\ Tail(<<d>>) = << >>
      /\ Head(<<e, f>>) = e /\ Tail(<<e, f>>) = <<f>>
      /\ Head(<<f>>) = f /\ Tail(<<f>>) = << >>
  OBVIOUS
<1> QED BY <1>1 DEF a, b, d, e, f

LEMMA Differ ==
  /\ \A c : /\ ~AfterNumber(<<Pan2>>) /\ ~AfterNumber(<< >>) /\ ~AfterPan(<< >>)
            /\ ~AfterPan(<<Card3>>) /\ ~AfterPan(<<Card2(c), Card3>>)
            /\ ~AfterNumber(<<Pan1(c), Pan2>>) /\ ~AfterPan(<<Pan1(c), Pan2>>)
            /\ ~AfterNumber(<<Card1(c), Card2(c), Card3>>)
            /\ ~AfterPan(<<Card1(c), Card2(c), Card3>>)
  /\ AfterNumber(<<Card3>>) /\ AfterPan(<<Pan2>>)
  /\ \A c \in Card : AfterNumber(<<Card2(c), Card3>>)
<1>1. Pan2 # Card3
  <2>1. DOMAIN Pan2 = {"pan_verified"} /\ DOMAIN Card3 = {"aadhaar_verified"}
    BY DEF Pan2, Card3
  <2> QED BY <2>1
<1> QED BY <1>1 DEF AfterNumber, AfterPan

LEMMA WriteKept ==
  ASSUME ProfileInv, NEW r \in Request, Profile!Write(r)
  PROVE  ProfileInv'
<1> DEFINE patch == Head(todo[r])
           rest == Tail(todo[r])
<1>0. todo' = [todo EXCEPT ![r] = rest]
  BY DEF Profile!Write, ProfileInv
<1>1. /\ todo[r] # << >> /\ patch = Head(todo[r]) /\ rest = Tail(todo[r])
      /\ profile' = [f \in Profile!Field |-> IF f \in DOMAIN patch THEN patch[f] ELSE profile[f]]
      /\ typed' = (typed \ DOMAIN patch) \cup {f \in DOMAIN patch : patch[f] = "typed"}
      /\ confirmed' = confirmed
      /\ DOMAIN todo' = Request /\ todo' = [q \in Request |-> todo'[q]]
      /\ \A q \in Request : todo'[q] = IF q = r THEN rest ELSE todo[q]
  <2>1. /\ DOMAIN todo' = Request /\ todo' = [q \in Request |-> todo'[q]]
        /\ \A q \in Request : todo'[q] = IF q = r THEN rest ELSE todo[q]
    <3> HIDE DEF rest
    <3> QED BY <1>0 DEF ProfileInv
  <2>2. profile' = [f \in Profile!Field |-> IF f \in DOMAIN patch THEN patch[f] ELSE profile[f]]
    BY DEF Profile!Write, Profile!Merged
  <2>3. /\ todo[r] # << >> /\ confirmed' = confirmed
        /\ typed' = (typed \ DOMAIN patch) \cup {f \in DOMAIN patch : patch[f] = "typed"}
    BY DEF Profile!Write
  <2> QED BY <2>1, <2>2, <2>3
<1> HIDE DEF patch, rest
<1>2. {"name", "aadhaar", "pan", "aadhaar_verified", "pan_verified"} \subseteq Profile!Field
  BY DEF Profile!Field, Profile!Own
<1>3. \A f \in {"name", "aadhaar", "pan", "aadhaar_verified", "pan_verified"} :
        profile'[f] = IF f \in DOMAIN patch THEN patch[f] ELSE profile[f]
  BY <1>1, <1>2
<1>4. profile' = [f \in Profile!Field |-> profile'[f]]
  BY <1>1
\* What remains to be shown of each list.
<1>5. ASSUME TodoIs(rest, confirmed), Sourced(profile', typed'),
             profile'["aadhaar_verified"] = "yes" \/ AfterNumber(rest)
               \/ (\E q \in Request : AfterNumber(todo[q])) => profile'["aadhaar"] # None,
             profile'["pan_verified"] = "yes" \/ AfterPan(rest)
               \/ (\E q \in Request : AfterPan(todo[q])) => profile'["pan"] # None
      PROVE  ProfileInv'
  <2>1. \A q \in Request : TodoIs(todo'[q], confirmed')
    BY <1>1, <1>5 DEF ProfileInv
  <2>2. Sourced(profile, typed)'
    BY <1>1, <1>5 DEF Sourced
  <2>3. /\ (\E q \in Request : AfterNumber(todo'[q])) =>
             AfterNumber(rest) \/ (\E q \in Request : AfterNumber(todo[q]))
        /\ (\E q \in Request : AfterPan(todo'[q])) =>
             AfterPan(rest) \/ (\E q \in Request : AfterPan(todo[q]))
    BY <1>1
  <2> QED BY <1>1, <1>4, <1>5, <2>1, <2>2, <2>3 DEF ProfileInv
<1>6. CASE todo[r] \in Seq(OwnPatch)
  <2>1. patch \in OwnPatch /\ rest \in Seq(OwnPatch)
    BY <1>1, <1>6, HeadTailProperties
  <2>2. PICK own \in SUBSET (Profile!Own \cup {"onboarded"}) : patch = [f \in own |-> "typed"]
    BY <2>1 DEF OwnPatch
  <2>3. DOMAIN patch = own /\ \A f \in own : patch[f] = "typed"
    BY <2>2
  <2>4. "aadhaar_verified" \notin own /\ "pan_verified" \notin own
    BY DEF Profile!Own
  <2>5. typed' = typed \cup own
    BY <1>1, <2>3
  <2>6. Sourced(profile', typed')
    BY <1>1, <1>3, <2>3, <2>5 DEF ProfileInv, Sourced
  <2>7. ~AfterNumber(rest) /\ ~AfterPan(rest) /\ TodoIs(rest, confirmed)
    BY <2>1, OwnIsNotVerified DEF TodoIs
  <2> QED BY <1>3, <1>5, <2>3, <2>4, <2>6, <2>7, CardsAssumption DEF ProfileInv
<1>7. ASSUME NEW c \in Card \cap confirmed, todo[r] = <<Card1(c), Card2(c), Card3>>
      PROVE  ProfileInv'
  <2>1. patch = Card1(c) /\ rest = <<Card2(c), Card3>>
    BY <1>1, <1>7, Heads
  <2>2. DOMAIN patch = {"name", "aadhaar"} /\ patch["name"] = c /\ patch["aadhaar"] = c
    BY <2>1 DEF Card1
  <2>3. "pan" \in typed' <=> "pan" \in typed
    BY <1>1, <2>2
  <2>4. Sourced(profile', typed')
    BY <1>1, <1>3, <2>2, <2>3 DEF ProfileInv, Sourced
  <2>5. AfterNumber(rest) /\ ~AfterPan(rest) /\ TodoIs(rest, confirmed)
    BY <2>1, Differ DEF TodoIs
  <2> QED BY <1>3, <1>5, <2>2, <2>4, <2>5, CardsAssumption DEF ProfileInv
<1>8. ASSUME NEW c \in Card, todo[r] = <<Card2(c), Card3>>
      PROVE  ProfileInv'
  <2>1. patch = Card2(c) /\ rest = <<Card3>> /\ AfterNumber(todo[r])
    BY <1>1, <1>8, Heads, Differ
  <2>2. DOMAIN patch = {"address"}
    BY <2>1 DEF Card2
  <2>3. \A f \in {"name", "aadhaar", "pan"} : f \in typed' <=> f \in typed
    BY <1>1, <2>2
  <2>4. Sourced(profile', typed')
    BY <1>1, <1>3, <2>2, <2>3 DEF ProfileInv, Sourced
  <2>5. AfterNumber(rest) /\ ~AfterPan(rest) /\ TodoIs(rest, confirmed)
    BY <2>1, Differ DEF TodoIs
  <2> QED BY <1>3, <1>5, <2>1, <2>2, <2>4, <2>5 DEF ProfileInv
<1>9. CASE todo[r] = <<Card3>>
  <2>1. patch = Card3 /\ rest = << >> /\ AfterNumber(todo[r])
    BY <1>1, <1>9, Heads, Differ
  <2>2. DOMAIN patch = {"aadhaar_verified"}
    BY <2>1 DEF Card3
  <2>3. \A f \in {"name", "aadhaar", "pan"} : f \in typed' <=> f \in typed
    BY <1>1, <2>2
  <2>4. Sourced(profile', typed')
    BY <1>1, <1>3, <2>2, <2>3 DEF ProfileInv, Sourced
  <2>5. ~AfterNumber(rest) /\ ~AfterPan(rest) /\ TodoIs(rest, confirmed)
    BY <2>1, Differ, EmptySeq DEF TodoIs
  <2> QED BY <1>3, <1>5, <2>1, <2>2, <2>4, <2>5 DEF ProfileInv
<1>10. ASSUME NEW p \in Pan \cap confirmed, todo[r] = <<Pan1(p), Pan2>>
       PROVE  ProfileInv'
  <2>1. patch = Pan1(p) /\ rest = <<Pan2>>
    BY <1>1, <1>10, Heads
  <2>2. DOMAIN patch = {"pan"} /\ patch["pan"] = p
    BY <2>1 DEF Pan1
  <2>3. \A f \in {"name", "aadhaar"} : f \in typed' <=> f \in typed
    BY <1>1, <2>2
  <2>4. Sourced(profile', typed')
    BY <1>1, <1>3, <2>2, <2>3 DEF ProfileInv, Sourced
  <2>5. ~AfterNumber(rest) /\ AfterPan(rest) /\ TodoIs(rest, confirmed)
    BY <2>1, Differ DEF TodoIs
  <2> QED BY <1>3, <1>5, <2>2, <2>4, <2>5, CardsAssumption DEF ProfileInv
<1>11. CASE todo[r] = <<Pan2>>
  <2>1. patch = Pan2 /\ rest = << >> /\ AfterPan(todo[r])
    BY <1>1, <1>11, Heads, Differ
  <2>2. DOMAIN patch = {"pan_verified"}
    BY <2>1 DEF Pan2
  <2>3. \A f \in {"name", "aadhaar", "pan"} : f \in typed' <=> f \in typed
    BY <1>1, <2>2
  <2>4. Sourced(profile', typed')
    BY <1>1, <1>3, <2>2, <2>3 DEF ProfileInv, Sourced
  <2>5. ~AfterNumber(rest) /\ ~AfterPan(rest) /\ TodoIs(rest, confirmed)
    BY <2>1, Differ, EmptySeq DEF TodoIs
  <2> QED BY <1>3, <1>5, <2>1, <2>2, <2>4, <2>5 DEF ProfileInv
<1> QED BY <1>6, <1>7, <1>8, <1>9, <1>10, <1>11 DEF ProfileInv, TodoIs, AfterNumber, AfterPan

LEMMA NextProfile == ProfileInv /\ (Profile!Next \/ UNCHANGED profileVars) => ProfileInv'
<1> SUFFICES ASSUME ProfileInv, Profile!Next \/ UNCHANGED profileVars PROVE ProfileInv'
  OBVIOUS
<1>1. CASE UNCHANGED profileVars
  BY <1>1 DEF profileVars, ProfileInv, Sourced
<1>2. ASSUME NEW r \in Request, NEW c \in Card, Profile!VerifyAadhaar(r, c) PROVE ProfileInv'
  <2>1. Profile!Begin(r, <<Card1(c), Card2(c), Card3>>) /\ confirmed' = confirmed \cup {c}
    BY <1>2 DEF Profile!VerifyAadhaar, Profile!Demographics, Card1, Card2, Card3
  <2>2. TodoIs(<<Card1(c), Card2(c), Card3>>, confirmed')
    BY <2>1 DEF TodoIs
  <2> QED BY <2>1, <2>2, Differ, BeginKept
<1>3. ASSUME NEW r \in Request, NEW p \in Pan, Profile!VerifyPan(r, p) PROVE ProfileInv'
  <2>1. Profile!Begin(r, <<Pan1(p), Pan2>>) /\ confirmed' = confirmed \cup {p}
    BY <1>3 DEF Profile!VerifyPan, Pan1, Pan2
  <2>2. TodoIs(<<Pan1(p), Pan2>>, confirmed')
    BY <2>1 DEF TodoIs
  <2> QED BY <2>1, <2>2, Differ, BeginKept
<1>4. ASSUME NEW r \in Request, Profile!Fail(r) PROVE ProfileInv'
  <2>1. /\ todo' = [todo EXCEPT ![r] = << >>]
        /\ profile' = profile /\ confirmed' = confirmed /\ typed' = typed
    BY <1>4 DEF Profile!Fail
  <2>2. /\ DOMAIN todo' = Request /\ todo' = [q \in Request |-> todo'[q]]
        /\ \A q \in Request : todo'[q] = IF q = r THEN << >> ELSE todo[q]
    BY <2>1 DEF ProfileInv
  <2>3. TodoIs(<< >>, confirmed) /\ ~AfterNumber(<< >>) /\ ~AfterPan(<< >>)
    BY EmptySeq, Differ DEF TodoIs
  <2>4. \A q \in Request : /\ AfterNumber(todo'[q]) => AfterNumber(todo[q])
                           /\ AfterPan(todo'[q]) => AfterPan(todo[q])
                           /\ TodoIs(todo'[q], confirmed)
    BY <2>2, <2>3 DEF ProfileInv
  <2>5. Sourced(profile, typed)'
    BY <2>1 DEF ProfileInv, Sourced
  <2> QED BY <2>1, <2>2, <2>4, <2>5 DEF ProfileInv
<1> QED BY <1>1, <1>2, <1>3, <1>4, PatchKept, WriteKept DEF Profile!Next

\* Number and name of a verified citizen are of one card the service
\* confirmed, and so is a verified PAN, for any number of requests, whatever
\* their order and wherever they fail.
THEOREM VerifiedAlwaysAsConfirmed == MCSpec => []VerifiedAsConfirmed
<1>1. MCInit => ProfileInv
  BY InitProfile DEF MCInit
<1>2. ProfileInv /\ [MCNext]_<<vars, profileVars, registerVars, pageVars, beside>> => ProfileInv'
  BY NextProfile, ProfileSteps
<1>3. ProfileInv => VerifiedAsConfirmed
  BY DEF ProfileInv, Sourced, VerifiedAsConfirmed, Profile!VerifiedAsConfirmed
<1> QED BY <1>1, <1>2, <1>3, PTL DEF MCSpec

(***************************************************************************)
(* The page of documents.                                                  *)
(***************************************************************************)
Fetch(kind) == {c \in fetches : c.kind = kind}
OneFetch(kind) == \A c, d \in Fetch(kind) : c = d

FetchesTyped ==
  \A c \in fetches : /\ c = [kind |-> c.kind, at |-> c.at, answer |-> c.answer]
                     /\ c.kind = "upload" => c.at \in DocType

\* The rows of the unfolded type are there, or on their way.
HistoryNamed ==
  /\ OneFetch("versions")
  /\ \A c \in Fetch("versions") : /\ unfolding /\ expanded \in {None, c.at}
                                  /\ c.answer = None \/ c.answer.of = c.at
  /\ expanded # None /\ ~unfolding /\ versions # None => versions.of = expanded

PreviewNamed ==
  /\ OneFetch("preview")
  /\ \A c \in Fetch("preview") : preview.doc \in {None, c.at} /\ c.answer \in {None, c.at}
  /\ preview = [doc |-> preview.doc, blob |-> preview.blob]
  /\ preview.doc # None /\ preview.blob # None => preview.blob = preview.doc

\* What the page was told is stored.
ToldIsStored ==
  /\ store \in [DocType -> Nat] /\ told \in [DocType -> Nat]
  /\ \A t \in DocType : told[t] <= store[t]
  /\ \A c \in Fetch("upload") : c.answer = None \/ (c.answer \in Nat /\ c.answer <= store[c.at])

ListCovers ==
  /\ OneFetch("list")
  /\ \A c \in Fetch("list") : c.answer = None \/ \A t \in DocType : c.answer[t] >= told[t]
  /\ loading \/ failed \/ \A t \in DocType : documents[t] >= told[t]

DocumentsInv ==
  /\ FetchesTyped /\ ToldIsStored
  /\ "versions" \notin mixed => HistoryNamed
  /\ "preview" \notin mixed => PreviewNamed
  /\ "list" \notin mixed => ListCovers

LEMMA InitDocuments == Documents!Init => DocumentsInv
<1> SUFFICES ASSUME Documents!Init PROVE DocumentsInv
  OBVIOUS
<1> DEFINE c == [kind |-> "list", at |-> None, answer |-> None]
<1>1. fetches = {c} /\ c.kind = "list" /\ c.answer = None
  BY DEF Documents!Init, Documents!Call
<1>2. FetchesTyped
  BY <1>1 DEF FetchesTyped
<1> HIDE DEF c
<1>3. store \in [DocType -> Nat] /\ told \in [DocType -> Nat]
      /\ \A t \in DocType : told[t] <= store[t]
  BY DEF Documents!Init
<1>4. ToldIsStored
  BY <1>1, <1>3 DEF ToldIsStored, Fetch
<1>5. HistoryNamed
  BY <1>1 DEF HistoryNamed, Fetch, OneFetch, Documents!Init
<1>6. PreviewNamed
  BY <1>1 DEF PreviewNamed, Fetch, OneFetch, Documents!Init, Documents!Fresh
<1>7. ListCovers
  BY <1>1 DEF ListCovers, Fetch, OneFetch, Documents!Init
<1> QED BY <1>2, <1>4, <1>5, <1>6, <1>7 DEF DocumentsInv

LEMMA AskIs ==
  ASSUME NEW kind, NEW at, Documents!Ask(kind, at)
  PROVE  /\ fetches' = fetches \cup {Documents!Call(kind, at)}
         /\ \A k : k # kind => (k \in mixed' <=> k \in mixed)
         /\ kind \notin mixed' => kind \notin mixed /\ Fetch(kind) = {}
         /\ Documents!Call(kind, at).kind = kind /\ Documents!Call(kind, at).at = at
         /\ Documents!Call(kind, at).answer = None
         /\ Documents!Call(kind, at) = [kind |-> Documents!Call(kind, at).kind,
              at |-> Documents!Call(kind, at).at, answer |-> Documents!Call(kind, at).answer]
BY DEF Documents!Ask, Documents!Call, Fetch

LEMMA FetchesAfterAsk ==
  ASSUME NEW kind, NEW at, Documents!Ask(kind, at)
  PROVE  /\ \A k : k # kind => Fetch(k)' = Fetch(k)
         /\ kind \notin mixed' => Fetch(kind)' = {Documents!Call(kind, at)}
<1> DEFINE n == Documents!Call(kind, at)
<1>1. fetches' = fetches \cup {n} /\ n.kind = kind /\ (kind \notin mixed' => Fetch(kind) = {})
  BY AskIs
<1> HIDE DEF n
<1>2. \A k : k # kind => Fetch(k)' = Fetch(k)
  BY <1>1 DEF Fetch
<1>3. kind \notin mixed' => Fetch(kind)' = {n}
  BY <1>1 DEF Fetch
<1> QED BY <1>2, <1>3 DEF n

\* The server answers one of the fetches.
LEMMA ServeIs ==
  ASSUME FetchesTyped, NEW c \in fetches, Documents!Serve(c)
  PROVE  \E d : /\ fetches' = (fetches \ {c}) \cup {d} /\ c.answer = None
                /\ d.kind = c.kind /\ d.at = c.at /\ d.answer = Documents!Answered(c)
                /\ d = [kind |-> d.kind, at |-> d.at, answer |-> d.answer]
<1> DEFINE v == Documents!Answered(c)
           d == [c EXCEPT !.answer = v]
<1>1. fetches' = (fetches \ {c}) \cup {d} /\ c.answer = None
  BY DEF Documents!Serve
<1> HIDE DEF v
<1>2. c = [kind |-> c.kind, at |-> c.at, answer |-> c.answer]
  BY DEF FetchesTyped
<1>3. /\ d.kind = c.kind /\ d.at = c.at /\ d.answer = v
      /\ d = [kind |-> d.kind, at |-> d.at, answer |-> d.answer]
  BY <1>2
<1> HIDE DEF d
<1> QED BY <1>1, <1>3 DEF v

\* The kinds that a served or answered fetch is not of keep theirs.
LEMMA FetchesAfterServe ==
  ASSUME NEW c \in fetches, NEW d, fetches' = (fetches \ {c}) \cup {d}, d.kind = c.kind
  PROVE  /\ \A k : k # c.kind => Fetch(k)' = Fetch(k)
         /\ OneFetch(c.kind) => Fetch(c.kind)' = {d}
         /\ \A e \in Fetch(c.kind)' : e = d \/ e \in Fetch(c.kind)
BY DEF Fetch, OneFetch

LEMMA FetchesAfterAnswer ==
  ASSUME NEW c \in fetches, fetches' = fetches \ {c}
  PROVE  /\ \A k : k # c.kind => Fetch(k)' = Fetch(k)
         /\ OneFetch(c.kind) => Fetch(c.kind)' = {}
         /\ \A e \in Fetch(c.kind)' : e \in Fetch(c.kind)
BY DEF Fetch, OneFetch

\* An upload the page is told of asks for the list.
LEMMA FetchesAfterUpload ==
  ASSUME NEW c \in fetches, c.kind = "upload", NEW n, n.kind = "list",
         fetches' = (fetches \ {c}) \cup {n}
  PROVE  /\ \A k : k \notin {"upload", "list"} => Fetch(k)' = Fetch(k)
         /\ \A e \in Fetch("upload")' : e \in Fetch("upload")
         /\ Fetch("list") = {} => Fetch("list")' = {n}
BY DEF Fetch

(* The history that is unfolded. *)
LEMMA HistorySame ==
  ASSUME HistoryNamed, UNCHANGED <<expanded, versions, unfolding>>,
         Fetch("versions")' = Fetch("versions")
  PROVE  HistoryNamed'
BY DEF HistoryNamed, OneFetch

\* Clicks that ask for nothing.
LEMMA QuietIs ==
  ASSUME NEW t, Documents!GoOffline \/ Documents!ClosePreview \/ Documents!Cancel
                  \/ Documents!ClickUpload(t) \/ Documents!Drop(t)
  PROVE  /\ UNCHANGED <<fetches, mixed, store, told, documents, expanded, versions, unfolding>>
         /\ preview' = preview \/ preview' = [doc |-> None, blob |-> None]
         /\ UNCHANGED <<loading, failed>> \/ failed' = TRUE
BY DEF Documents!GoOffline, Documents!ClosePreview, Documents!Cancel, Documents!ClickUpload,
       Documents!Drop, Documents!list, Documents!history, Documents!Fresh

\* What a step asks for: one fetch, of a kind each.
LEMMA AskingIs ==
  /\ Documents!GoOnline =>
       /\ Documents!Ask("list", None) /\ loading' = TRUE /\ failed' = FALSE
       /\ UNCHANGED <<store, told, documents, expanded, versions, unfolding, preview>>
  /\ \A d : Documents!ClickPreview(d) =>
       /\ Documents!Ask("preview", d) /\ preview' = [doc |-> d, blob |-> None]
       /\ UNCHANGED <<store, told, documents, loading, failed, expanded, versions, unfolding>>
  /\ \A t : Documents!Confirm(t) =>
       /\ Documents!Ask("upload", t)
       /\ UNCHANGED <<store, told, documents, loading, failed, expanded, versions, unfolding,
                      preview>>
  /\ \A t : Documents!ClickHistory(t) =>
       /\ UNCHANGED <<store, told, documents, loading, failed, versions, preview>>
       /\ \/ expanded' = None /\ UNCHANGED <<unfolding, fetches, mixed>>
          \/ expanded' = t /\ unfolding' = TRUE /\ Documents!Ask("versions", t)
BY DEF Documents!GoOnline, Documents!ClickPreview, Documents!Confirm, Documents!ClickHistory,
       Documents!list, Documents!history, Documents!Unfold

LEMMA ServeElse ==
  ASSUME NEW c, Documents!Serve(c)
  PROVE  UNCHANGED <<told, documents, loading, failed, expanded, versions, unfolding, preview,
                     mixed>>
BY DEF Documents!Serve, Documents!list, Documents!history

LEMMA HistoryKept ==
  ASSUME DocumentsInv, Documents!Next, "versions" \notin mixed'
  PROVE  HistoryNamed'
<1>1. ASSUME NEW t, Documents!GoOffline \/ Documents!ClosePreview \/ Documents!Cancel
                      \/ Documents!ClickUpload(t) \/ Documents!Drop(t)
      PROVE  HistoryNamed'
  <2>1. UNCHANGED <<fetches, mixed, expanded, versions, unfolding>>
    BY <1>1, QuietIs
  <2>2. Fetch("versions")' = Fetch("versions")
    BY <2>1 DEF Fetch
  <2> QED BY <2>1, <2>2, HistorySame DEF DocumentsInv
<1>2. ASSUME NEW d, Documents!GoOnline \/ Documents!ClickPreview(d) \/ Documents!Confirm(d)
      PROVE  HistoryNamed'
  <2>1. PICK k \in {"list", "preview", "upload"} : \E at : Documents!Ask(k, at)
    BY <1>2, AskingIs
  <2>2. Fetch("versions")' = Fetch("versions") /\ ("versions" \in mixed' <=> "versions" \in mixed)
    BY <2>1, FetchesAfterAsk, AskIs
  <2>3. UNCHANGED <<expanded, versions, unfolding>>
    BY <1>2, AskingIs
  <2> QED BY <2>2, <2>3, HistorySame DEF DocumentsInv
<1>3. ASSUME NEW t \in DocType, Documents!ClickHistory(t) PROVE HistoryNamed'
  <2>1. CASE expanded' = None /\ UNCHANGED <<unfolding, fetches, mixed>>
    BY <1>3, <2>1, AskingIs DEF DocumentsInv, HistoryNamed, OneFetch, Fetch
  <2>2. CASE expanded' = t /\ unfolding' = TRUE /\ Documents!Ask("versions", t)
    <3> DEFINE n == Documents!Call("versions", t)
    <3>1. Fetch("versions")' = {n} /\ n.at = t /\ n.answer = None
      BY <2>2, FetchesAfterAsk, AskIs
    <3> HIDE DEF n
    <3> QED BY <2>2, <3>1 DEF HistoryNamed, OneFetch
  <2> QED BY <1>3, <2>1, <2>2, AskingIs
<1>4. ASSUME NEW c \in fetches, Documents!Serve(c) PROVE HistoryNamed'
  <2>1. PICK d : /\ fetches' = (fetches \ {c}) \cup {d} /\ c.answer = None
                 /\ d.kind = c.kind /\ d.at = c.at /\ d.answer = Documents!Answered(c)
    BY <1>4, ServeIs DEF DocumentsInv
  <2>2. UNCHANGED <<expanded, versions, unfolding, mixed>>
    BY <1>4, ServeElse
  <2>3. CASE c.kind # "versions"
    BY <2>1, <2>2, <2>3, FetchesAfterServe, HistorySame DEF DocumentsInv
  <2>4. CASE c.kind = "versions"
    <3>1. HistoryNamed /\ c \in Fetch("versions")
      BY <2>2, <2>4 DEF DocumentsInv, Fetch
    <3>2. Fetch("versions")' = {d}
      BY <2>1, <2>4, <3>1, FetchesAfterServe DEF HistoryNamed
    <3>3. d.answer.of = c.at
      BY <2>1, <2>4 DEF Documents!Answered
    <3> QED BY <2>1, <2>2, <3>1, <3>2, <3>3 DEF HistoryNamed, OneFetch
  <2> QED BY <2>3, <2>4
<1>5. ASSUME NEW c \in fetches, NEW lost \in BOOLEAN, lost \/ c.answer # None,
             Documents!Handle(c, lost)
      PROVE  HistoryNamed'
  <2>1. CASE Documents!AnswerList(c, lost) \/ Documents!AnswerPreview(c, lost)
    <3>1. fetches' = fetches \ {c} /\ c.kind # "versions"
          /\ UNCHANGED <<expanded, versions, unfolding, mixed>>
      BY <2>1 DEF Documents!AnswerList, Documents!AnswerPreview, Documents!history
    <3> QED BY <3>1, FetchesAfterAnswer, HistorySame DEF DocumentsInv
  <2>2. CASE Documents!AnswerUpload(c, lost)
    <3>1. UNCHANGED <<expanded, versions, unfolding>> /\ c.kind = "upload"
          /\ ("versions" \in mixed => "versions" \in mixed')
      BY <2>2 DEF Documents!AnswerUpload, Documents!history
    <3>2. fetches' = fetches \ {c} \/ fetches' = (fetches \ {c}) \cup {Documents!Call("list", c.at)}
      BY <2>2 DEF Documents!AnswerUpload
    <3>3. Documents!Call("list", c.at).kind = "list"
      BY DEF Documents!Call
    <3>4. Fetch("versions")' = Fetch("versions")
      BY <3>1, <3>2, <3>3, FetchesAfterAnswer, FetchesAfterUpload
    <3> QED BY <3>1, <3>4, HistorySame DEF DocumentsInv
  <2>3. CASE Documents!AnswerVersions(c, lost)
    <3>1. /\ c.kind = "versions" /\ fetches' = fetches \ {c} /\ unfolding' = FALSE
          /\ versions' = (IF lost THEN None ELSE c.answer) /\ expanded' = expanded
          /\ mixed' = mixed
      BY <2>3 DEF Documents!AnswerVersions
    <3>2. HistoryNamed /\ c \in Fetch("versions")
      BY <3>1 DEF DocumentsInv, Fetch
    <3>3. Fetch("versions")' = {}
      BY <3>1, <3>2, FetchesAfterAnswer DEF HistoryNamed
    <3> QED BY <1>5, <3>1, <3>2, <3>3 DEF HistoryNamed, OneFetch
  <2> QED BY <1>5, <2>1, <2>2, <2>3 DEF Documents!Handle
<1> QED BY <1>1, <1>2, <1>3, <1>4, <1>5 DEF Documents!Next, Documents!Answer, Documents!Lose

(* The preview. *)
LEMMA PreviewKept ==
  ASSUME DocumentsInv, Documents!Next, "preview" \notin mixed'
  PROVE  PreviewNamed'
<1>0. ASSUME PreviewNamed, Fetch("preview")' = Fetch("preview"),
             preview' = preview \/ preview' = [doc |-> None, blob |-> None]
      PROVE  PreviewNamed'
  <2>1. CASE preview' = preview
    BY <1>0, <2>1 DEF PreviewNamed, OneFetch
  <2>2. CASE preview' = [doc |-> None, blob |-> None]
    BY <1>0, <2>2 DEF PreviewNamed, OneFetch
  <2> QED BY <1>0, <2>1, <2>2
<1>1. ASSUME NEW t, Documents!GoOffline \/ Documents!ClosePreview \/ Documents!Cancel
                      \/ Documents!ClickUpload(t) \/ Documents!Drop(t)
      PROVE  PreviewNamed'
  <2>1. UNCHANGED <<fetches, mixed>>
        /\ (preview' = preview \/ preview' = [doc |-> None, blob |-> None])
    BY <1>1, QuietIs
  <2>2. Fetch("preview")' = Fetch("preview")
    BY <2>1 DEF Fetch
  <2> QED BY <2>1, <2>2, <1>0 DEF DocumentsInv
<1>2. ASSUME NEW d, Documents!GoOnline \/ Documents!Confirm(d) \/ Documents!ClickHistory(d)
      PROVE  PreviewNamed'
  <2>1. \/ fetches' = fetches /\ mixed' = mixed
        \/ \E k \in {"list", "upload", "versions"} : \E at : Documents!Ask(k, at)
    BY <1>2, AskingIs
  <2>2. Fetch("preview")' = Fetch("preview") /\ ("preview" \in mixed' <=> "preview" \in mixed)
    BY <2>1, FetchesAfterAsk, AskIs DEF Fetch
  <2>3. preview' = preview
    BY <1>2, AskingIs
  <2> QED BY <2>2, <2>3, <1>0 DEF DocumentsInv
<1>3. ASSUME NEW d, Documents!ClickPreview(d) PROVE PreviewNamed'
  <2> DEFINE n == Documents!Call("preview", d)
  <2>1. Fetch("preview")' = {n} /\ n.at = d /\ n.answer = None
    BY <1>3, AskingIs, FetchesAfterAsk, AskIs
  <2>2. preview' = [doc |-> d, blob |-> None]
    BY <1>3, AskingIs
  <2> HIDE DEF n
  <2> QED BY <2>1, <2>2 DEF PreviewNamed, OneFetch
<1>4. ASSUME NEW c \in fetches, Documents!Serve(c) PROVE PreviewNamed'
  <2>1. PICK d : /\ fetches' = (fetches \ {c}) \cup {d} /\ c.answer = None
                 /\ d.kind = c.kind /\ d.at = c.at /\ d.answer = Documents!Answered(c)
    BY <1>4, ServeIs DEF DocumentsInv
  <2>2. UNCHANGED <<preview, mixed>>
    BY <1>4, ServeElse
  <2>3. CASE c.kind # "preview"
    BY <2>1, <2>2, <2>3, FetchesAfterServe, <1>0 DEF DocumentsInv
  <2>4. CASE c.kind = "preview"
    <3>1. PreviewNamed /\ c \in Fetch("preview")
      BY <2>2, <2>4 DEF DocumentsInv, Fetch
    <3>2. Fetch("preview")' = {d}
      BY <2>1, <2>4, <3>1, FetchesAfterServe DEF PreviewNamed
    <3>3. d.answer = c.at
      BY <2>1, <2>4 DEF Documents!Answered
    <3> QED BY <2>1, <2>2, <3>1, <3>2, <3>3 DEF PreviewNamed, OneFetch
  <2> QED BY <2>3, <2>4
<1>5. ASSUME NEW c \in fetches, NEW lost \in BOOLEAN, lost \/ c.answer # None,
             Documents!Handle(c, lost)
      PROVE  PreviewNamed'
  <2>1. CASE Documents!AnswerList(c, lost) \/ Documents!AnswerVersions(c, lost)
    <3>1. fetches' = fetches \ {c} /\ c.kind # "preview" /\ UNCHANGED <<preview, mixed>>
      BY <2>1 DEF Documents!AnswerList, Documents!AnswerVersions
    <3> QED BY <3>1, FetchesAfterAnswer, <1>0 DEF DocumentsInv
  <2>2. CASE Documents!AnswerUpload(c, lost)
    <3>1. UNCHANGED preview /\ c.kind = "upload" /\ ("preview" \in mixed => "preview" \in mixed')
      BY <2>2 DEF Documents!AnswerUpload
    <3>2. fetches' = fetches \ {c} \/ fetches' = (fetches \ {c}) \cup {Documents!Call("list", c.at)}
      BY <2>2 DEF Documents!AnswerUpload
    <3>3. Documents!Call("list", c.at).kind = "list"
      BY DEF Documents!Call
    <3>4. Fetch("preview")' = Fetch("preview")
      BY <3>1, <3>2, <3>3, FetchesAfterAnswer, FetchesAfterUpload
    <3> QED BY <3>1, <3>4, <1>0 DEF DocumentsInv
  <2>3. CASE Documents!AnswerPreview(c, lost)
    <3>1. /\ c.kind = "preview" /\ fetches' = fetches \ {c} /\ mixed' = mixed
          /\ preview' = (IF lost THEN preview ELSE [preview EXCEPT !.blob = c.answer])
      BY <2>3 DEF Documents!AnswerPreview
    <3>2. PreviewNamed /\ c \in Fetch("preview")
      BY <3>1 DEF DocumentsInv, Fetch
    <3>3. Fetch("preview")' = {}
      BY <3>1, <3>2, FetchesAfterAnswer DEF PreviewNamed
    <3>4. preview.doc \in {None, c.at} /\ (lost \/ c.answer = c.at)
      BY <1>5, <3>2 DEF PreviewNamed
    <3>5. \/ preview' = preview
          \/ preview' = [doc |-> preview.doc, blob |-> c.answer] /\ c.answer = c.at
      BY <3>1, <3>2, <3>4 DEF PreviewNamed
    <3>6. CASE preview' = preview
      BY <3>2, <3>3, <3>6 DEF PreviewNamed, OneFetch
    <3>7. CASE preview' = [doc |-> preview.doc, blob |-> c.answer] /\ c.answer = c.at
      BY <3>3, <3>4, <3>7 DEF PreviewNamed, OneFetch
    <3> QED BY <3>5, <3>6, <3>7
  <2> QED BY <1>5, <2>1, <2>2, <2>3 DEF Documents!Handle
<1> QED BY <1>1, <1>2, <1>3, <1>4, <1>5 DEF Documents!Next, Documents!Answer, Documents!Lose

(* The list. *)
LEMMA ToldKept ==
  ASSUME DocumentsInv, Documents!Next
  PROVE  ToldIsStored' /\ FetchesTyped'
<1>0. \A k, at : LET n == Documents!Call(k, at)
                 IN  n.kind = k /\ n.at = at /\ n.answer = None
                     /\ n = [kind |-> n.kind, at |-> n.at, answer |-> n.answer]
  BY DEF Documents!Call
<1>1. ASSUME UNCHANGED <<store, told>>, fetches' \subseteq fetches
      PROVE  ToldIsStored' /\ FetchesTyped'
  BY <1>1 DEF DocumentsInv, ToldIsStored, FetchesTyped, Fetch
<1>2. ASSUME UNCHANGED <<store, told>>, NEW k, NEW at, Documents!Ask(k, at),
             k = "upload" => at \in DocType
      PROVE  ToldIsStored' /\ FetchesTyped'
  <2> DEFINE n == Documents!Call(k, at)
  <2>1. fetches' = fetches \cup {n} /\ n.kind = k /\ n.at = at /\ n.answer = None
        /\ n = [kind |-> n.kind, at |-> n.at, answer |-> n.answer]
    BY <1>0, <1>2, AskIs
  <2> HIDE DEF n
  <2> QED BY <1>2, <2>1 DEF DocumentsInv, ToldIsStored, FetchesTyped, Fetch
<1>3. ASSUME NEW t, Documents!GoOffline \/ Documents!ClosePreview \/ Documents!Cancel
                      \/ Documents!ClickUpload(t) \/ Documents!Drop(t)
      PROVE  ToldIsStored' /\ FetchesTyped'
  BY <1>1, <1>3, QuietIs
<1>4. ASSUME NEW d, Documents!GoOnline \/ Documents!ClickPreview(d)
      PROVE  ToldIsStored' /\ FetchesTyped'
  BY <1>2, <1>4, AskingIs
<1>5. ASSUME NEW t \in DocType, Documents!Confirm(t) \/ Documents!ClickHistory(t)
      PROVE  ToldIsStored' /\ FetchesTyped'
  BY <1>1, <1>2, <1>5, AskingIs
<1>6. ASSUME NEW c \in fetches, Documents!Serve(c)
      PROVE  ToldIsStored' /\ FetchesTyped'
  <2>1. PICK d : /\ fetches' = (fetches \ {c}) \cup {d} /\ c.answer = None
                 /\ d.kind = c.kind /\ d.at = c.at /\ d.answer = Documents!Answered(c)
                 /\ d = [kind |-> d.kind, at |-> d.at, answer |-> d.answer]
    BY <1>6, ServeIs DEF DocumentsInv
  <2>2. FetchesTyped'
    BY <2>1 DEF DocumentsInv, FetchesTyped
  <2>3. told' = told
    BY <1>6, ServeElse
  <2>4. CASE c.kind # "upload"
    <3>1. store' = store
      BY <1>6, <2>4 DEF Documents!Serve
    <3>2. Fetch("upload")' = Fetch("upload")
      BY <2>1, <2>4, FetchesAfterServe
    <3> QED BY <2>2, <2>3, <3>1, <3>2 DEF DocumentsInv, ToldIsStored
  <2>5. CASE c.kind = "upload"
    <3>1. /\ store' = [store EXCEPT ![c.at] = @ + 1] /\ c.at \in DocType
          /\ d.answer = store[c.at] + 1
      BY <1>6, <2>1, <2>5 DEF Documents!Serve, Documents!Answered, DocumentsInv, FetchesTyped
    <3>2. /\ store' \in [DocType -> Nat] /\ store'[c.at] = store[c.at] + 1
          /\ \A t \in DocType : store'[t] \in Nat /\ store[t] \in Nat /\ store[t] <= store'[t]
      BY <3>1 DEF DocumentsInv, ToldIsStored
    <3>3. \A t \in DocType : told[t] \in Nat /\ told[t] <= store[t]
      BY DEF DocumentsInv, ToldIsStored
    <3>4. \A t \in DocType : told'[t] <= store'[t]
      BY <2>3, <3>2, <3>3
    <3>5. ASSUME NEW e \in Fetch("upload")'
          PROVE  e.answer = None \/ (e.answer \in Nat /\ e.answer <= store'[e.at])
      <4>1. CASE e = d
        BY <2>1, <3>1, <3>2, <4>1
      <4>2. CASE e \in Fetch("upload")
        <5>1. e.at \in DocType /\ (e.answer = None \/ (e.answer \in Nat /\ e.answer <= store[e.at]))
          BY <4>2 DEF DocumentsInv, ToldIsStored, FetchesTyped, Fetch
        <5> QED BY <3>2, <5>1
      <4> QED BY <2>1, <2>5, <3>5, <4>1, <4>2, FetchesAfterServe
    <3> QED BY <2>2, <2>3, <3>2, <3>4, <3>5 DEF ToldIsStored, DocumentsInv
  <2> QED BY <2>4, <2>5
<1>7. ASSUME NEW c \in fetches, NEW lost \in BOOLEAN, lost \/ c.answer # None,
             Documents!Handle(c, lost)
      PROVE  ToldIsStored' /\ FetchesTyped'
  <2>1. store' = store
    BY <1>7 DEF Documents!Handle
  <2>2. CASE Documents!AnswerList(c, lost) \/ Documents!AnswerVersions(c, lost)
               \/ Documents!AnswerPreview(c, lost) \/ (lost /\ Documents!AnswerUpload(c, lost))
    <3>1. told' = told /\ fetches' \subseteq fetches
      BY <2>2 DEF Documents!AnswerList, Documents!AnswerVersions, Documents!AnswerPreview,
                  Documents!AnswerUpload
    <3> QED BY <1>1, <2>1, <3>1
  <2>3. CASE ~lost /\ Documents!AnswerUpload(c, lost)
    <3> DEFINE n == Documents!Call("list", c.at)
    <3>1. /\ fetches' = (fetches \ {c}) \cup {n} /\ told' = [told EXCEPT ![c.at] = c.answer]
          /\ c.kind = "upload"
      BY <2>3 DEF Documents!AnswerUpload
    <3>2. n.kind = "list" /\ n = [kind |-> n.kind, at |-> n.at, answer |-> n.answer]
      BY <1>0
    <3> HIDE DEF n
    <3>3. c.at \in DocType /\ c.answer \in Nat /\ c.answer <= store[c.at]
      BY <1>7, <2>3, <3>1 DEF DocumentsInv, ToldIsStored, FetchesTyped, Fetch
    <3>4. FetchesTyped'
      BY <3>1, <3>2 DEF DocumentsInv, FetchesTyped
    <3>5. told' \in [DocType -> Nat] /\ \A t \in DocType : told'[t] <= store[t]
      BY <3>1, <3>3 DEF DocumentsInv, ToldIsStored
    <3>6. \A e \in Fetch("upload")' : e \in Fetch("upload")
      BY <3>1, <3>2, FetchesAfterUpload
    <3>7. ToldIsStored'
      BY <2>1, <3>5, <3>6 DEF DocumentsInv, ToldIsStored
    <3> QED BY <3>4, <3>7
  <2> QED BY <1>7, <2>2, <2>3 DEF Documents!Handle
<1> QED BY <1>3, <1>4, <1>5, <1>6, <1>7 DEF Documents!Next, Documents!Answer, Documents!Lose

LEMMA ListKept ==
  ASSUME DocumentsInv, Documents!Next, "list" \notin mixed'
  PROVE  ListCovers'
<1>0. ASSUME ListCovers, Fetch("list")' = Fetch("list"), UNCHANGED <<told, documents>>,
             UNCHANGED <<loading, failed>> \/ failed' = TRUE
      PROVE  ListCovers'
  BY <1>0 DEF ListCovers, OneFetch
<1>1. ASSUME NEW t, Documents!GoOffline \/ Documents!ClosePreview \/ Documents!Cancel
                      \/ Documents!ClickUpload(t) \/ Documents!Drop(t)
      PROVE  ListCovers'
  <2>1. UNCHANGED <<fetches, mixed, told, documents>>
        /\ (UNCHANGED <<loading, failed>> \/ failed' = TRUE)
    BY <1>1, QuietIs
  <2>2. Fetch("list")' = Fetch("list")
    BY <2>1 DEF Fetch
  <2> QED BY <2>1, <2>2, <1>0 DEF DocumentsInv
<1>2. ASSUME NEW d, Documents!ClickPreview(d) \/ Documents!Confirm(d) \/ Documents!ClickHistory(d)
      PROVE  ListCovers'
  <2>1. \/ fetches' = fetches /\ mixed' = mixed
        \/ \E k \in {"preview", "upload", "versions"} : \E at : Documents!Ask(k, at)
    BY <1>2, AskingIs
  <2>2. Fetch("list")' = Fetch("list") /\ ("list" \in mixed' <=> "list" \in mixed)
    BY <2>1, FetchesAfterAsk, AskIs DEF Fetch
  <2>3. UNCHANGED <<told, documents, loading, failed>>
    BY <1>2, AskingIs
  <2> QED BY <2>2, <2>3, <1>0 DEF DocumentsInv
<1>3. CASE Documents!GoOnline
  <2> DEFINE n == Documents!Call("list", None)
  <2>1. Fetch("list")' = {n} /\ n.answer = None
    BY <1>3, AskingIs, FetchesAfterAsk, AskIs
  <2>2. loading' = TRUE
    BY <1>3, AskingIs
  <2> HIDE DEF n
  <2> QED BY <2>1, <2>2 DEF ListCovers, OneFetch
<1>4. ASSUME NEW c \in fetches, Documents!Serve(c) PROVE ListCovers'
  <2>1. PICK d : /\ fetches' = (fetches \ {c}) \cup {d} /\ c.answer = None
                 /\ d.kind = c.kind /\ d.at = c.at /\ d.answer = Documents!Answered(c)
    BY <1>4, ServeIs DEF DocumentsInv
  <2>2. UNCHANGED <<told, documents, loading, failed, mixed>>
    BY <1>4, ServeElse
  <2>3. CASE c.kind # "list"
    BY <2>1, <2>2, <2>3, FetchesAfterServe, <1>0 DEF DocumentsInv
  <2>4. CASE c.kind = "list"
    <3>1. ListCovers /\ c \in Fetch("list")
      BY <2>2, <2>4 DEF DocumentsInv, Fetch
    <3>2. Fetch("list")' = {d}
      BY <2>1, <2>4, <3>1, FetchesAfterServe DEF ListCovers
    <3>3. d.answer = store
      BY <2>1, <2>4 DEF Documents!Answered
    <3>4. \A t \in DocType : store[t] >= told[t]
      BY DEF DocumentsInv, ToldIsStored
    <3> QED BY <2>1, <2>2, <3>1, <3>2, <3>3, <3>4 DEF ListCovers, OneFetch
  <2> QED BY <2>3, <2>4
<1>5. ASSUME NEW c \in fetches, NEW lost \in BOOLEAN, lost \/ c.answer # None,
             Documents!Handle(c, lost)
      PROVE  ListCovers'
  <2>1. CASE Documents!AnswerVersions(c, lost) \/ Documents!AnswerPreview(c, lost)
    <3>1. fetches' = fetches \ {c} /\ c.kind # "list"
          /\ UNCHANGED <<told, documents, loading, failed, mixed>>
      BY <2>1 DEF Documents!AnswerPreview, Documents!AnswerVersions, Documents!list
    <3> QED BY <3>1, FetchesAfterAnswer, <1>0 DEF DocumentsInv
  <2>2. CASE Documents!AnswerUpload(c, lost)
    <3>1. CASE lost
      <4>1. fetches' = fetches \ {c} /\ c.kind = "upload" /\ failed' = TRUE
            /\ UNCHANGED <<told, documents, mixed>>
        BY <2>2, <3>1 DEF Documents!AnswerUpload
      <4> QED BY <4>1, FetchesAfterAnswer, <1>0 DEF DocumentsInv
    <3>2. CASE ~lost
      <4> DEFINE n == Documents!Call("list", c.at)
      <4>1. /\ fetches' = (fetches \ {c}) \cup {n} /\ c.kind = "upload" /\ loading' = TRUE
            /\ mixed' = IF \E k \in fetches : k.kind = "list" THEN mixed \cup {"list"} ELSE mixed
        BY <2>2, <3>2 DEF Documents!AnswerUpload
      <4>2. n.kind = "list" /\ n.answer = None
        BY DEF Documents!Call
      <4> HIDE DEF n
      <4>3. Fetch("list") = {}
        BY <4>1 DEF Fetch
      <4>4. Fetch("list")' = {n}
        BY <4>1, <4>2, <4>3, FetchesAfterUpload
      <4> QED BY <4>1, <4>2, <4>4 DEF ListCovers, OneFetch
    <3> QED BY <3>1, <3>2
  <2>3. CASE Documents!AnswerList(c, lost)
    <3>1. /\ c.kind = "list" /\ fetches' = fetches \ {c} /\ UNCHANGED <<mixed, told>>
          /\ failed' = TRUE \/ documents' = c.answer
      BY <2>3 DEF Documents!AnswerList
    <3>2. ListCovers /\ c \in Fetch("list")
      BY <3>1 DEF DocumentsInv, Fetch
    <3>3. Fetch("list")' = {}
      BY <3>1, <3>2, FetchesAfterAnswer DEF ListCovers
    <3>4. lost => failed' = TRUE
      BY <2>3 DEF Documents!AnswerList
    <3> QED BY <1>5, <3>1, <3>2, <3>3, <3>4 DEF ListCovers, OneFetch
  <2> QED BY <1>5, <2>1, <2>2, <2>3 DEF Documents!Handle
<1> QED BY <1>1, <1>2, <1>3, <1>4, <1>5 DEF Documents!Next, Documents!Answer, Documents!Lose

LEMMA NextDocuments == DocumentsInv /\ (Documents!Next \/ UNCHANGED documentVars) => DocumentsInv'
<1>1. ASSUME DocumentsInv, Documents!Next PROVE DocumentsInv'
  BY <1>1, HistoryKept, PreviewKept, ToldKept, ListKept DEF DocumentsInv
<1>2. ASSUME DocumentsInv, UNCHANGED documentVars PROVE DocumentsInv'
  <2>1. /\ UNCHANGED <<store, told, documents, loading, failed, expanded, versions, unfolding,
                       preview, mixed, fetches>>
    BY <1>2 DEF documentVars
  <2>2. \A k : Fetch(k)' = Fetch(k)
    BY <2>1 DEF Fetch
  <2>3. FetchesTyped' <=> FetchesTyped
    BY <2>1 DEF FetchesTyped
  <2>4. ToldIsStored' <=> ToldIsStored
    BY <2>1, <2>2 DEF ToldIsStored
  <2>5. /\ HistoryNamed => HistoryNamed'
        /\ PreviewNamed => PreviewNamed'
        /\ ListCovers => ListCovers'
    BY <2>1, <2>2 DEF HistoryNamed, PreviewNamed, ListCovers, OneFetch
  <2> QED BY <1>2, <2>1, <2>3, <2>4, <2>5 DEF DocumentsInv
<1> QED BY <1>1, <1>2

\* A history is of the document it unfolds under and a preview of the document
\* in its title, and a list without an error shows every upload the page was
\* told of, for any number of types and calls, in any order and whatever is
\* lost, unless the same was asked again while it was under way.
THEOREM DocumentsAlwaysShownAsNamed == MCSpec => []DocumentsShownAsNamed
<1>1. MCInit => DocumentsInv
  BY InitDocuments DEF MCInit
<1>2. DocumentsInv /\ [MCNext]_<<vars, profileVars, registerVars, pageVars, beside>> => DocumentsInv'
  BY NextDocuments, DocumentSteps DEF pageVars
<1>3. DocumentsInv => DocumentsShownAsNamed
  BY DEF DocumentsInv, HistoryNamed, PreviewNamed, ListCovers, DocumentsShownAsNamed,
         Documents!ShowsWhatItNames
<1> QED BY <1>1, <1>2, <1>3, PTL DEF MCSpec

(***************************************************************************)
(* The page of the profile.                                                *)
(***************************************************************************)
\* A field that a request under way is about to bring, or to save.
Covered(f) == \E c \in requests : f \in c.fields

IsRequest(c) ==
  c = [kind |-> c.kind, fields |-> c.fields, row |-> c.row, typed |-> c.typed,
       answer |-> c.answer, cards |-> c.cards]

\* What is asked belongs to the page that is open, and what it saves and
\* nobody typed is what is stored.
RequestFits(c) ==
  /\ IsRequest(c) /\ c.kind \in {"load", "complete", "save"} \cup Person!CardKind
  /\ c.answer \in {None, stored} /\ c.cards \subseteq cards
  /\ c.kind = "load" => c.fields = {}
  /\ c.kind \in Person!CardKind =>
       /\ Person!Wizard /\ c.fields = Person!Brings(c.kind) /\ c.kind \notin verification
       /\ c.answer # None => verification \cup {c.kind} \subseteq c.cards
  /\ c.kind = "complete" => Person!Wizard /\ saving /\ c.fields = {"contact", "address"}
  /\ c.kind = "save" => view = "editor" /\ saving /\ c.fields = {"name", "pan", "contact"}
  /\ c.kind \in {"complete", "save"} => \A f \in c.fields \ c.typed : c.row[f] = stored[f]

DraftCurrent == \A f \in Person!Field \ touched : draft[f] = stored[f] \/ Covered(f)

\* App's copies are current, or the wizard knows of a card that App does not.
CopiesCurrent ==
  /\ view = "other" => shown = stored
  /\ view = "profile" => /\ verification \subseteq verified
                         /\ shown = stored \/ verified # verification \/ requests # {}
  /\ view = "editor" => \A f \in Person!Field : shown[f] = stored[f] \/ Covered(f)

RowsTyped ==
  /\ stored = [f \in Person!Field |-> stored[f]] /\ shown = [f \in Person!Field |-> shown[f]]
  /\ draft = [f \in Person!Field |-> draft[f]]

PersonKept ==
  /\ RowsTyped /\ reverted = {} /\ verification \subseteq cards
  /\ \A c, d \in requests : c = d
  /\ \A c \in requests : RequestFits(c)
  /\ CopiesCurrent
  /\ view = "editor" \/ Person!Wizard => DraftCurrent

PersonInv == ~overlapped => PersonKept

LEMMA Kinds ==
  /\ "load" \notin Person!CardKind /\ "complete" \notin Person!CardKind
  /\ "save" \notin Person!CardKind
  /\ {"name", "pan", "contact", "address"} = Person!Field
BY DEF Person!CardKind, Person!Field

LEMMA CallIsRequest ==
  ASSUME NEW kind, NEW fields
  PROVE  /\ IsRequest(Person!Call(kind, fields))
         /\ Person!Call(kind, fields).kind = kind /\ Person!Call(kind, fields).fields = fields
         /\ Person!Call(kind, fields).row = draft /\ Person!Call(kind, fields).typed = touched
         /\ Person!Call(kind, fields).answer = None /\ Person!Call(kind, fields).cards = {}
BY DEF IsRequest, Person!Call

LEMMA InitPerson == Person!Init => PersonInv
<1> SUFFICES ASSUME Person!Init PROVE PersonKept
  BY DEF PersonInv
<1> DEFINE n == Person!Call("load", {})
<1>1. /\ IsRequest(n) /\ n.kind = "load" /\ n.fields = {} /\ n.answer = None /\ n.cards = {}
  BY CallIsRequest
<1>2. /\ requests = {n} /\ stored = Person!Empty /\ shown = Person!Empty /\ draft = Person!Empty
      /\ reverted = {} /\ verification = {} /\ cards = {} /\ view = "other"
  BY DEF Person!Init
<1> HIDE DEF n
<1>3. RowsTyped
  BY <1>2 DEF RowsTyped, Person!Empty
<1>4. \A c \in requests : RequestFits(c)
  BY <1>1, <1>2, Kinds DEF RequestFits
<1>5. ~Person!Wizard
  BY <1>2 DEF Person!Wizard
<1> QED BY <1>2, <1>3, <1>4, <1>5 DEF PersonKept, CopiesCurrent

\* The one request a step asks for.
LEMMA PersonAsks ==
  ASSUME NEW kind, NEW fields, Person!Ask(kind, fields), ~overlapped'
  PROVE  ~overlapped /\ requests = {} /\ requests' = {Person!Call(kind, fields)}
BY DEF Person!Ask

LEMMA LoadPersonKept ==
  ASSUME PersonKept, Person!Load, ~overlapped' PROVE PersonKept'
<1> DEFINE n == Person!Call("load", {})
<1>1. /\ requests = {} /\ requests' = {n} /\ view = "other"
      /\ UNCHANGED <<stored, cards, shown, verification, view, draft, verified, touched, saving,
                     reverted>>
  BY PersonAsks DEF Person!Load, Person!app, Person!editing
<1>2. IsRequest(n) /\ n.kind = "load" /\ n.fields = {} /\ n.answer = None /\ n.cards = {}
  BY CallIsRequest
<1> HIDE DEF n
<1>3. \A c \in requests' : RequestFits(c)'
  BY <1>1, <1>2, Kinds DEF RequestFits, IsRequest
<1>4. CopiesCurrent' /\ RowsTyped'
  BY <1>1 DEF PersonKept, CopiesCurrent, RowsTyped
<1>5. ~Person!Wizard' /\ view' # "editor"
  BY <1>1 DEF Person!Wizard
<1> QED BY <1>1, <1>3, <1>4, <1>5 DEF PersonKept

LEMMA OpenProfileKept ==
  ASSUME PersonKept, Person!OpenProfile PROVE PersonKept'
<1>1. /\ view = "other" /\ view' = "profile" /\ draft' = shown /\ verified' = verification
      /\ UNCHANGED <<stored, cards, shown, verification, saving, requests, reverted>>
  BY DEF Person!OpenProfile, Person!app
<1>2. shown = stored
  BY <1>1 DEF PersonKept, CopiesCurrent
<1>3. \A c \in requests : RequestFits(c)'
  BY <1>1 DEF PersonKept, RequestFits, Person!Wizard, IsRequest
<1>4. CopiesCurrent' /\ RowsTyped' /\ DraftCurrent'
  BY <1>1, <1>2 DEF PersonKept, CopiesCurrent, RowsTyped, DraftCurrent
<1> QED BY <1>1, <1>3, <1>4 DEF PersonKept

LEMMA SkipKept ==
  ASSUME PersonKept, Person!Skip, ~overlapped' PROVE PersonKept'
<1>1. /\ view = "profile" /\ view' = "other" /\ verified = verification /\ requests = {}
      /\ UNCHANGED <<stored, cards, shown, verification, draft, requests, reverted>>
  BY DEF Person!Skip, Person!app, Person!editing
<1>2. shown = stored
  BY <1>1 DEF PersonKept, CopiesCurrent
<1>3. CopiesCurrent' /\ RowsTyped' /\ ~Person!Wizard'
  BY <1>1, <1>2 DEF PersonKept, CopiesCurrent, RowsTyped, Person!Wizard
<1> QED BY <1>1, <1>3 DEF PersonKept

LEMMA ReVerifyKept ==
  ASSUME PersonKept, NEW k, Person!ReVerify(k) PROVE PersonKept'
<1>1. /\ view = "profile" /\ ~Person!Wizard /\ verification' = verification \ {k}
      /\ k \in verification
      /\ UNCHANGED <<stored, cards, shown, view, draft, verified, touched, saving, requests,
                     reverted>>
  BY DEF Person!ReVerify, Person!editing
<1>2. ~Person!Wizard'
  BY <1>1 DEF Person!Wizard
<1>3. \A c \in requests : RequestFits(c)'
  BY <1>1, <1>2 DEF PersonKept, RequestFits, IsRequest
<1>4. CopiesCurrent' /\ RowsTyped'
  BY <1>1 DEF PersonKept, CopiesCurrent, RowsTyped
<1> QED BY <1>1, <1>2, <1>3, <1>4 DEF PersonKept

LEMMA VerifyKept ==
  ASSUME PersonKept, NEW k \in Person!CardKind, Person!Verify(k), ~overlapped' PROVE PersonKept'
<1> DEFINE n == Person!Call(k, Person!Brings(k))
<1>1. /\ requests = {} /\ requests' = {n} /\ Person!Wizard /\ k \notin verified
      /\ UNCHANGED <<stored, cards, shown, verification, view, draft, verified, touched, saving,
                     reverted>>
  BY PersonAsks DEF Person!Verify, Person!app, Person!editing
<1>2. IsRequest(n) /\ n.kind = k /\ n.fields = Person!Brings(k) /\ n.answer = None /\ n.cards = {}
  BY CallIsRequest
<1> HIDE DEF n
<1>3. view = "profile" /\ Person!Wizard' /\ k \notin verification
  BY <1>1 DEF Person!Wizard, PersonKept, CopiesCurrent
<1>4. \A c \in requests' : RequestFits(c)'
  BY <1>1, <1>2, <1>3, Kinds DEF RequestFits, IsRequest
<1>5. CopiesCurrent' /\ RowsTyped'
  BY <1>1, <1>3 DEF PersonKept, CopiesCurrent, RowsTyped
<1>6. DraftCurrent'
  BY <1>1 DEF PersonKept, DraftCurrent, Covered
<1> QED BY <1>1, <1>4, <1>5, <1>6 DEF PersonKept

LEMMA TypeKept ==
  ASSUME PersonKept, NEW f \in Person!Field, Person!Type(f) PROVE PersonKept'
<1>1. /\ draft' = [draft EXCEPT ![f] = edits'] /\ touched' = touched \cup {f}
      /\ UNCHANGED <<stored, cards, shown, verification, view, verified, saving, requests, reverted>>
  BY DEF Person!Type, Person!app
<1>2. Person!Wizard' <=> Person!Wizard
  BY <1>1 DEF Person!Wizard
<1>3. \A c \in requests : RequestFits(c)'
  BY <1>1, <1>2 DEF PersonKept, RequestFits, IsRequest
<1>4. draft' = [g \in Person!Field |-> draft'[g]]
      /\ \A g \in Person!Field : g # f => draft'[g] = draft[g]
  BY <1>1 DEF PersonKept, RowsTyped
<1>5. CopiesCurrent' /\ RowsTyped'
  BY <1>1, <1>4 DEF PersonKept, CopiesCurrent, RowsTyped, Covered
<1>6. DraftCurrent => DraftCurrent'
  BY <1>1, <1>4 DEF DraftCurrent, Covered
<1> QED BY <1>1, <1>2, <1>3, <1>5, <1>6 DEF PersonKept

LEMMA CompleteKept ==
  ASSUME PersonKept, Person!Complete, ~overlapped' PROVE PersonKept'
<1> DEFINE n == Person!Call("complete", {"contact", "address"})
<1>1. /\ requests = {} /\ requests' = {n} /\ Person!Wizard /\ saving' = TRUE
      /\ UNCHANGED <<stored, cards, shown, verification, view, draft, verified, touched, reverted>>
  BY PersonAsks DEF Person!Complete, Person!app, Person!editing
<1>2. IsRequest(n) /\ n.kind = "complete" /\ n.fields = {"contact", "address"} /\ n.row = draft
      /\ n.typed = touched /\ n.answer = None /\ n.cards = {}
  BY CallIsRequest
<1> HIDE DEF n
<1>3. view = "profile" /\ Person!Wizard'
  BY <1>1 DEF Person!Wizard
<1>4. \A f \in n.fields \ n.typed : n.row[f] = stored[f]
  BY <1>1, <1>2, Kinds DEF PersonKept, DraftCurrent, Covered
<1>5. \A c \in requests' : RequestFits(c)'
  BY <1>1, <1>2, <1>3, <1>4, Kinds DEF RequestFits, IsRequest
<1>6. CopiesCurrent' /\ RowsTyped'
  BY <1>1, <1>3 DEF PersonKept, CopiesCurrent, RowsTyped
<1>7. DraftCurrent'
  BY <1>1 DEF PersonKept, DraftCurrent, Covered
<1> QED BY <1>1, <1>5, <1>6, <1>7 DEF PersonKept

LEMMA OpenEditorKept ==
  ASSUME PersonKept, Person!OpenEditor PROVE PersonKept'
<1>1. /\ view = "other" /\ view' = "editor" /\ draft' = shown
      /\ UNCHANGED <<stored, cards, shown, verification, saving, requests, reverted>>
  BY DEF Person!OpenEditor, Person!app
<1>2. shown = stored
  BY <1>1 DEF PersonKept, CopiesCurrent
<1>3. \A c \in requests : RequestFits(c)'
  BY <1>1 DEF PersonKept, RequestFits, Person!Wizard, IsRequest
<1>4. CopiesCurrent' /\ RowsTyped' /\ DraftCurrent'
  BY <1>1, <1>2 DEF PersonKept, CopiesCurrent, RowsTyped, DraftCurrent
<1> QED BY <1>1, <1>3, <1>4 DEF PersonKept

LEMMA CloseEditorKept ==
  ASSUME PersonKept, Person!CloseEditor PROVE PersonKept'
<1>1. /\ view = "editor" /\ view' = "other" /\ ~saving
      /\ UNCHANGED <<stored, cards, shown, verification, draft, saving, requests, reverted>>
  BY DEF Person!CloseEditor, Person!app, Person!editing
<1>2. ~Person!Wizard /\ ~Person!Wizard'
  BY <1>1 DEF Person!Wizard
<1>3. \A c \in requests : c.kind = "load" /\ c.fields = {}
  BY <1>1, <1>2 DEF PersonKept, RequestFits
<1>4. \A c \in requests : RequestFits(c)'
  BY <1>1, <1>3, Kinds DEF PersonKept, RequestFits, IsRequest
<1>5. shown = stored
  BY <1>1, <1>3 DEF PersonKept, CopiesCurrent, Covered, RowsTyped
<1>6. CopiesCurrent' /\ RowsTyped'
  BY <1>1, <1>5 DEF PersonKept, CopiesCurrent, RowsTyped
<1> QED BY <1>1, <1>2, <1>4, <1>6 DEF PersonKept

LEMMA SaveKept ==
  ASSUME PersonKept, Person!Save, ~overlapped' PROVE PersonKept'
<1> DEFINE n == Person!Call("save", {"name", "pan", "contact"})
<1>1. /\ requests = {} /\ requests' = {n} /\ view = "editor" /\ saving' = TRUE
      /\ UNCHANGED <<stored, cards, shown, verification, view, draft, verified, touched, reverted>>
  BY PersonAsks DEF Person!Save, Person!app, Person!editing
<1>2. IsRequest(n) /\ n.kind = "save" /\ n.fields = {"name", "pan", "contact"} /\ n.row = draft
      /\ n.typed = touched /\ n.answer = None /\ n.cards = {}
  BY CallIsRequest
<1> HIDE DEF n
<1>3. \A f \in n.fields \ n.typed : n.row[f] = stored[f]
  BY <1>1, <1>2, Kinds DEF PersonKept, DraftCurrent, Covered
<1>4. \A c \in requests' : RequestFits(c)'
  BY <1>1, <1>2, <1>3, Kinds DEF RequestFits, IsRequest
<1>5. CopiesCurrent' /\ RowsTyped'
  BY <1>1 DEF PersonKept, CopiesCurrent, RowsTyped, Covered
<1>6. DraftCurrent'
  BY <1>1 DEF PersonKept, DraftCurrent, Covered
<1> QED BY <1>1, <1>4, <1>5, <1>6 DEF PersonKept

LEMMA PersonServeKept ==
  ASSUME PersonKept, NEW c \in requests, Person!Serve(c) PROVE PersonKept'
<1> DEFINE v == stored'
           w == cards'
           b == [c EXCEPT !.answer = v]
           e == [b EXCEPT !.cards = w]
<1>0. requests' = (requests \ {c}) \cup {e}
  BY DEF Person!Serve
<1>2. IsRequest(c) /\ RequestFits(c) /\ requests = {c}
  BY DEF PersonKept, RequestFits
<1>3. PICK d : requests' = {d} /\ IsRequest(d) /\ d.kind = c.kind /\ d.fields = c.fields
               /\ d.row = c.row /\ d.typed = c.typed /\ d.answer = stored' /\ d.cards = cards'
  <2> HIDE DEF v, w
  <2>1. /\ b = [kind |-> b.kind, fields |-> b.fields, row |-> b.row, typed |-> b.typed,
                answer |-> b.answer, cards |-> b.cards]
        /\ b.kind = c.kind /\ b.fields = c.fields /\ b.row = c.row /\ b.typed = c.typed
        /\ b.answer = v
    BY <1>2 DEF IsRequest
  <2> HIDE DEF b
  <2>2. /\ e = [kind |-> e.kind, fields |-> e.fields, row |-> e.row, typed |-> e.typed,
                answer |-> e.answer, cards |-> e.cards]
        /\ e.kind = b.kind /\ e.fields = b.fields /\ e.row = b.row /\ e.typed = b.typed
        /\ e.answer = b.answer /\ e.cards = w
    BY <2>1
  <2> HIDE DEF e
  <2> QED BY <1>0, <1>2, <2>1, <2>2 DEF IsRequest, v, w
<1> HIDE DEF e, b, v, w
<1>1. /\ c.answer = None /\ stored' = Person!Patch(c)
      /\ cards' = cards \cup ({c.kind} \cap Person!CardKind)
      /\ UNCHANGED <<shown, verification, view, draft, verified, touched, saving>>
      /\ reverted' = IF c.kind \in {"complete", "save"}
                     THEN reverted \cup {f \in c.fields \ c.typed : stored'[f] # stored[f]}
                     ELSE reverted
  BY DEF Person!Serve, Person!app, Person!editing
<1>4. requests' = {d}
  BY <1>3
<1>5. /\ stored' = [f \in Person!Field |-> stored'[f]]
      /\ \A f \in Person!Field : f \notin c.fields => stored'[f] = stored[f]
      /\ c.kind \in {"complete", "save"} =>
           \A f \in Person!Field : f \in c.fields => stored'[f] = c.row[f]
  BY <1>1, Kinds DEF Person!Patch
<1>6. c.kind \in {"complete", "save"} =>
        /\ c.fields \subseteq Person!Field
        /\ \A f \in c.fields \ c.typed : c.row[f] = stored'[f] /\ stored'[f] = stored[f]
  BY <1>2, <1>5, Kinds DEF RequestFits
<1>7. reverted' = {}
  BY <1>1, <1>6 DEF PersonKept
<1>8. Person!Wizard' <=> Person!Wizard
  BY <1>1 DEF Person!Wizard
<1>9. verification' \subseteq cards' /\ cards \subseteq cards'
      /\ (c.kind \in Person!CardKind => c.kind \in cards')
  BY <1>1 DEF PersonKept
<1>10. RequestFits(d)'
  <2>1. IsRequest(d)
    BY <1>3
  <2>2. IsRequest(d)' <=> IsRequest(d)
    BY DEF IsRequest
  <2> QED BY <1>1, <1>2, <1>3, <1>6, <1>8, <1>9, <2>1, <2>2 DEF RequestFits
<1>11. \A f : Covered(f)' <=> f \in c.fields
  BY <1>3, <1>4 DEF Covered
<1>12. \A f : Covered(f) <=> f \in c.fields
  BY <1>2 DEF Covered
<1>13. view = "other" => stored' = stored
  <2>1. view = "other" => c.fields = {}
    BY <1>2 DEF RequestFits, Person!Wizard
  <2> QED BY <1>5, <2>1 DEF PersonKept, RowsTyped
<1>14. CopiesCurrent' /\ RowsTyped'
  BY <1>1, <1>4, <1>5, <1>11, <1>12, <1>13 DEF PersonKept, CopiesCurrent, RowsTyped
<1>15. DraftCurrent => DraftCurrent'
  BY <1>1, <1>5, <1>11, <1>12 DEF DraftCurrent
<1> QED BY <1>1, <1>4, <1>7, <1>8, <1>9, <1>10, <1>14, <1>15 DEF PersonKept

LEMMA PersonAnswerKept ==
  ASSUME PersonKept, NEW c \in requests, Person!Answer(c), ~overlapped' PROVE PersonKept'
<1>1. /\ c.answer # None /\ requests' = requests \ {c}
      /\ UNCHANGED <<stored, cards, reverted>>
  BY DEF Person!Answer
<1>2. RequestFits(c) /\ requests' = {} /\ c.answer = stored /\ requests = {c}
  BY <1>1 DEF PersonKept, RequestFits
<1>3. CASE Person!AnswerLoad(c)
  <2>1. /\ shown' = stored /\ verification' = c.cards /\ view = "other"
        /\ UNCHANGED <<view, draft, verified, touched, saving>>
    BY <1>2, <1>3 DEF Person!AnswerLoad, Person!Disturbs, Person!editing
  <2>2. CopiesCurrent' /\ RowsTyped' /\ verification' \subseteq cards' /\ ~Person!Wizard'
    BY <1>1, <1>2, <2>1 DEF PersonKept, CopiesCurrent, RowsTyped, RequestFits, Person!Wizard
  <2> QED BY <1>1, <1>2, <2>1, <2>2 DEF PersonKept
<1>4. CASE Person!AnswerVerify(c)
  <2>1. /\ Person!Wizard /\ c.kind \in Person!CardKind
        /\ draft' = [f \in Person!Field |-> IF f \in c.fields THEN stored[f] ELSE draft[f]]
        /\ verified' = c.cards /\ touched' = touched \ c.fields
        /\ UNCHANGED <<shown, verification, view, saving>>
    BY <1>2, <1>4 DEF Person!AnswerVerify, Person!app
  <2>2. verification \subseteq verified' /\ verification # verified' /\ view = "profile"
    BY <1>1, <1>2, <2>1 DEF RequestFits, Person!Wizard
  <2>3. RowsTyped' /\ CopiesCurrent'
    BY <1>1, <2>1, <2>2 DEF PersonKept, RowsTyped, CopiesCurrent
  <2>4. DraftCurrent'
    <3>1. ASSUME NEW f \in Person!Field, f \notin touched' PROVE draft'[f] = stored'[f]
      <4>1. CASE f \in c.fields
        BY <1>1, <2>1, <4>1
      <4>2. CASE f \notin c.fields
        <5>1. f \notin touched /\ ~Covered(f)
          BY <1>2, <2>1, <3>1, <4>2 DEF Covered
        <5>2. draft[f] = stored[f]
          BY <2>1, <5>1 DEF PersonKept, DraftCurrent
        <5> QED BY <1>1, <2>1, <4>2, <5>2
      <4> QED BY <4>1, <4>2
    <3> QED BY <3>1 DEF DraftCurrent
  <2>5. verification' \subseteq cards'
    BY <1>1, <2>1 DEF PersonKept
  <2> QED BY <1>1, <1>2, <2>3, <2>4, <2>5 DEF PersonKept
<1>5. CASE Person!AnswerComplete(c)
  <2>1. /\ shown' = stored /\ verification' = c.cards /\ view' = "other"
        /\ UNCHANGED <<draft, verified, touched>>
    BY <1>2, <1>5 DEF Person!AnswerComplete, Person!editing
  <2>2. CopiesCurrent' /\ RowsTyped' /\ verification' \subseteq cards' /\ ~Person!Wizard'
    BY <1>1, <1>2, <2>1 DEF PersonKept, CopiesCurrent, RowsTyped, RequestFits, Person!Wizard
  <2> QED BY <1>1, <1>2, <2>1, <2>2 DEF PersonKept
<1>6. CASE Person!AnswerSave(c)
  <2>1. /\ shown' = [c.answer EXCEPT !["address"] = shown["address"]] /\ view' = "other"
        /\ c.kind = "save" /\ UNCHANGED <<verification, draft, verified, touched>>
    BY <1>6 DEF Person!AnswerSave, Person!editing, Person!Saved
  <2>2. view = "editor" /\ ~Covered("address") /\ "address" \in Person!Field
    BY <1>2, <2>1, Kinds DEF RequestFits, Covered
  <2>3. shown["address"] = stored["address"]
    BY <2>2 DEF PersonKept, CopiesCurrent
  <2>4. shown' = stored
    BY <1>2, <2>1, <2>3 DEF PersonKept, RowsTyped
  <2>5. CopiesCurrent' /\ RowsTyped' /\ verification' \subseteq cards' /\ ~Person!Wizard'
    BY <1>1, <2>1, <2>4 DEF PersonKept, CopiesCurrent, RowsTyped, Person!Wizard
  <2> QED BY <1>1, <1>2, <2>1, <2>5 DEF PersonKept
<1> QED BY <1>3, <1>4, <1>5, <1>6 DEF Person!Answer

LEMMA NextPerson == PersonInv /\ (Person!Next \/ UNCHANGED personVars) => PersonInv'
<1>1. ASSUME PersonInv, Person!Next, ~overlapped' PROVE PersonKept'
  <2>1. ~(\E c \in requests : Person!Lose(c))
    BY <1>1 DEF Person!Lose
  <2>2. ~overlapped
    <3>1. CASE Person!Load \/ Person!Skip \/ Person!Complete \/ Person!Save
      BY <1>1, <3>1 DEF Person!Load, Person!Skip, Person!Complete, Person!Save, Person!Ask
    <3>2. CASE Person!OpenProfile \/ Person!OpenEditor \/ Person!CloseEditor
      BY <1>1, <3>2 DEF Person!OpenProfile, Person!OpenEditor, Person!CloseEditor
    <3>3. ASSUME NEW k, Person!Verify(k) \/ Person!ReVerify(k) PROVE ~overlapped
      BY <1>1, <3>3 DEF Person!Verify, Person!ReVerify, Person!Ask
    <3>4. ASSUME NEW f, Person!Type(f) PROVE ~overlapped
      BY <1>1, <3>4 DEF Person!Type
    <3>5. ASSUME NEW c, Person!Serve(c) PROVE ~overlapped
      BY <1>1, <3>5 DEF Person!Serve
    <3>6. ASSUME NEW c, Person!Answer(c) PROVE ~overlapped
      BY <1>1, <3>6 DEF Person!Answer, Person!AnswerLoad, Person!AnswerVerify,
                        Person!AnswerComplete, Person!AnswerSave, Person!Disturbs
    <3> QED BY <1>1, <2>1, <3>1, <3>2, <3>3, <3>4, <3>5, <3>6 DEF Person!Next
  <2>3. PersonKept
    BY <1>1, <2>2 DEF PersonInv
  <2> QED BY <1>1, <2>1, <2>3, LoadPersonKept, OpenProfileKept, SkipKept, CompleteKept,
             OpenEditorKept, CloseEditorKept, SaveKept, VerifyKept, ReVerifyKept, TypeKept,
             PersonServeKept, PersonAnswerKept DEF Person!Next
<1>2. ASSUME PersonInv, UNCHANGED personVars PROVE PersonInv'
  <2>1. UNCHANGED <<stored, cards, shown, verification, view, draft, verified, touched, saving,
                    requests, overlapped, reverted>>
    BY <1>2 DEF personVars
  <2>2. Person!Wizard' <=> Person!Wizard
    BY <2>1 DEF Person!Wizard
  <2>3. \A f : Covered(f)' <=> Covered(f)
    BY <2>1 DEF Covered
  <2>4. PersonKept => (\A c \in requests : RequestFits(c)')
    BY <2>1, <2>2 DEF PersonKept, RequestFits, IsRequest
  <2>5. PersonKept => PersonKept'
    BY <2>1, <2>2, <2>3, <2>4 DEF PersonKept, CopiesCurrent, RowsTyped, DraftCurrent
  <2> QED BY <1>2, <2>1, <2>5 DEF PersonInv
<1> QED BY <1>1, <1>2 DEF PersonInv

\* A save changes no field that the citizen did not type, for any number of
\* edits and calls, where no two requests overlapped or were lost and no
\* verification was walked away from.
THEOREM SavesAlwaysWhatWasTyped == MCSpec => []SavesWhatWasTyped
<1>1. MCInit => PersonInv
  BY InitPerson DEF MCInit
<1>2. PersonInv /\ [MCNext]_<<vars, profileVars, registerVars, pageVars, beside>> => PersonInv'
  BY NextPerson, PersonSteps DEF pageVars
<1>3. PersonInv => SavesWhatWasTyped
  BY DEF PersonInv, PersonKept, SavesWhatWasTyped, Person!SavesWhatWasTyped
<1> QED BY <1>1, <1>2, <1>3, PTL DEF MCSpec
=============================================================================
