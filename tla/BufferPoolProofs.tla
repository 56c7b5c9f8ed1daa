-------------------------- MODULE BufferPoolProofs ---------------------------
(***************************************************************************)
(* Proofs about BufferPool.tla for every number of frames, pages, page     *)
(* images and clients: the lists of frames, the outcomes of PageManager's  *)
(* calls, the inductive invariant, what finding a victim and installing a  *)
(* page in it do to the pool, one lemma per operation, and the results.    *)
(***************************************************************************)
EXTENDS BufferPool, FiniteSetTheorems, TLAPS

(***************************************************************************)
(* The lists of frames.                                                    *)
(***************************************************************************)

\* The elements of a list, and the absence of repetitions, by index.
LEMMA ListByIndex ==
  ASSUME NEW s \in Seq(Frames)
  PROVE  /\ Len(s) \in Nat
         /\ \A i \in 1..Len(s) : s[i] \in Frames
         /\ Range(s) = {s[i] : i \in 1..Len(s)}
         /\ IsInjective(s) <=> \A i, j \in 1..Len(s) : s[i] = s[j] => i = j
BY DEF Range, IsInjective

\* A list is empty exactly when it has no elements.
LEMMA EmptyList ==
  ASSUME NEW s \in Seq(Frames)
  PROVE  s = <<>> <=> Range(s) = {}
<1>1. s = <<>> <=> Len(s) = 0
  OBVIOUS
<1>2. Len(s) \in Nat /\ Range(s) = {s[i] : i \in 1..Len(s)}
  BY ListByIndex, Zenon
<1>3. Len(s) # 0 => s[1] \in Range(s)
  BY <1>2
<1>4. Len(s) = 0 => Range(s) = {}
  BY <1>2
<1> QED
  BY <1>1, <1>3, <1>4, Zenon

\* A sublist of a list, element by element.
LEMMA SubListByIndex ==
  ASSUME NEW s \in Seq(Frames), NEW m \in Int, NEW n \in Int,
         m >= 1, n <= Len(s), m <= n + 1
  PROVE  /\ SubSeq(s, m, n) \in Seq(Frames)
         /\ Len(SubSeq(s, m, n)) = n - m + 1
         /\ \A i \in 1..n - m + 1 : SubSeq(s, m, n)[i] = s[m + i - 1]
<1>1. \A i \in m..n : s[i] \in Frames
  OBVIOUS
<1>2. SubSeq(s, m, n) \in Seq(Frames)
  BY <1>1
<1>3. Len(SubSeq(s, m, n)) = n - m + 1
  OBVIOUS
<1>4. \A i \in 1..n - m + 1 : SubSeq(s, m, n)[i] = s[m + i - 1]
  OBVIOUS
<1> QED
  BY <1>2, <1>3, <1>4, Zenon

\* LRUReplacer::Pin takes exactly its frame out of a list without repetitions.
LEMMA RemoveFirstElements ==
  ASSUME NEW s \in Seq(Frames), NEW f \in Frames, IsInjective(s)
  PROVE  /\ RemoveFirst(s, f) \in Seq(Frames)
         /\ IsInjective(RemoveFirst(s, f))
         /\ Range(RemoveFirst(s, f)) = Range(s) \ {f}
<1> DEFINE t == RemoveFirst(s, f)
<1>s. /\ Len(s) \in Nat
      /\ Range(s) = {s[i] : i \in 1..Len(s)}
      /\ \A i, j \in 1..Len(s) : s[i] = s[j] => i = j
  BY ListByIndex, Zenon
<1>1. CASE ~ \E i \in 1..Len(s) : s[i] = f
  <2>1. t = s
    BY <1>1, <1>s, Zenon DEF RemoveFirst
  <2>2. f \notin Range(s)
    BY <1>1, <1>s, Zenon
  <2> QED
    BY <2>1, <2>2, Zenon
<1>2. CASE \E i \in 1..Len(s) : s[i] = f
  <2>1. PICK k \in 1..Len(s) : s[k] = f
    BY <1>2, Zenon
  <2>2. \A i \in 1..Len(s) : s[i] = f <=> i = k
    BY <2>1, <1>s, Zenon
  <2>3. f \in Range(s)
    BY <2>1, <1>s, Zenon
  <2>4. IndexOf(s, f) = k
    BY <2>1, <2>2 DEF IndexOf
  <2> DEFINE a == SubSeq(s, 1, k - 1)
             b == SubSeq(s, k + 1, Len(s))
  <2>6. /\ a \in Seq(Frames) /\ Len(a) = (k - 1) - 1 + 1
        /\ \A i \in 1..(k - 1) - 1 + 1 : a[i] = s[1 + i - 1]
    <3>1. 1 \in Int /\ k - 1 \in Int /\ 1 >= 1 /\ k - 1 <= Len(s) /\ 1 <= (k - 1) + 1
      BY <1>s, <2>1
    <3> QED
      BY <3>1, SubListByIndex, Zenon
  <2>7. /\ b \in Seq(Frames) /\ Len(b) = Len(s) - (k + 1) + 1
        /\ \A i \in 1..Len(s) - (k + 1) + 1 : b[i] = s[(k + 1) + i - 1]
    <3>1. k + 1 \in Int /\ Len(s) \in Int /\ k + 1 >= 1 /\ Len(s) <= Len(s) /\ k + 1 <= Len(s) + 1
      BY <1>s, <2>1
    <3> QED
      BY <3>1, SubListByIndex, Zenon
  <2>8. t = a \o b
    BY <2>3, <2>4, Zenon DEF RemoveFirst
  <2> HIDE DEF a, b, t
  <2>9. /\ t \in Seq(Frames)
        /\ Len(t) = Len(a) + Len(b)
        /\ \A i \in 1..Len(a) + Len(b) : t[i] = IF i <= Len(a) THEN a[i] ELSE b[i - Len(a)]
    <3>1. a \in Seq(Frames) /\ b \in Seq(Frames)
      BY <2>6, <2>7, Zenon
    <3>2. a \o b \in Seq(Frames) /\ Len(a \o b) = Len(a) + Len(b)
      BY <3>1
    <3>3. \A i \in 1..Len(a) + Len(b) :
            (a \o b)[i] = IF i <= Len(a) THEN a[i] ELSE b[i - Len(a)]
      BY <3>1
    <3> QED
      BY <2>8, <3>2, <3>3, Zenon
  <2>10. Len(t) = Len(s) - 1
    BY <1>s, <2>1, <2>6, <2>7, <2>9
  <2>11. ASSUME NEW i \in 1..Len(t)
         PROVE  t[i] = IF i < k THEN s[i] ELSE s[i + 1]
    <3>1. CASE i < k
      <4>1. t[i] = a[i] /\ a[i] = s[1 + i - 1]
        BY <1>s, <2>1, <2>6, <2>7, <2>9, <3>1
      <4> QED
        BY <3>1, <4>1
    <3>2. CASE i >= k
      <4>1. t[i] = b[i - Len(a)] /\ Len(a) = k - 1
        BY <1>s, <2>1, <2>6, <2>7, <2>9, <3>2
      <4>2. PICK j \in 1..Len(s) - (k + 1) + 1 : j = i - (k - 1)
        BY <1>s, <2>1, <2>10, <3>2
      <4>3. b[j] = s[(k + 1) + j - 1]
        BY <2>7, <4>2, Zenon
      <4>4. (k + 1) + j - 1 = i + 1
        BY <2>1, <4>2
      <4>5. t[i] = s[i + 1]
        BY <4>1, <4>2, <4>3, <4>4, Zenon
      <4> QED
        BY <2>1, <3>2, <4>5
    <3> QED
      BY <2>1, <3>1, <3>2
  <2>12. ASSUME NEW i \in 1..Len(t), NEW j \in 1..Len(t), t[i] = t[j]
         PROVE  i = j
    BY <1>s, <2>1, <2>10, <2>11, <2>12
  <2>13. ASSUME NEW i \in 1..Len(t)
         PROVE  t[i] \in Range(s) \ {f}
    BY <1>s, <2>1, <2>10, <2>11
  <2>14. ASSUME NEW x \in Range(s) \ {f}
         PROVE  \E i \in 1..Len(t) : t[i] = x
    <3>1. PICK j \in 1..Len(s) : s[j] = x
      BY <1>s, Zenon
    <3>2. CASE j < k
      BY <1>s, <2>1, <2>10, <2>11, <3>1, <3>2
    <3>3. CASE j > k
      <4>1. j - 1 \in 1..Len(t) /\ t[j - 1] = x
        BY <1>s, <2>1, <2>10, <2>11, <3>1, <3>3
      <4> QED
        BY <4>1, Zenon
    <3> QED
      BY <2>1, <3>1, <3>2, <3>3
  <2>15. /\ Range(t) = {t[i] : i \in 1..Len(t)}
         /\ IsInjective(t) <=> \A i, j \in 1..Len(t) : t[i] = t[j] => i = j
    BY <2>9, ListByIndex, Zenon
  <2> QED
    BY <2>9, <2>12, <2>13, <2>14, <2>15 DEF t
<1> QED
  BY <1>1, <1>2, Zenon

\* Popping the back of a list without repetitions takes exactly that frame out.
LEMMA FrontElements ==
  ASSUME NEW s \in Seq(Frames), IsInjective(s), s # <<>>
  PROVE  /\ Front(s) \in Seq(Frames)
         /\ IsInjective(Front(s))
         /\ Last(s) \in Range(s)
         /\ Last(s) \in Frames
         /\ Range(Front(s)) = Range(s) \ {Last(s)}
<1> DEFINE t == Front(s)
           n == Len(s)
<1>s. /\ n \in Nat
      /\ Range(s) = {s[i] : i \in 1..n}
      /\ \A i, j \in 1..n : s[i] = s[j] => i = j
      /\ \A i \in 1..n : s[i] \in Frames
  BY ListByIndex, Zenon
<1>1. n >= 1
  BY <1>s
<1>2. t \in Seq(Frames) /\ Len(t) = (n - 1) - 1 + 1 /\ \A i \in 1..(n - 1) - 1 + 1 : t[i] = s[1 + i - 1]
  <2>1. 1 \in Int /\ n - 1 \in Int /\ 1 >= 1 /\ n - 1 <= n /\ 1 <= (n - 1) + 1
    BY <1>s, <1>1
  <2> QED
    BY <2>1, SubListByIndex, Zenon DEF Front
<1>3. Last(s) = s[n]
  BY Zenon DEF Last
<1> HIDE DEF t, n
<1>4. Len(t) = n - 1 /\ \A i \in 1..n - 1 : t[i] = s[i]
  BY <1>s, <1>1, <1>2
<1>5. /\ Range(t) = {t[i] : i \in 1..Len(t)}
      /\ IsInjective(t) <=> \A i, j \in 1..Len(t) : t[i] = t[j] => i = j
  BY <1>2, ListByIndex, Zenon
<1>6. IsInjective(t)
  BY <1>s, <1>4, <1>5
<1>7. Range(t) = Range(s) \ {s[n]}
  <2>1. \A i \in 1..Len(t) : t[i] \in Range(s) \ {s[n]}
    BY <1>s, <1>1, <1>4
  <2>2. \A x \in Range(s) \ {s[n]} : \E i \in 1..Len(t) : t[i] = x
    BY <1>s, <1>1, <1>4
  <2> QED
    BY <1>5, <2>1, <2>2
<1>8. s[n] \in Range(s) /\ s[n] \in Frames
  BY <1>s, <1>1
<1> QED
  BY <1>2, <1>3, <1>6, <1>7, <1>8, Zenon DEF t

\* A frame that is not in the free list is pushed at its back.
LEMMA AppendElements ==
  ASSUME NEW s \in Seq(Frames), NEW f \in Frames, IsInjective(s), f \notin Range(s)
  PROVE  /\ Append(s, f) \in Seq(Frames)
         /\ IsInjective(Append(s, f))
         /\ Range(Append(s, f)) = Range(s) \cup {f}
<1> DEFINE t == Append(s, f)
<1>s. /\ Len(s) \in Nat
      /\ Range(s) = {s[i] : i \in 1..Len(s)}
      /\ \A i, j \in 1..Len(s) : s[i] = s[j] => i = j
  BY ListByIndex, Zenon
<1>1. /\ t \in Seq(Frames) /\ Len(t) = Len(s) + 1 /\ t[Len(s) + 1] = f
      /\ \A i \in 1..Len(s) : t[i] = s[i]
  OBVIOUS
<1> HIDE DEF t
<1>2. /\ Range(t) = {t[i] : i \in 1..Len(t)}
      /\ IsInjective(t) <=> \A i, j \in 1..Len(t) : t[i] = t[j] => i = j
  BY <1>1, ListByIndex, Zenon
<1>3. \A i \in 1..Len(t) : i = Len(s) + 1 \/ (i \in 1..Len(s) /\ t[i] = s[i] /\ t[i] # f)
  BY <1>s, <1>1
<1>4. IsInjective(t)
  BY <1>s, <1>1, <1>2, <1>3, Zenon
<1>5. Range(t) = Range(s) \cup {f}
  <2>1. \A i \in 1..Len(t) : t[i] \in Range(s) \cup {f}
    BY <1>s, <1>1, <1>3, Zenon
  <2>2. \A x \in Range(s) \cup {f} : \E i \in 1..Len(t) : t[i] = x
    BY <1>s, <1>1
  <2> QED
    BY <1>2, <2>1, <2>2
<1> QED
  BY <1>1, <1>4, <1>5, Zenon DEF t

\* LRUReplacer::Unpin puts a frame that is not in the list at its front.
LEMMA ConsElements ==
  ASSUME NEW s \in Seq(Frames), NEW f \in Frames, IsInjective(s), f \notin Range(s)
  PROVE  /\ <<f>> \o s \in Seq(Frames)
         /\ IsInjective(<<f>> \o s)
         /\ Range(<<f>> \o s) = Range(s) \cup {f}
<1> DEFINE t == <<f>> \o s
<1>s. /\ Len(s) \in Nat
      /\ Range(s) = {s[i] : i \in 1..Len(s)}
      /\ \A i, j \in 1..Len(s) : s[i] = s[j] => i = j
  BY ListByIndex, Zenon
<1>1. /\ t \in Seq(Frames) /\ Len(t) = Len(s) + 1 /\ t[1] = f
      /\ \A i \in 1..Len(s) : t[i + 1] = s[i]
  OBVIOUS
<1> HIDE DEF t
<1>2. /\ Range(t) = {t[i] : i \in 1..Len(t)}
      /\ IsInjective(t) <=> \A i, j \in 1..Len(t) : t[i] = t[j] => i = j
  BY <1>1, ListByIndex, Zenon
<1>3. \A i \in 1..Len(t) : i = 1 \/ (i - 1 \in 1..Len(s) /\ t[i] = s[i - 1] /\ t[i] # f)
  <2> SUFFICES ASSUME NEW i \in 1..Len(t), i # 1
               PROVE  i - 1 \in 1..Len(s) /\ t[i] = s[i - 1] /\ t[i] # f
    BY Zenon
  <2>1. i - 1 \in 1..Len(s) /\ (i - 1) + 1 = i
    BY <1>s, <1>1
  <2>2. t[(i - 1) + 1] = s[i - 1]
    BY <1>1, <2>1, Zenon
  <2> QED
    BY <1>s, <2>1, <2>2, Zenon
<1>4. ASSUME NEW i \in 1..Len(t), NEW j \in 1..Len(t), t[i] = t[j]
      PROVE  i = j
  <2>1. i = 1 <=> j = 1
    BY <1>1, <1>3, <1>4, Zenon
  <2>2. CASE i # 1 /\ j # 1
    BY <1>s, <1>3, <1>4, <2>2
  <2> QED
    BY <2>1, <2>2, Zenon
<1>5. Range(t) = Range(s) \cup {f}
  <2>1. \A i \in 1..Len(t) : t[i] \in Range(s) \cup {f}
    BY <1>s, <1>1, <1>3
  <2>2. ASSUME NEW x \in Range(s) PROVE \E i \in 1..Len(t) : t[i] = x
    <3>1. PICK j \in 1..Len(s) : s[j] = x
      BY <1>s, Zenon
    <3>2. j + 1 \in 1..Len(t) /\ t[j + 1] = x
      BY <1>s, <1>1, <3>1
    <3> QED
      BY <3>2, Zenon
  <2>3. 1 \in 1..Len(t)
    BY <1>s, <1>1
  <2> QED
    BY <1>1, <1>2, <2>1, <2>2, <2>3
<1> QED
  BY <1>1, <1>2, <1>4, <1>5, Zenon DEF t

\* The constructor puts every frame on the free list once.
LEMMA FullFreeList ==
  LET s == [i \in 1..PoolSize |-> i - 1]
  IN  /\ s \in Seq(Frames)
      /\ IsInjective(s)
      /\ Range(s) = Frames
<1> DEFINE s == [i \in 1..PoolSize |-> i - 1]
<1>1. PoolSize \in Nat \ {0}
  BY BufferPoolAssumption, Zenon
<1>2. s \in Seq(Frames) /\ Len(s) = PoolSize
  BY <1>1 DEF Frames
<1>3. \A i \in 1..PoolSize : s[i] = i - 1
  BY Zenon
<1> HIDE DEF s
<1>4. /\ Range(s) = {s[i] : i \in 1..Len(s)}
      /\ \A i \in 1..Len(s) : s[i] \in Frames
      /\ IsInjective(s) <=> \A i, j \in 1..Len(s) : s[i] = s[j] => i = j
  BY <1>2, ListByIndex, Zenon
<1>5. IsInjective(s)
  BY <1>1, <1>2, <1>3, <1>4
<1>6. ASSUME NEW f \in Frames PROVE f \in Range(s)
  <2>1. f + 1 \in 1..Len(s) /\ s[f + 1] = f
    BY <1>1, <1>2, <1>3 DEF Frames
  <2> QED
    BY <2>1, <1>4, Zenon
<1> QED
  BY <1>2, <1>4, <1>5, <1>6, ZenonT(30) DEF s

(***************************************************************************)
(* The data file.  What each PageManager call can do to it.                *)
(***************************************************************************)

\* The counters in the header cover the client data in the file g, and agree
\* with a page count of n while the stream works.
Covered(g, n) ==
  /\ \A p \in PageIds : g.pages[p] \in Values => p < g.header.count
  /\ g.header.next = g.header.count
  /\ ~g.failed => g.header.count = n
  /\ ~g.exists => g.header = NoHeader

\* The invalid page id, the absent frame and the page images are what they
\* are told apart by.
LEMMA PageIdFacts ==
  /\ PageIds \subseteq Nat
  /\ kInvalidPageId \notin PageIds
  /\ NoFrame \notin Frames
  /\ Frames \subseteq Nat
  /\ Blank \in Content /\ Torn \in Content /\ Values \subseteq Content
  /\ Blank \notin Values /\ Torn \notin Values
BY PageManagerAssumption, BufferPoolAssumption
   DEF PageIds, kInvalidPageId, NoFrame, Frames, Content

WriteResult(g, p, c, w) ==
  /\ w.file \in Files
  /\ w.file.exists = g.exists /\ w.file.header = g.header
  /\ \A q \in PageIds : q # p => w.file.pages[q] = g.pages[q]
  /\ w.file.pages[p] \in {g.pages[p], c, Torn}
  /\ w.file # g => ~g.failed /\ InRange(p)
  /\ g.failed => w.file = g /\ ~w.ok
  /\ w.ok => ~g.failed /\ InRange(p)
  /\ w.ok /\ ~w.file.failed => w.file.pages[p] = c
  /\ ~w.ok /\ ~w.file.failed => w.file = g /\ ~InRange(p)

\* PageManager::WritePage touches one page, only while the stream works, and
\* only a page in range.
LEMMA WritePageOutcome ==
  ASSUME NEW g \in Files, NEW p \in PageIds, NEW c \in Content,
         NEW w \in WritePage(g, p, c)
  PROVE  WriteResult(g, p, c, w)
<1>1. CASE w = [file |-> g, ok |-> FALSE] /\ (~InRange(p) \/ g.failed)
  BY <1>1, Zenon DEF WriteResult
<1>2. CASE w = [file |-> [g EXCEPT !.pages[p] = c], ok |-> TRUE] /\ InRange(p) /\ ~g.failed
  BY <1>2, Zenon DEF Files, WriteResult
<1>3. ASSUME InRange(p), ~g.failed,
             NEW x \in {g.pages[p], c, Torn},
             NEW b \in BOOLEAN,
             w = [file |-> [g EXCEPT !.pages[p] = x, !.failed = TRUE], ok |-> b]
      PROVE  WriteResult(g, p, c, w)
  <2>1. x \in Content
    BY PageIdFacts, Zenon DEF Files
  <2> QED
    BY <1>3, <2>1, Zenon DEF Files, WriteResult
<1> QED
  BY <1>1, <1>2, <1>3 DEF WritePage

\* PageManager::ReadPage changes no page; it succeeds only on a working stream.
LEMMA ReadPageOutcome ==
  ASSUME NEW g \in Files, NEW p \in PageIds, NEW r \in ReadPage(g, p)
  PROVE  /\ r.file \in Files
         /\ r.file.exists = g.exists /\ r.file.header = g.header /\ r.file.pages = g.pages
         /\ ~r.file.failed => ~g.failed
         /\ r.ok => r.file = g /\ ~g.failed /\ InRange(p)
<1>1. CASE r = [file |-> g, ok |-> FALSE]
  BY <1>1, Zenon
<1>2. CASE r = [file |-> g, ok |-> TRUE] /\ InRange(p) /\ ~g.failed
  BY <1>2, Zenon
<1>3. CASE r = [file |-> [g EXCEPT !.failed = TRUE], ok |-> FALSE]
  BY <1>3, Zenon DEF Files
<1> QED
  BY <1>1, <1>2, <1>3, Zenon DEF ReadPage

AllocateResult(g, a) ==
  LET n == next_page_id
  IN  /\ a.file \in Files
      /\ a.file.exists = g.exists
      /\ \A q \in PageIds : q # n => a.file.pages[q] = g.pages[q]
      /\ n \in PageIds => a.file.pages[n] \in {g.pages[n], Blank, Torn}
      /\ a.file.header \in {g.header, HeaderOf(n + 1, page_count + 1)}
      /\ g.failed => a.file = g /\ ~a.ok
      /\ a.ok => ~g.failed
      /\ ~a.file.failed => a.file.header = HeaderOf(n + 1, page_count + 1)
      /\ a.file.header = g.header \/ a.file.pages[n] = Blank
      /\ ~a.file.failed => a.file.pages[n] = Blank /\ a.ok

\* PageManager::AllocatePage touches one page, the one at next_page_id_, and
\* leaves the header as it was or with both counters advanced.
LEMMA AllocatePageOutcome ==
  ASSUME NEW g \in Files, NEW a \in AllocatePage(g),
         ~g.failed => next_page_id \in PageIds /\ page_count \in PageIds
  PROVE  AllocateResult(g, a)
<1> DEFINE n     == next_page_id
           head  == HeaderOf(n + 1, page_count + 1)
           blank == [g EXCEPT !.pages[n] = Blank]
           done  == [blank EXCEPT !.header = head]
<1>1. CASE g.failed
  BY <1>1 DEF AllocatePage, AllocateResult
<1>2. CASE ~g.failed
  <2>1. n \in PageIds /\ head \in [next : 0..MaxPages + 1, count : 0..MaxPages + 1]
    BY <1>2, PageManagerAssumption DEF HeaderOf, PageIds
  <2>2. blank \in Files /\ done \in Files
    BY <2>1, PageIdFacts, Zenon DEF Files
  <2>3. CASE a = [file |-> done, ok |-> TRUE]
    BY <1>2, <2>1, <2>2, <2>3, Zenon DEF AllocateResult, Files
  <2>4. ASSUME NEW x \in {g.pages[n], Blank, Torn}, NEW b \in BOOLEAN,
               a = [file |-> [g EXCEPT !.pages[n] = x, !.failed = TRUE], ok |-> b]
        PROVE  AllocateResult(g, a)
    <3>1. x \in Content
      BY <2>1, PageIdFacts, Zenon DEF Files
    <3> QED
      BY <1>2, <2>1, <2>4, <3>1, Zenon DEF AllocateResult, Files
  <2>5. ASSUME a = [file |-> [done EXCEPT !.failed = TRUE], ok |-> TRUE]
        PROVE  AllocateResult(g, a)
    <3>1. a.file \in Files /\ a.file.failed /\ a.ok
      BY <2>2, <2>5, Zenon DEF Files
    <3>2. a.file.exists = g.exists /\ a.file.pages = blank.pages
      BY <2>1, <2>5, Zenon DEF Files
    <3>3. a.file.header \in {g.header, head}
      BY <2>1, <2>5, Zenon DEF Files
    <3>4. blank.pages = [g.pages EXCEPT ![n] = Blank]
      BY Zenon DEF Files
    <3> QED
      BY <1>2, <2>1, <3>1, <3>2, <3>3, <3>4, Zenon DEF AllocateResult, Files
  <2> QED
    BY <1>2, <2>3, <2>4, <2>5 DEF AllocatePage
<1> QED
  BY <1>1, <1>2, Zenon

WriteBackResult(g, f, h) ==
  /\ h \in Files
  /\ h.exists = g.exists /\ h.header = g.header
  /\ \A q \in PageIds : q # frames[f].page_id => h.pages[q] = g.pages[q]
  /\ \A q \in PageIds : h.pages[q] # g.pages[q] => ~g.failed /\ InRange(q)
  /\ g.failed => h = g
  /\ h # g => frames[f].page_id \in PageIds /\ frames[f].is_dirty
  /\ (frames[f].page_id \in PageIds /\ frames[f].is_dirty
      /\ InRange(frames[f].page_id) /\ ~h.failed)
       => h.pages[frames[f].page_id] = frames[f].page
  /\ frames[f].page_id \in PageIds =>
       h.pages[frames[f].page_id] \in {g.pages[frames[f].page_id], frames[f].page, Torn}
  /\ h # g /\ ~h.failed => h.pages[frames[f].page_id] = frames[f].page

\* The write-back of an eviction touches the victim's page only.
LEMMA WriteBackOutcome ==
  ASSUME NEW g \in Files, NEW f \in Frames, frames[f] \in FrameRecords,
         NEW h \in WriteBack(g, f)
  PROVE  WriteBackResult(g, f, h)
<1>1. CASE frames[f].page_id # kInvalidPageId /\ frames[f].is_dirty
  <2>1. frames[f].page_id \in PageIds /\ frames[f].page \in Content
    BY <1>1, Zenon DEF FrameRecords
  <2>2. PICK w \in WritePage(g, frames[f].page_id, frames[f].page) : h = w.file
    BY <1>1, Zenon DEF WriteBack
  <2>3. WriteResult(g, frames[f].page_id, frames[f].page, w)
    BY <2>1, <2>2, WritePageOutcome, Zenon
  <2> QED
    BY <1>1, <2>1, <2>2, <2>3, Zenon DEF WriteResult, WriteBackResult
<1>2. CASE ~(frames[f].page_id # kInvalidPageId /\ frames[f].is_dirty)
  <2>1. h = g
    BY <1>2, Zenon DEF WriteBack
  <2> QED
    BY <1>2, <2>1, PageIdFacts, Zenon DEF WriteBackResult
<1> QED
  BY <1>1, <1>2, Zenon

(***************************************************************************)
(* The inductive invariant: each part needs the others.  A victim may be   *)
(* evicted because the lists name only unpinned frames, which is true of   *)
(* the pages' holders because pins are counted right, which relies on the  *)
(* page table leading to the frame the client points into; and a           *)
(* write-back succeeds because resident pages are in range.                *)
(***************************************************************************)
IInv ==
  /\ TypeOK
  /\ FrameAccounting
  /\ PageTableCoherent
  /\ PointersStayValid
  /\ HeaderCoversData
  /\ CleanPagesMatchFile

\* The holders of a page are finitely many clients.
LEMMA HoldersFinite ==
  ASSUME NEW p \in PageIds
  PROVE  IsFiniteSet(Holders(p)) /\ Cardinality(Holders(p)) \in Nat
<1>1. Holders(p) \subseteq Clients /\ IsFiniteSet(Clients)
  BY BufferPoolAssumption, Zenon DEF Holders
<1> QED
  BY <1>1, FS_Subset, FS_CardinalityType, Zenon

\* FindVictimFrame returns a frame nobody points into, and takes exactly that
\* frame out of the lists.
LEMMA VictimFacts ==
  ASSUME IInv, HasVictim
  PROVE  LET f == VictimFrame
         IN  /\ f \in Frames
             /\ FreeAfterVictim \in Seq(Frames) /\ IsInjective(FreeAfterVictim)
             /\ LRUAfterVictim \in Seq(Frames) /\ IsInjective(LRUAfterVictim)
             /\ Range(FreeAfterVictim) = Range(free_list) \ {f}
             /\ Range(LRUAfterVictim) = Range(lru_list) \ {f}
             /\ frames[f].pin_count = 0
<1> DEFINE f == VictimFrame
<1> USE DEF IInv
<1>1. CASE free_list # <<>>
  <2>1. f = Last(free_list) /\ FreeAfterVictim = Front(free_list) /\ LRUAfterVictim = lru_list
    BY <1>1, Zenon DEF VictimFrame, FreeAfterVictim, LRUAfterVictim
  <2>2. /\ f \in Frames /\ f \in Range(free_list)
        /\ Front(free_list) \in Seq(Frames) /\ IsInjective(Front(free_list))
        /\ Range(Front(free_list)) = Range(free_list) \ {f}
    BY <1>1, <2>1, FrontElements, Zenon DEF TypeOK, FrameAccounting
  <2>3. frames[f] = ResetFrame /\ f \notin Range(lru_list)
    BY <2>2, Zenon DEF FrameAccounting
  <2> QED
    BY <2>1, <2>2, <2>3 DEF TypeOK, FrameAccounting, ResetFrame
<1>2. CASE free_list = <<>>
  <2>1. lru_list # <<>> /\ f = Last(lru_list)
        /\ FreeAfterVictim = free_list /\ LRUAfterVictim = Front(lru_list)
    BY <1>2, Zenon DEF VictimFrame, FreeAfterVictim, LRUAfterVictim, HasVictim
  <2>2. /\ f \in Frames /\ f \in Range(lru_list)
        /\ Front(lru_list) \in Seq(Frames) /\ IsInjective(Front(lru_list))
        /\ Range(Front(lru_list)) = Range(lru_list) \ {f}
    BY <2>1, FrontElements, Zenon DEF TypeOK, FrameAccounting
  <2>3. frames[f].page_id # kInvalidPageId /\ frames[f].pin_count = 0 /\ f \notin Range(free_list)
    BY <2>2, Zenon DEF FrameAccounting
  <2> QED
    BY <2>1, <2>2, <2>3 DEF TypeOK, FrameAccounting
<1> QED
  BY <1>1, <1>2, Zenon

\* Nobody points into the victim, and it leaves the page table.
LEMMA VictimUnused ==
  ASSUME IInv, NEW f \in Frames, frames[f].pin_count = 0
  PROVE  /\ TableWithoutVictim(f) \in [PageIds -> Frames \cup {NoFrame}]
         /\ \A q \in PageIds : TableWithoutVictim(f)[q] =
              IF page_table[q] = f THEN NoFrame ELSE page_table[q]
         /\ \A q \in PageIds : page_table[q] = f =>
              \A c \in Clients : ptr[c][q] = NoFrame /\ ~wrote[c][q]
<1> USE DEF IInv
<1>1. \A q \in PageIds : page_table[q] = f <=> frames[f].page_id = q
  BY Zenon DEF PageTableCoherent
<1>2. /\ TableWithoutVictim(f) \in [PageIds -> Frames \cup {NoFrame}]
      /\ \A q \in PageIds : TableWithoutVictim(f)[q] =
           IF page_table[q] = f THEN NoFrame ELSE page_table[q]
  <2>1. frames[f].page_id \in PageIds \cup {kInvalidPageId}
    BY Zenon DEF TypeOK, FrameRecords
  <2> QED
    BY <1>1, <2>1, PageIdFacts, Zenon DEF TypeOK, TableWithoutVictim
<1>3. ASSUME NEW q \in PageIds, page_table[q] = f
      PROVE  \A c \in Clients : ptr[c][q] = NoFrame /\ ~wrote[c][q]
  <2>1. Cardinality(Holders(q)) = 0
    BY <1>3, PageIdFacts, Zenon DEF PointersStayValid
  <2>2. Holders(q) = {}
    BY <2>1, HoldersFinite, FS_EmptySet, Zenon
  <2> QED
    BY <2>2, Zenon DEF Holders, PointersStayValid, TypeOK
<1> QED
  BY <1>2, <1>3, Zenon

\* Typing and coherence of the pool and of the clients' pointers: the parts of
\* the invariant that do not mention the file.
PoolInv ==
  /\ frames \in [Frames -> FrameRecords]
  /\ page_table \in [PageIds -> Frames \cup {NoFrame}]
  /\ free_list \in Seq(Frames)
  /\ lru_list \in Seq(Frames)
  /\ ptr \in [Clients -> [PageIds -> Frames \cup {NoFrame}]]
  /\ wrote \in [Clients -> [PageIds -> BOOLEAN]]
  /\ FrameAccounting
  /\ PageTableCoherent
  /\ PointersStayValid

\* A page that is not resident gets the victim's frame, pinned once, by a
\* client: the tail of FetchPage and of NewPage.
LEMMA InstallPage ==
  ASSUME IInv, HasVictim,
         NEW p \in PageIds, page_table[p] = NoFrame, NEW c \in Clients,
         NEW d \in BOOLEAN, NEW x \in Content,
         frames' = [frames EXCEPT ![VictimFrame] =
                      [page_id |-> p, pin_count |-> 1, is_dirty |-> d, page |-> x]],
         page_table' = [TableWithoutVictim(VictimFrame) EXCEPT ![p] = VictimFrame],
         free_list' = FreeAfterVictim,
         lru_list' = LRUAfterVictim,
         ptr' = [ptr EXCEPT ![c][p] = VictimFrame],
         wrote' = wrote
  PROVE  PoolInv'
<1> DEFINE f == VictimFrame
<1> USE DEF IInv
<1>f. /\ f \in Frames
      /\ FreeAfterVictim \in Seq(Frames) /\ IsInjective(FreeAfterVictim)
      /\ LRUAfterVictim \in Seq(Frames) /\ IsInjective(LRUAfterVictim)
      /\ Range(FreeAfterVictim) = Range(free_list) \ {f}
      /\ Range(LRUAfterVictim) = Range(lru_list) \ {f}
      /\ frames[f].pin_count = 0
  BY VictimFacts, Zenon
<1> HIDE DEF f
<1>u. /\ TableWithoutVictim(f) \in [PageIds -> Frames \cup {NoFrame}]
      /\ \A q \in PageIds : TableWithoutVictim(f)[q] =
           IF page_table[q] = f THEN NoFrame ELSE page_table[q]
      /\ \A q \in PageIds : page_table[q] = f =>
           \A k \in Clients : ptr[k][q] = NoFrame /\ ~wrote[k][q]
  BY <1>f, VictimUnused, Zenon
<1>e. /\ frames' = [frames EXCEPT ![f] =
                      [page_id |-> p, pin_count |-> 1, is_dirty |-> d, page |-> x]]
      /\ page_table' = [TableWithoutVictim(f) EXCEPT ![p] = f]
      /\ ptr' = [ptr EXCEPT ![c][p] = f]
  BY Zenon DEF f
<1>1. /\ frames' \in [Frames -> FrameRecords]
      /\ page_table' \in [PageIds -> Frames \cup {NoFrame}]
      /\ free_list' \in Seq(Frames)
      /\ lru_list' \in Seq(Frames)
      /\ ptr' \in [Clients -> [PageIds -> Frames \cup {NoFrame}]]
      /\ wrote' \in [Clients -> [PageIds -> BOOLEAN]]
  BY <1>f, <1>u, <1>e DEF TypeOK, FrameRecords
<1>2. /\ frames'[f] = [page_id |-> p, pin_count |-> 1, is_dirty |-> d, page |-> x]
      /\ \A g \in Frames : g # f => frames'[g] = frames[g]
  BY <1>f, <1>e, Zenon DEF TypeOK
<1>3. \A q \in PageIds : page_table'[q] =
        IF q = p THEN f ELSE IF page_table[q] = f THEN NoFrame ELSE page_table[q]
  BY <1>u, <1>e, Zenon
<1>4. \A k \in Clients, q \in PageIds :
        ptr'[k][q] = IF k = c /\ q = p THEN f ELSE ptr[k][q]
  BY <1>e DEF TypeOK
<1>5. FrameAccounting'
  <2>1. IsInjective(free_list') /\ IsInjective(lru_list')
    BY <1>f, Zenon
  <2>2. ASSUME NEW g \in Frames
        PROVE  /\ g \in Range(free_list') <=> frames'[g].page_id = kInvalidPageId
               /\ g \in Range(lru_list') <=>
                    frames'[g].page_id # kInvalidPageId /\ frames'[g].pin_count = 0
               /\ frames'[g].page_id = kInvalidPageId => frames'[g] = ResetFrame
    <3>1. CASE g = f
      BY <1>f, <1>2, <3>1, PageIdFacts
    <3>2. CASE g # f
      <4>1. frames'[g] = frames[g] /\ (g \in Range(free_list') <=> g \in Range(free_list))
            /\ (g \in Range(lru_list') <=> g \in Range(lru_list))
        BY <1>f, <1>2, <3>2, Zenon
      <4> QED
        BY <4>1, Zenon DEF FrameAccounting
    <3> QED
      BY <3>1, <3>2, Zenon
  <2> QED
    BY <2>1, <2>2, Zenon DEF FrameAccounting
<1>6. PageTableCoherent'
  BY <1>f, <1>2, <1>3, PageIdFacts DEF PageTableCoherent, TypeOK
<1>7. PointersStayValid'
  <2>1. \A k \in Clients : ptr[k][p] = NoFrame /\ ~wrote[k][p]
    BY Zenon DEF PointersStayValid, TypeOK
  <2>2. ASSUME NEW k \in Clients, NEW q \in PageIds
        PROVE  /\ ptr'[k][q] # NoFrame => page_table'[q] = ptr'[k][q]
               /\ wrote'[k][q] => ptr'[k][q] # NoFrame
    <3>1. CASE q = p
      BY <1>f, <1>3, <1>4, <2>1, <3>1, PageIdFacts
    <3>2. CASE q # p
      <4>1. ptr'[k][q] = ptr[k][q] /\ wrote'[k][q] = wrote[k][q]
        BY <1>4, <3>2
      <4>2. ptr[k][q] # NoFrame => page_table[q] # f /\ page_table'[q] = page_table[q]
        BY <1>u, <1>3, <3>2, Zenon
      <4> QED
        BY <4>1, <4>2, Zenon DEF PointersStayValid
    <3> QED
      BY <3>1, <3>2, Zenon
  <2>3. ASSUME NEW q \in PageIds, page_table'[q] # NoFrame
        PROVE  frames'[page_table'[q]].pin_count = Cardinality(Holders(q)')
    <3>1. CASE q = p
      <4>1. Holders(q)' = {c}
        BY <1>f, <1>4, <2>1, <3>1, PageIdFacts DEF Holders
      <4>2. Cardinality(Holders(q)') = 1
        BY <4>1, FS_Singleton, Zenon
      <4> QED
        BY <1>2, <1>3, <3>1, <4>2
    <3>2. CASE q # p
      <4>1. page_table'[q] = page_table[q] /\ page_table[q] # f /\ page_table[q] # NoFrame
        BY <1>3, <2>3, <3>2, Zenon
      <4>2. Holders(q)' = Holders(q)
        BY <1>4, <3>2 DEF Holders
      <4>3. frames'[page_table[q]] = frames[page_table[q]]
        BY <1>2, <4>1, Zenon DEF TypeOK
      <4> QED
        BY <4>1, <4>2, <4>3, Zenon DEF PointersStayValid
    <3> QED
      BY <3>1, <3>2, Zenon
  <2> QED
    BY <2>2, <2>3, Zenon DEF PointersStayValid
<1> QED
  BY <1>1, <1>5, <1>6, <1>7, Zenon DEF PoolInv

\* A failed read leaves the victim's frame free and its page not resident.
LEMMA FreeVictim ==
  ASSUME IInv, HasVictim,
         frames' = [frames EXCEPT ![VictimFrame] = ResetFrame],
         page_table' = TableWithoutVictim(VictimFrame),
         free_list' = Append(FreeAfterVictim, VictimFrame),
         lru_list' = LRUAfterVictim,
         ptr' = ptr,
         wrote' = wrote
  PROVE  PoolInv'
<1> DEFINE f == VictimFrame
<1> USE DEF IInv
<1>f. /\ f \in Frames
      /\ FreeAfterVictim \in Seq(Frames) /\ IsInjective(FreeAfterVictim)
      /\ LRUAfterVictim \in Seq(Frames) /\ IsInjective(LRUAfterVictim)
      /\ Range(FreeAfterVictim) = Range(free_list) \ {f}
      /\ Range(LRUAfterVictim) = Range(lru_list) \ {f}
      /\ frames[f].pin_count = 0
  BY VictimFacts, Zenon
<1> HIDE DEF f
<1>u. /\ TableWithoutVictim(f) \in [PageIds -> Frames \cup {NoFrame}]
      /\ \A q \in PageIds : TableWithoutVictim(f)[q] =
           IF page_table[q] = f THEN NoFrame ELSE page_table[q]
      /\ \A q \in PageIds : page_table[q] = f =>
           \A k \in Clients : ptr[k][q] = NoFrame /\ ~wrote[k][q]
  BY <1>f, VictimUnused, Zenon
<1>e. /\ frames' = [frames EXCEPT ![f] = ResetFrame]
      /\ page_table' = TableWithoutVictim(f)
      /\ free_list' = Append(FreeAfterVictim, f)
  BY Zenon DEF f
<1>a. /\ free_list' \in Seq(Frames) /\ IsInjective(free_list')
      /\ Range(free_list') = Range(free_list) \cup {f}
  <2>1. f \notin Range(FreeAfterVictim)
    BY <1>f, Zenon
  <2>2. /\ Append(FreeAfterVictim, f) \in Seq(Frames)
        /\ IsInjective(Append(FreeAfterVictim, f))
        /\ Range(Append(FreeAfterVictim, f)) = Range(FreeAfterVictim) \cup {f}
    BY <1>f, <2>1, AppendElements, Zenon
  <2> QED
    BY <1>f, <1>e, <2>2, Zenon
<1>r. ResetFrame \in FrameRecords /\ ResetFrame.page_id = kInvalidPageId
  BY PageIdFacts, Zenon DEF ResetFrame, FrameRecords
<1>1. /\ frames' \in [Frames -> FrameRecords]
      /\ page_table' \in [PageIds -> Frames \cup {NoFrame}]
      /\ free_list' \in Seq(Frames)
      /\ lru_list' \in Seq(Frames)
      /\ ptr' \in [Clients -> [PageIds -> Frames \cup {NoFrame}]]
      /\ wrote' \in [Clients -> [PageIds -> BOOLEAN]]
  <2>1. frames \in [Frames -> FrameRecords]
    BY Zenon DEF TypeOK
  <2>2. frames' \in [Frames -> FrameRecords]
    BY <1>f, <1>e, <1>r, <2>1, Zenon
  <2>3. ptr' \in [Clients -> [PageIds -> Frames \cup {NoFrame}]]
        /\ wrote' \in [Clients -> [PageIds -> BOOLEAN]]
    BY Zenon DEF TypeOK
  <2> QED
    BY <1>f, <1>u, <1>e, <1>a, <2>2, <2>3, Zenon
<1>2. frames'[f] = ResetFrame /\ \A g \in Frames : g # f => frames'[g] = frames[g]
  BY <1>f, <1>e, Zenon DEF TypeOK
<1>3. \A q \in PageIds : page_table'[q] = IF page_table[q] = f THEN NoFrame ELSE page_table[q]
  BY <1>u, <1>e, Zenon
<1>4. FrameAccounting'
  <2>1. IsInjective(free_list') /\ IsInjective(lru_list')
    BY <1>f, <1>a, Zenon
  <2>2. ASSUME NEW g \in Frames
        PROVE  /\ g \in Range(free_list') <=> frames'[g].page_id = kInvalidPageId
               /\ g \in Range(lru_list') <=>
                    frames'[g].page_id # kInvalidPageId /\ frames'[g].pin_count = 0
               /\ frames'[g].page_id = kInvalidPageId => frames'[g] = ResetFrame
    <3>1. CASE g = f
      BY <1>f, <1>a, <1>r, <1>2, <3>1, Zenon
    <3>2. CASE g # f
      <4>1. frames'[g] = frames[g] /\ (g \in Range(free_list') <=> g \in Range(free_list))
            /\ (g \in Range(lru_list') <=> g \in Range(lru_list))
        BY <1>f, <1>a, <1>2, <3>2, Zenon
      <4> QED
        BY <4>1, Zenon DEF FrameAccounting
    <3> QED
      BY <3>1, <3>2, Zenon
  <2> QED
    BY <2>1, <2>2, Zenon DEF FrameAccounting
<1>5. PageTableCoherent'
  BY <1>f, <1>r, <1>2, <1>3, PageIdFacts DEF PageTableCoherent, TypeOK
<1>6. PointersStayValid'
  <2>1. \A q \in PageIds : Holders(q)' = Holders(q)
    BY Zenon DEF Holders
  <2>2. ASSUME NEW k \in Clients, NEW q \in PageIds
        PROVE  /\ ptr'[k][q] # NoFrame => page_table'[q] = ptr'[k][q]
               /\ wrote'[k][q] => ptr'[k][q] # NoFrame
    BY <1>u, <1>3, Zenon DEF PointersStayValid
  <2>3. ASSUME NEW q \in PageIds, page_table'[q] # NoFrame
        PROVE  frames'[page_table'[q]].pin_count = Cardinality(Holders(q)')
    <3>1. page_table'[q] = page_table[q] /\ page_table[q] # f /\ page_table[q] # NoFrame
      BY <1>3, <2>3, Zenon
    <3>2. frames'[page_table[q]] = frames[page_table[q]]
      BY <1>2, <3>1, Zenon DEF TypeOK
    <3> QED
      BY <2>1, <3>1, <3>2, Zenon DEF PointersStayValid
  <2> QED
    BY <2>2, <2>3, Zenon DEF PointersStayValid
<1> QED
  BY <1>1, <1>4, <1>5, <1>6, Zenon DEF PoolInv

\* HeaderCoversData and the type of the file follow from what a call did to it.
LEMMA FileCovered ==
  ASSUME IInv
  PROVE  /\ file \in Files
         /\ next_page_id = page_count /\ page_count \in 0..MaxPages + 1
         /\ up => Covered(file, page_count)
         /\ up /\ ~file.failed => page_count >= 1
         /\ \A q \in PageIds : page_table[q] # NoFrame => q < page_count
BY Zenon DEF IInv, TypeOK, HeaderCoversData, Covered, kFirstDataPageId

\* A write-back leaves the header covering the data.
LEMMA WriteBackCovered ==
  ASSUME IInv, NEW g \in Files, NEW f \in Frames, NEW h \in WriteBack(g, f),
         NEW n \in Nat, page_count <= n, Covered(g, n)
  PROVE  h \in Files /\ Covered(h, n)
<1>1. frames[f] \in FrameRecords /\ page_count \in Int
  BY DEF IInv, TypeOK
<1>2. WriteBackResult(g, f, h)
  BY <1>1, WriteBackOutcome, Zenon
<1>3. h \in Files /\ h.exists = g.exists /\ h.header = g.header /\ (g.failed => h = g)
  BY <1>2, Zenon DEF WriteBackResult
<1>4. ASSUME NEW q \in PageIds, h.pages[q] \in Values PROVE q < h.header.count
  <2>1. CASE h.pages[q] = g.pages[q]
    BY <1>3, <1>4, <2>1, Zenon DEF Covered
  <2>2. CASE h.pages[q] # g.pages[q]
    <3>1. ~g.failed /\ q < page_count
      BY <1>2, <2>2, Zenon DEF WriteBackResult, InRange
    <3>2. g.header.count = n /\ q \in Int
      BY <3>1, PageIdFacts DEF Covered
    <3> QED
      BY <1>1, <1>3, <3>1, <3>2
  <2> QED
    BY <2>1, <2>2, Zenon
<1> QED
  BY <1>3, <1>4, Zenon DEF Covered

(***************************************************************************)
(* The calls that hand out pages and take them back, and the clients'      *)
(* writes in between, preserve the invariant.                              *)
(***************************************************************************)

\* The conjuncts that FetchPage of a page that is not resident must restore.
LEMMA FetchMissPreserves ==
  ASSUME IInv, NEW c \in Clients, NEW p \in PageIds, FetchMiss(c, p)
  PROVE  IInv'
<1> DEFINE f == VictimFrame
<1>e. /\ up /\ ptr[c][p] = NoFrame /\ page_table[p] = NoFrame /\ HasVictim
      /\ lru_list' = LRUAfterVictim
      /\ next_page_id' = next_page_id /\ page_count' = page_count /\ up' = up /\ wrote' = wrote
  BY Zenon DEF FetchMiss
<1>f. f \in Frames /\ frames[f].pin_count = 0 /\ frames[f] \in FrameRecords
  BY <1>e, VictimFacts, Zenon DEF IInv, TypeOK
<1>1. PICK g \in WriteBack(file, f) : \E r \in ReadPage(g, p) :
           /\ file' = r.file
           /\ IF r.ok
              THEN /\ frames' = [frames EXCEPT ![f] =
                                   [page_id |-> p, pin_count |-> 1,
                                    is_dirty |-> FALSE, page |-> g.pages[p]]]
                   /\ page_table' = [TableWithoutVictim(f) EXCEPT ![p] = f]
                   /\ free_list' = FreeAfterVictim
                   /\ ptr' = [ptr EXCEPT ![c][p] = f]
              ELSE /\ frames' = [frames EXCEPT ![f] = ResetFrame]
                   /\ page_table' = TableWithoutVictim(f)
                   /\ free_list' = Append(FreeAfterVictim, f)
                   /\ ptr' = ptr
  BY Zenon DEF FetchMiss
<1>2. PICK r \in ReadPage(g, p) :
           /\ file' = r.file
           /\ IF r.ok
              THEN /\ frames' = [frames EXCEPT ![f] =
                                   [page_id |-> p, pin_count |-> 1,
                                    is_dirty |-> FALSE, page |-> g.pages[p]]]
                   /\ page_table' = [TableWithoutVictim(f) EXCEPT ![p] = f]
                   /\ free_list' = FreeAfterVictim
                   /\ ptr' = [ptr EXCEPT ![c][p] = f]
              ELSE /\ frames' = [frames EXCEPT ![f] = ResetFrame]
                   /\ page_table' = TableWithoutVictim(f)
                   /\ free_list' = Append(FreeAfterVictim, f)
                   /\ ptr' = ptr
  BY <1>1, Zenon
<1>c. /\ file \in Files /\ page_count \in 0..MaxPages + 1
      /\ Covered(file, page_count) /\ next_page_id = page_count
      /\ (~file.failed => page_count >= 1)
      /\ \A q \in PageIds : page_table[q] # NoFrame => q < page_count
  BY <1>e, FileCovered, Zenon
<1>w. /\ g \in Files /\ Covered(g, page_count)
      /\ WriteBackResult(file, f, g)
  <2>1. page_count \in Nat /\ page_count <= page_count
    BY <1>c
  <2> QED
    BY <1>c, <1>f, <2>1, WriteBackCovered, WriteBackOutcome, Zenon
<1>r. /\ r.file \in Files
      /\ r.file.exists = g.exists /\ r.file.header = g.header /\ r.file.pages = g.pages
      /\ ~r.file.failed => ~g.failed
      /\ r.ok => r.file = g /\ ~g.failed /\ InRange(p)
  BY <1>w, ReadPageOutcome, Zenon
<1>3. file' \in Files /\ Covered(file', page_count') /\ (~file'.failed => page_count >= 1)
  <2>1. ~g.failed => ~file.failed
    BY <1>w, Zenon DEF WriteBackResult
  <2> QED
    BY <1>e, <1>2, <1>c, <1>w, <1>r, <2>1, Zenon DEF Covered
<1>u. /\ TableWithoutVictim(f) \in [PageIds -> Frames \cup {NoFrame}]
      /\ \A q \in PageIds : TableWithoutVictim(f)[q] =
           IF page_table[q] = f THEN NoFrame ELSE page_table[q]
  BY <1>f, VictimUnused, Zenon
<1>v. \A q \in PageIds : page_table[q] = f <=> frames[f].page_id = q
  BY <1>f, Zenon DEF IInv, PageTableCoherent
<1>4. g.pages[p] \in Content
  BY <1>w, Zenon DEF Files
<1> HIDE DEF f
<1>5. CASE r.ok
  <2>1. /\ frames' = [frames EXCEPT ![f] =
                                   [page_id |-> p, pin_count |-> 1,
                                    is_dirty |-> FALSE, page |-> g.pages[p]]]
        /\ page_table' = [TableWithoutVictim(f) EXCEPT ![p] = f]
        /\ free_list' = FreeAfterVictim
        /\ ptr' = [ptr EXCEPT ![c][p] = f]
    BY <1>2, <1>5, Zenon
  <2>2. PoolInv'
    BY <1>e, <1>4, <2>1, InstallPage, Zenon DEF f
  <2>3. \A q \in PageIds : page_table'[q] =
          IF q = p THEN f ELSE IF page_table[q] = f THEN NoFrame ELSE page_table[q]
    BY <1>u, <2>1, Zenon
  <2>4. HeaderCoversData'
    BY <1>e, <1>c, <1>r, <1>3, <1>5, <2>3, Zenon
       DEF HeaderCoversData, Covered, kFirstDataPageId, InRange
  <2>5. CleanPagesMatchFile'
    <3>1. SUFFICES ASSUME ~file'.failed, NEW q \in PageIds,
                          page_table'[q] # NoFrame,
                          ~frames'[page_table'[q]].is_dirty,
                          \A k \in Clients : ~wrote'[k][q]
                   PROVE  frames'[page_table'[q]].page = file'.pages[q]
      BY Zenon DEF CleanPagesMatchFile
    <3>2. CASE q = p
      <4>1. frames'[f].page = g.pages[p] /\ page_table'[q] = f
        BY <1>f, <2>1, <2>3, <3>2, Zenon DEF IInv, TypeOK
      <4> QED
        BY <1>2, <1>r, <3>2, <4>1, Zenon
    <3>3. CASE q # p
      <4>1. page_table'[q] = page_table[q] /\ page_table[q] # f /\ page_table[q] # NoFrame
        BY <2>3, <3>1, <3>3, Zenon
      <4>2. frames'[page_table[q]] = frames[page_table[q]]
        BY <2>1, <4>1, Zenon DEF IInv, TypeOK
      <4>3. ~file.failed /\ file'.pages[q] = file.pages[q]
        BY <1>2, <1>v, <1>w, <1>r, <3>1, <4>1, Zenon DEF WriteBackResult
      <4> QED
        BY <1>e, <3>1, <4>1, <4>2, <4>3, Zenon DEF IInv, CleanPagesMatchFile
    <3> QED
      BY <3>2, <3>3, Zenon
  <2> QED
    BY <1>e, <1>c, <1>3, <2>2, <2>4, <2>5, Zenon DEF IInv, TypeOK, PoolInv
<1>6. CASE ~r.ok
  <2>1. /\ frames' = [frames EXCEPT ![f] = ResetFrame]
        /\ page_table' = TableWithoutVictim(f)
        /\ free_list' = Append(FreeAfterVictim, f)
        /\ ptr' = ptr
    BY <1>2, <1>6, Zenon
  <2>2. PoolInv'
    BY <1>e, <2>1, FreeVictim, Zenon DEF f
  <2>3. \A q \in PageIds : page_table'[q] = IF page_table[q] = f THEN NoFrame ELSE page_table[q]
    BY <1>u, <2>1, Zenon
  <2>4. HeaderCoversData'
    BY <1>e, <1>c, <1>r, <1>3, <2>3, Zenon DEF HeaderCoversData, Covered, kFirstDataPageId
  <2>5. CleanPagesMatchFile'
    <3>1. SUFFICES ASSUME ~file'.failed, NEW q \in PageIds,
                          page_table'[q] # NoFrame,
                          ~frames'[page_table'[q]].is_dirty,
                          \A k \in Clients : ~wrote'[k][q]
                   PROVE  frames'[page_table'[q]].page = file'.pages[q]
      BY Zenon DEF CleanPagesMatchFile
    <3>2. page_table'[q] = page_table[q] /\ page_table[q] # f /\ page_table[q] # NoFrame
      BY <2>3, <3>1, Zenon
    <3>3. frames'[page_table[q]] = frames[page_table[q]]
      BY <2>1, <3>2, Zenon DEF IInv, TypeOK
    <3>4. ~file.failed /\ file'.pages[q] = file.pages[q]
      BY <1>2, <1>v, <1>w, <1>r, <3>1, <3>2, Zenon DEF WriteBackResult
    <3> QED
      BY <1>e, <3>1, <3>2, <3>3, <3>4, Zenon DEF IInv, CleanPagesMatchFile
  <2> QED
    BY <1>e, <1>c, <1>3, <2>2, <2>4, <2>5, Zenon DEF IInv, TypeOK, PoolInv
<1> QED
  BY <1>5, <1>6, <1>r, Zenon DEF ReadPage

\* The counters advance with the header, and the fresh page is not resident.
LEMMA NewPagePreserves ==
  ASSUME IInv, NEW c \in Clients, NewPage(c)
  PROVE  IInv'
<1> DEFINE f == VictimFrame
           p == next_page_id
<1>e. /\ up /\ next_page_id <= MaxPages
      /\ next_page_id' = next_page_id + 1 /\ page_count' = page_count + 1
      /\ up' = up /\ wrote' = wrote
  BY Zenon DEF NewPage, BumpCounters
<1>1. PICK a \in AllocatePage(file) :
           IF a.ok /\ HasVictim
           THEN /\ file' \in WriteBack(a.file, f)
                /\ frames' = [frames EXCEPT ![f] =
                                [page_id |-> p, pin_count |-> 1,
                                 is_dirty |-> TRUE, page |-> Blank]]
                /\ page_table' = [TableWithoutVictim(f) EXCEPT ![p] = f]
                /\ free_list' = FreeAfterVictim
                /\ lru_list' = LRUAfterVictim
                /\ ptr' = [ptr EXCEPT ![c][p] = f]
           ELSE /\ file' = a.file
                /\ UNCHANGED <<poolVars, ptr>>
  BY Zenon DEF NewPage
<1>c. /\ file \in Files /\ page_count \in 0..MaxPages + 1
      /\ Covered(file, page_count) /\ next_page_id = page_count
      /\ (~file.failed => page_count >= 1)
      /\ \A q \in PageIds : page_table[q] # NoFrame => q < page_count
  BY <1>e, FileCovered, Zenon
<1>2. page_count \in Nat /\ (~file.failed => p \in PageIds /\ page_count \in PageIds)
  BY <1>c, <1>e, PageManagerAssumption DEF PageIds
<1>n. next_page_id' \in 0..MaxPages + 1 /\ page_count' \in 0..MaxPages + 1
  BY <1>c, <1>e, PageManagerAssumption
<1>3. AllocateResult(file, a)
  BY <1>c, <1>2, AllocatePageOutcome, Zenon
<1>4. a.file \in Files /\ Covered(a.file, page_count + 1) /\ (~a.file.failed => ~file.failed)
  <2>1. /\ a.file \in Files /\ a.file.exists = file.exists
        /\ a.file.header \in {file.header, HeaderOf(p + 1, page_count + 1)}
        /\ (~a.file.failed => a.file.header = HeaderOf(p + 1, page_count + 1))
        /\ (file.failed => a.file = file)
    BY <1>3, Zenon DEF AllocateResult
  <2>2. CASE file.failed
    BY <1>c, <2>1, <2>2, Zenon DEF Covered
  <2>3. CASE ~file.failed
    <3>1. /\ p \in PageIds /\ file.header.count = page_count
          /\ \A q \in PageIds : q # p => a.file.pages[q] = file.pages[q]
          /\ a.file.pages[p] \in {file.pages[p], Blank, Torn}
          /\ file.exists
      BY <1>c, <1>2, <1>3, <2>3 DEF AllocateResult, Covered, NoHeader, HeaderOf
    <3>2. ~(file.pages[p] \in Values)
      BY <1>c, <1>2, <3>1 DEF Covered
    <3>3. ~(a.file.pages[p] \in Values)
      BY <3>1, <3>2, PageIdFacts, Zenon
    <3>4. /\ a.file.header.next = a.file.header.count
          /\ a.file.header.count \in {page_count, page_count + 1}
          /\ (~a.file.failed => a.file.header.count = page_count + 1)
      BY <1>c, <2>1, <3>1 DEF Covered, HeaderOf
    <3>5. ASSUME NEW q \in PageIds, a.file.pages[q] \in Values
          PROVE  q < a.file.header.count
      <4>1. q # p /\ file.pages[q] \in Values /\ q \in Int
        BY <3>1, <3>3, <3>5, PageIdFacts
      <4>2. q < page_count
        BY <1>c, <3>1, <4>1, Zenon DEF Covered
      <4> QED
        BY <1>2, <3>4, <4>1, <4>2
    <3> QED
      BY <2>1, <2>3, <3>1, <3>4, <3>5, Zenon DEF Covered
  <2> QED
    BY <2>2, <2>3, Zenon
<1> HIDE DEF f, p
<1>5. CASE a.ok /\ HasVictim
  <2>1. /\ file' \in WriteBack(a.file, f)
        /\ frames' = [frames EXCEPT ![f] =
                        [page_id |-> p, pin_count |-> 1,
                         is_dirty |-> TRUE, page |-> Blank]]
        /\ page_table' = [TableWithoutVictim(f) EXCEPT ![p] = f]
        /\ free_list' = FreeAfterVictim
        /\ lru_list' = LRUAfterVictim
        /\ ptr' = [ptr EXCEPT ![c][p] = f]
    BY <1>1, <1>5, Zenon
  <2>2. ~file.failed /\ p \in PageIds /\ p = page_count
    BY <1>c, <1>2, <1>3, <1>5, Zenon DEF AllocateResult, p
  <2>3. page_table[p] = NoFrame
    BY <1>c, <2>2
  <2>f. f \in Frames /\ frames[f].pin_count = 0 /\ frames[f] \in FrameRecords
    BY <1>5, VictimFacts, Zenon DEF IInv, TypeOK, f
  <2>4. PoolInv'
    BY <1>e, <1>5, <2>1, <2>2, <2>3, InstallPage, PageIdFacts, Zenon DEF f
  <2>5. file' \in Files /\ Covered(file', page_count + 1) /\ WriteBackResult(a.file, f, file')
    <3>1. page_count + 1 \in Nat /\ page_count <= page_count + 1
      BY <1>2
    <3> QED
      BY <1>4, <2>1, <2>f, <3>1, WriteBackCovered, WriteBackOutcome, Zenon
  <2>u. \A q \in PageIds : TableWithoutVictim(f)[q] =
             IF page_table[q] = f THEN NoFrame ELSE page_table[q]
    BY <2>f, VictimUnused, Zenon
  <2>v. \A q \in PageIds : page_table[q] = f <=> frames[f].page_id = q
    BY <2>f, Zenon DEF IInv, PageTableCoherent
  <2>t. TableWithoutVictim(f) \in [PageIds -> Frames \cup {NoFrame}]
    BY <2>f, VictimUnused, Zenon
  <2>6. \A q \in PageIds : page_table'[q] =
          IF q = p THEN f ELSE IF page_table[q] = f THEN NoFrame ELSE page_table[q]
    BY <2>1, <2>u, <2>t, Zenon
  <2>7. HeaderCoversData'
    <3>1. \A q \in PageIds : page_table'[q] # NoFrame => q < page_count'
      BY <1>e, <1>c, <1>2, <2>2, <2>6, PageIdFacts
    <3> QED
      BY <1>e, <1>c, <1>2, <2>5, <3>1 DEF HeaderCoversData, Covered, kFirstDataPageId
  <2>8. CleanPagesMatchFile'
    <3>1. SUFFICES ASSUME ~file'.failed, NEW q \in PageIds,
                          page_table'[q] # NoFrame,
                          ~frames'[page_table'[q]].is_dirty,
                          \A k \in Clients : ~wrote'[k][q]
                   PROVE  frames'[page_table'[q]].page = file'.pages[q]
      BY Zenon DEF CleanPagesMatchFile
    <3>2. q # p
      BY <2>1, <2>6, <2>f, <3>1, Zenon DEF IInv, TypeOK
    <3>3. page_table'[q] = page_table[q] /\ page_table[q] # f /\ page_table[q] # NoFrame
      BY <2>6, <3>1, <3>2, Zenon
    <3>4. frames'[page_table[q]] = frames[page_table[q]]
      BY <2>1, <3>3, Zenon DEF IInv, TypeOK
    <3>5. file'.pages[q] = a.file.pages[q] /\ a.file.pages[q] = file.pages[q]
      BY <1>3, <2>5, <2>v, <3>2, <3>3, Zenon DEF WriteBackResult, AllocateResult, p
    <3> QED
      BY <1>e, <2>2, <3>1, <3>3, <3>4, <3>5, Zenon DEF IInv, CleanPagesMatchFile
  <2> QED
    BY <1>e, <1>n, <2>4, <2>5, <2>7, <2>8, Zenon DEF IInv, TypeOK, PoolInv
<1>6. CASE ~(a.ok /\ HasVictim)
  <2>1. file' = a.file /\ UNCHANGED <<poolVars, ptr>>
    BY <1>1, <1>6, Zenon
  <2>2. /\ frames' = frames /\ page_table' = page_table /\ free_list' = free_list
        /\ lru_list' = lru_list /\ ptr' = ptr
    BY <2>1, Zenon DEF poolVars
  <2>3. TypeOK'
    BY <1>e, <1>n, <1>4, <2>1, <2>2, Zenon DEF IInv, TypeOK
  <2>4. FrameAccounting' /\ PageTableCoherent'
    BY <2>2, Zenon DEF IInv, FrameAccounting, PageTableCoherent
  <2>5. PointersStayValid'
    BY <1>e, <2>2, Zenon DEF IInv, PointersStayValid, Holders
  <2>6. HeaderCoversData'
    <3>1. \A q \in PageIds : page_table'[q] # NoFrame => q < page_count'
      BY <1>e, <1>c, <1>2, <2>2, PageIdFacts
    <3> QED
      BY <1>e, <1>c, <1>2, <1>4, <2>1, <3>1 DEF HeaderCoversData, Covered, kFirstDataPageId
  <2>7. CleanPagesMatchFile'
    <3>1. SUFFICES ASSUME ~file'.failed, NEW q \in PageIds,
                          page_table[q] # NoFrame,
                          ~frames[page_table[q]].is_dirty,
                          \A k \in Clients : ~wrote[k][q]
                   PROVE  frames[page_table[q]].page = file'.pages[q]
      BY <1>e, <2>2, Zenon DEF CleanPagesMatchFile
    <3>2. ~file.failed /\ q # p
      BY <1>c, <1>2, <1>4, <2>1, <3>1 DEF p
    <3>3. file'.pages[q] = file.pages[q]
      BY <1>3, <2>1, <3>2, Zenon DEF AllocateResult, p
    <3> QED
      BY <3>1, <3>2, <3>3, Zenon DEF IInv, CleanPagesMatchFile
  <2> QED
    BY <2>3, <2>4, <2>5, <2>6, <2>7, Zenon DEF IInv
<1> QED
  BY <1>5, <1>6, Zenon

\* A hit adds one pin and one holder.
LEMMA FetchHitPreserves ==
  ASSUME IInv, NEW c \in Clients, NEW p \in PageIds, FetchHit(c, p)
  PROVE  IInv'
<1> DEFINE f == page_table[p]
<1> USE DEF IInv
<1>e. /\ up /\ ptr[c][p] = NoFrame /\ f # NoFrame
      /\ IF frames[f].pin_count = 0 THEN lru_list' = RemoveFirst(lru_list, f)
                                    ELSE lru_list' = lru_list
      /\ frames' = [frames EXCEPT ![f].pin_count = @ + 1]
      /\ ptr' = [ptr EXCEPT ![c][p] = f]
      /\ UNCHANGED <<file, next_page_id, page_count, up, page_table, free_list, wrote>>
  BY Zenon DEF FetchHit, LRUPin
<1>f. f \in Frames /\ frames[f] \in FrameRecords /\ frames[f].page_id = p
      /\ frames[f].pin_count \in Nat
  BY <1>e DEF TypeOK, PageTableCoherent, FrameRecords
<1> HIDE DEF f
<1>1. /\ frames'[f] = [frames[f] EXCEPT !.pin_count = @ + 1]
      /\ \A g \in Frames : g # f => frames'[g] = frames[g]
      /\ frames' \in [Frames -> FrameRecords]
  <2>1. frames \in [Frames -> FrameRecords]
    BY Zenon DEF TypeOK
  <2>2. [frames[f] EXCEPT !.pin_count = @ + 1] \in FrameRecords
    BY <1>f DEF FrameRecords
  <2> QED
    BY <1>e, <1>f, <2>1, <2>2, Zenon
<1>r. /\ frames'[f].page_id = p /\ frames'[f].pin_count = frames[f].pin_count + 1
      /\ frames'[f].is_dirty = frames[f].is_dirty /\ frames'[f].page = frames[f].page
  BY <1>1, <1>f, Zenon DEF FrameRecords
<1>2. \A k \in Clients, q \in PageIds : ptr'[k][q] = IF k = c /\ q = p THEN f ELSE ptr[k][q]
  BY <1>e, Zenon DEF TypeOK
<1>3. /\ lru_list' \in Seq(Frames) /\ IsInjective(lru_list')
      /\ Range(lru_list') = Range(lru_list) \ {f}
  <2>1. CASE frames[f].pin_count = 0
    BY <1>e, <1>f, <2>1, RemoveFirstElements DEF TypeOK, FrameAccounting
  <2>2. CASE frames[f].pin_count # 0
    BY <1>e, <1>f, <2>2, Zenon DEF TypeOK, FrameAccounting
  <2> QED
    BY <2>1, <2>2, Zenon
<1>4. TypeOK'
  BY <1>e, <1>f, <1>1, <1>3, Zenon DEF TypeOK
<1>5. FrameAccounting'
  <2>1. ASSUME NEW g \in Frames
        PROVE  /\ g \in Range(free_list') <=> frames'[g].page_id = kInvalidPageId
               /\ g \in Range(lru_list') <=>
                    frames'[g].page_id # kInvalidPageId /\ frames'[g].pin_count = 0
               /\ frames'[g].page_id = kInvalidPageId => frames'[g] = ResetFrame
    <3>1. CASE g = f
      BY <1>e, <1>f, <1>r, <1>3, <3>1, PageIdFacts DEF FrameAccounting
    <3>2. CASE g # f
      BY <1>e, <1>1, <1>3, <3>2, Zenon DEF FrameAccounting
    <3> QED
      BY <3>1, <3>2, Zenon
  <2> QED
    BY <1>e, <1>3, <2>1, Zenon DEF FrameAccounting
<1>6. PageTableCoherent'
  BY <1>e, <1>f, <1>1, <1>r DEF PageTableCoherent
<1>7. PointersStayValid'
  <2>1. \A k \in Clients, q \in PageIds :
          /\ ptr'[k][q] # NoFrame => page_table'[q] = ptr'[k][q]
          /\ wrote'[k][q] => ptr'[k][q] # NoFrame
    BY <1>e, <1>2 DEF PointersStayValid, f
  <2>2. ASSUME NEW q \in PageIds, page_table[q] # NoFrame
        PROVE  frames'[page_table[q]].pin_count = Cardinality(Holders(q)')
    <3>1. CASE q = p
      <4>1. Holders(q)' = Holders(q) \cup {c} /\ c \notin Holders(q)
        BY <1>e, <1>2, <3>1 DEF Holders
      <4>2. Cardinality(Holders(q)') = Cardinality(Holders(q)) + 1
        BY <4>1, HoldersFinite, FS_AddElement, Zenon
      <4> QED
        BY <1>r, <2>2, <3>1, <4>2, Zenon DEF PointersStayValid, f
    <3>2. CASE q # p
      <4>1. Holders(q)' = Holders(q)
        BY <1>2, <3>2, Zenon DEF Holders
      <4>2. page_table[q] \in Frames /\ page_table[q] # f
        BY <1>f, <2>2, <3>2 DEF TypeOK, PageTableCoherent
      <4> QED
        BY <1>1, <2>2, <4>1, <4>2, Zenon DEF PointersStayValid
    <3> QED
      BY <3>1, <3>2, Zenon
  <2> QED
    BY <1>e, <2>1, <2>2, Zenon DEF PointersStayValid
<1>8. HeaderCoversData'
  BY <1>e, Zenon DEF HeaderCoversData
<1>9. CleanPagesMatchFile'
  <2>1. \A q \in PageIds : page_table[q] # NoFrame =>
          /\ frames'[page_table[q]].is_dirty = frames[page_table[q]].is_dirty
          /\ frames'[page_table[q]].page = frames[page_table[q]].page
    BY <1>1, <1>r, Zenon DEF TypeOK
  <2> QED
    BY <1>e, <2>1, Zenon DEF CleanPagesMatchFile
<1> QED
  BY <1>4, <1>5, <1>6, <1>7, <1>8, <1>9, Zenon

\* A client's write goes to the frame that caches its page.
LEMMA ClientWritePreserves ==
  ASSUME IInv, NEW c \in Clients, NEW p \in PageIds, NEW v \in Values, ClientWrite(c, p, v)
  PROVE  IInv'
<1> DEFINE f == ptr[c][p]
<1> USE DEF IInv
<1>e. /\ up /\ f # NoFrame
      /\ frames' = [frames EXCEPT ![f].page = v]
      /\ wrote' = [wrote EXCEPT ![c][p] = TRUE]
      /\ UNCHANGED <<file, next_page_id, page_count, up, page_table, free_list, lru_list, ptr>>
  BY Zenon DEF ClientWrite
<1>f. f \in Frames /\ page_table[p] = f /\ frames[f] \in FrameRecords /\ frames[f].page_id = p
      /\ v \in Content
  BY <1>e, PageIdFacts DEF TypeOK, PointersStayValid, PageTableCoherent
<1> HIDE DEF f
<1>1. /\ frames' \in [Frames -> FrameRecords]
      /\ \A g \in Frames : /\ frames'[g].page_id = frames[g].page_id
                           /\ frames'[g].pin_count = frames[g].pin_count
                           /\ frames'[g].is_dirty = frames[g].is_dirty
      /\ \A g \in Frames : g # f => frames'[g] = frames[g]
  BY <1>e, <1>f, Zenon DEF TypeOK, FrameRecords
<1>2. \A k \in Clients, q \in PageIds : wrote'[k][q] = IF k = c /\ q = p THEN TRUE ELSE wrote[k][q]
  BY <1>e, Zenon DEF TypeOK
<1>3. TypeOK'
  BY <1>e, <1>1, Zenon DEF TypeOK
<1>4. FrameAccounting'
  <2>1. \A g \in Frames : frames'[g].page_id = kInvalidPageId => frames'[g] = ResetFrame
    BY <1>f, <1>1, PageIdFacts DEF FrameAccounting
  <2> QED
    BY <1>e, <1>1, <2>1 DEF FrameAccounting
<1>5. PageTableCoherent'
  BY <1>e, <1>1 DEF PageTableCoherent
<1>6. PointersStayValid'
  <2>1. \A q \in PageIds : Holders(q)' = Holders(q)
    BY <1>e, Zenon DEF Holders
  <2>2. \A q \in PageIds : page_table[q] # NoFrame =>
          frames'[page_table[q]].pin_count = frames[page_table[q]].pin_count
    BY <1>1, Zenon DEF TypeOK
  <2> QED
    BY <1>e, <1>2, <2>1, <2>2 DEF PointersStayValid, f
<1>7. HeaderCoversData'
  BY <1>e, Zenon DEF HeaderCoversData
<1>8. CleanPagesMatchFile'
  <2>1. \A q \in PageIds : page_table[q] # NoFrame /\ q # p =>
          frames'[page_table[q]] = frames[page_table[q]]
    BY <1>f, <1>1 DEF TypeOK, PageTableCoherent
  <2>2. ASSUME ~file.failed, NEW q \in PageIds, page_table[q] # NoFrame,
               ~frames'[page_table[q]].is_dirty, \A k \in Clients : ~wrote'[k][q]
        PROVE  frames'[page_table[q]].page = file.pages[q]
    <3>1. q # p /\ \A k \in Clients : ~wrote[k][q]
      BY <1>2, <2>2, Zenon
    <3> QED
      BY <2>1, <2>2, <3>1, Zenon DEF CleanPagesMatchFile
  <2> QED
    BY <1>e, <2>2, Zenon DEF CleanPagesMatchFile
<1> QED
  BY <1>3, <1>4, <1>5, <1>6, <1>7, <1>8, Zenon

\* An unpin takes one pin and one holder away, and loses no dirty bit.
LEMMA UnpinPagePreserves ==
  ASSUME IInv, NEW c \in Clients, NEW p \in PageIds, NEW d \in BOOLEAN, UnpinPage(c, p, d)
  PROVE  IInv'
<1> DEFINE f == page_table[p]
<1> USE DEF IInv
<1>e. /\ up /\ ptr[c][p] # NoFrame /\ (wrote[c][p] => d)
      /\ f # NoFrame /\ frames[f].pin_count > 0
      /\ frames' = [frames EXCEPT ![f] = Unpinned(@, d)]
      /\ IF frames'[f].pin_count = 0
         THEN lru_list' = IF f \in Range(lru_list) THEN lru_list ELSE <<f>> \o lru_list
         ELSE lru_list' = lru_list
      /\ ptr' = [ptr EXCEPT ![c][p] = NoFrame]
      /\ wrote' = [wrote EXCEPT ![c][p] = FALSE]
      /\ UNCHANGED <<file, next_page_id, page_count, up, page_table, free_list>>
  BY Zenon DEF UnpinPage, LRUUnpin
<1>f. f \in Frames /\ frames[f] \in FrameRecords /\ frames[f].page_id = p
      /\ frames[f].pin_count \in Nat
  BY <1>e DEF TypeOK, PageTableCoherent, FrameRecords
<1> HIDE DEF f
<1>u. /\ Unpinned(frames[f], d) \in FrameRecords
      /\ Unpinned(frames[f], d).page_id = p
      /\ Unpinned(frames[f], d).pin_count = frames[f].pin_count - 1
      /\ Unpinned(frames[f], d).is_dirty <=> frames[f].is_dirty \/ d
      /\ Unpinned(frames[f], d).page = frames[f].page
  <2> DEFINE b == frames[f].is_dirty \/ d
  <2>1. b \in BOOLEAN /\ (b <=> frames[f].is_dirty \/ d)
    BY <1>f, Zenon DEF FrameRecords
  <2>2. Unpinned(frames[f], d) =
          [frames[f] EXCEPT !.is_dirty = b, !.pin_count = frames[f].pin_count - 1]
    BY Zenon DEF Unpinned
  <2>3. frames[f].pin_count - 1 \in Nat
    BY <1>e, <1>f
  <2> HIDE DEF b
  <2>4. frames[f] \in [page_id : PageIds \cup {kInvalidPageId}, pin_count : Nat,
                       is_dirty : BOOLEAN, page : Content]
    BY <1>f, Zenon DEF FrameRecords
  <2> QED
    BY <1>f, <2>1, <2>2, <2>3, <2>4, Zenon DEF FrameRecords
<1>1. /\ frames'[f] = Unpinned(frames[f], d)
      /\ \A g \in Frames : g # f => frames'[g] = frames[g]
      /\ frames' \in [Frames -> FrameRecords]
  <2>1. frames \in [Frames -> FrameRecords]
    BY Zenon DEF TypeOK
  <2> QED
    BY <1>e, <1>f, <1>u, <2>1, Zenon
<1>2. /\ \A k \in Clients, q \in PageIds :
           ptr'[k][q] = IF k = c /\ q = p THEN NoFrame ELSE ptr[k][q]
      /\ \A k \in Clients, q \in PageIds :
           wrote'[k][q] <=> wrote[k][q] /\ ~(k = c /\ q = p)
  BY <1>e, Zenon DEF TypeOK
<1>3. /\ lru_list' \in Seq(Frames) /\ IsInjective(lru_list')
      /\ Range(lru_list') =
           IF frames'[f].pin_count = 0 THEN Range(lru_list) \cup {f} ELSE Range(lru_list)
  <2>1. f \notin Range(lru_list) /\ lru_list \in Seq(Frames) /\ IsInjective(lru_list)
    BY <1>e, <1>f DEF TypeOK, FrameAccounting
  <2>2. /\ <<f>> \o lru_list \in Seq(Frames) /\ IsInjective(<<f>> \o lru_list)
        /\ Range(<<f>> \o lru_list) = Range(lru_list) \cup {f}
    BY <1>f, <2>1, ConsElements, Zenon
  <2> QED
    BY <1>e, <2>1, <2>2, Zenon
<1>4. TypeOK'
  BY <1>e, <1>1, <1>3, Zenon DEF TypeOK
<1>5. FrameAccounting'
  <2>1. ASSUME NEW g \in Frames
        PROVE  /\ g \in Range(free_list') <=> frames'[g].page_id = kInvalidPageId
               /\ g \in Range(lru_list') <=>
                    frames'[g].page_id # kInvalidPageId /\ frames'[g].pin_count = 0
               /\ frames'[g].page_id = kInvalidPageId => frames'[g] = ResetFrame
    <3>1. CASE g = f
      <4>1. f \notin Range(lru_list) /\ f \notin Range(free_list)
        BY <1>e, <1>f, PageIdFacts DEF FrameAccounting
      <4> QED
        BY <1>e, <1>u, <1>1, <1>3, <3>1, <4>1, PageIdFacts, Zenon
    <3>2. CASE g # f
      BY <1>e, <1>1, <1>3, <3>2, Zenon DEF FrameAccounting
    <3> QED
      BY <3>1, <3>2, Zenon
  <2> QED
    BY <1>e, <1>3, <2>1, Zenon DEF FrameAccounting
<1>6. PageTableCoherent'
  BY <1>e, <1>f, <1>1, <1>u DEF PageTableCoherent
<1>7. PointersStayValid'
  <2>1. \A k \in Clients, q \in PageIds :
          /\ ptr'[k][q] # NoFrame => page_table'[q] = ptr'[k][q]
          /\ wrote'[k][q] => ptr'[k][q] # NoFrame
    BY <1>e, <1>2 DEF PointersStayValid
  <2>2. ASSUME NEW q \in PageIds, page_table[q] # NoFrame
        PROVE  frames'[page_table[q]].pin_count = Cardinality(Holders(q)')
    <3>1. CASE q = p
      <4>1. Holders(q)' = Holders(q) \ {c} /\ c \in Holders(q)
        BY <1>e, <1>2, <3>1 DEF Holders
      <4>2. Cardinality(Holders(q)') = Cardinality(Holders(q)) - 1
        BY <4>1, HoldersFinite, FS_RemoveElement, Zenon
      <4> QED
        BY <1>u, <1>1, <2>2, <3>1, <4>2, Zenon DEF PointersStayValid, f
    <3>2. CASE q # p
      <4>1. Holders(q)' = Holders(q)
        BY <1>2, <3>2 DEF Holders
      <4>2. page_table[q] \in Frames /\ page_table[q] # f
        BY <1>f, <2>2, <3>2 DEF TypeOK, PageTableCoherent
      <4> QED
        BY <1>1, <2>2, <4>1, <4>2, Zenon DEF PointersStayValid
    <3> QED
      BY <3>1, <3>2, Zenon
  <2> QED
    BY <1>e, <2>1, <2>2, Zenon DEF PointersStayValid
<1>8. HeaderCoversData'
  BY <1>e, Zenon DEF HeaderCoversData
<1>9. CleanPagesMatchFile'
  <2>1. ASSUME ~file.failed, NEW q \in PageIds, page_table[q] # NoFrame,
               ~frames'[page_table[q]].is_dirty, \A k \in Clients : ~wrote'[k][q]
        PROVE  frames'[page_table[q]].page = file.pages[q]
    <3>1. CASE q = p
      <4>1. ~frames[f].is_dirty /\ ~d /\ frames'[f].page = frames[f].page
        BY <1>u, <1>1, <2>1, <3>1, Zenon DEF f
      <4>2. \A k \in Clients : ~wrote[k][q]
        BY <1>e, <1>2, <2>1, <3>1, <4>1
      <4> QED
        BY <2>1, <3>1, <4>1, <4>2, Zenon DEF CleanPagesMatchFile, f
    <3>2. CASE q # p
      <4>1. page_table[q] \in Frames /\ page_table[q] # f
        BY <1>f, <2>1, <3>2 DEF TypeOK, PageTableCoherent
      <4>2. \A k \in Clients : ~wrote[k][q]
        BY <1>2, <2>1, <3>2, Zenon
      <4> QED
        BY <1>1, <2>1, <4>1, <4>2, Zenon DEF CleanPagesMatchFile
    <3> QED
      BY <3>1, <3>2, Zenon
  <2> QED
    BY <1>e, <2>1, Zenon DEF CleanPagesMatchFile
<1> QED
  BY <1>4, <1>5, <1>6, <1>7, <1>8, <1>9, Zenon

(***************************************************************************)
(* Flushing, start and stop preserve it.                                   *)
(***************************************************************************)

\* Flushing only clears dirty bits of frames that hold a page.
LEMMA FlushKeepsPool ==
  ASSUME IInv, frames' \in [Frames -> FrameRecords],
         \A g \in Frames : /\ frames'[g].page_id = frames[g].page_id
                           /\ frames'[g].pin_count = frames[g].pin_count
                           /\ frames[g].page_id = kInvalidPageId => frames'[g] = frames[g],
         UNCHANGED <<page_table, free_list, lru_list, ptr, wrote>>
  PROVE  PoolInv'
<1> USE DEF IInv
<1>1. FrameAccounting'
  BY Zenon DEF FrameAccounting
<1>2. PageTableCoherent'
  BY DEF PageTableCoherent
<1>3. PointersStayValid'
  <2>1. \A q \in PageIds : Holders(q)' = Holders(q)
    BY Zenon DEF Holders
  <2>2. \A q \in PageIds : page_table[q] # NoFrame =>
          frames'[page_table[q]].pin_count = frames[page_table[q]].pin_count
    BY Zenon DEF TypeOK
  <2> QED
    BY <2>1, <2>2 DEF PointersStayValid
<1> QED
  BY <1>1, <1>2, <1>3, Zenon DEF PoolInv, TypeOK

\* FlushPage: the frame is marked clean only when its image is in the file.
LEMMA FlushPagePreserves ==
  ASSUME IInv, NEW p \in PageIds, FlushPage(p)
  PROVE  IInv'
<1> DEFINE f == page_table[p]
<1>e. /\ up /\ f # NoFrame
      /\ UNCHANGED <<next_page_id, page_count, up, page_table, free_list, lru_list, ptr, wrote>>
  BY Zenon DEF FlushPage, clientVars
<1>1. PICK w \in WritePage(file, p, frames[f].page) :
        /\ file' = w.file
        /\ frames' = IF w.ok THEN [frames EXCEPT ![f].is_dirty = FALSE] ELSE frames
  BY Zenon DEF FlushPage
<1>f. /\ f \in Frames /\ frames[f] \in FrameRecords /\ frames[f].page_id = p
      /\ frames[f].page \in Content /\ frames \in [Frames -> FrameRecords]
  BY <1>e DEF IInv, TypeOK, PageTableCoherent, FrameRecords
<1>c. /\ file \in Files /\ page_count \in 0..MaxPages + 1
      /\ Covered(file, page_count) /\ next_page_id = page_count
      /\ (~file.failed => page_count >= 1)
      /\ \A q \in PageIds : page_table[q] # NoFrame => q < page_count
  BY <1>e, FileCovered, Zenon
<1>w. WriteResult(file, p, frames[f].page, w)
  BY <1>c, <1>f, WritePageOutcome, Zenon
<1>i. InRange(p)
  BY <1>c, <1>e, Zenon DEF InRange
<1>t. \A q \in PageIds : page_table[q] # NoFrame =>
        page_table[q] \in Frames /\ (q # p => page_table[q] # f)
  BY <1>f DEF IInv, TypeOK, PageTableCoherent
<1>p. page_table[p] = f
  BY Zenon
<1> HIDE DEF f
<1>2. /\ frames' \in [Frames -> FrameRecords]
      /\ \A g \in Frames : /\ frames'[g].page_id = frames[g].page_id
                           /\ frames'[g].pin_count = frames[g].pin_count
                           /\ frames'[g].page = frames[g].page
                           /\ g # f => frames'[g] = frames[g]
  BY <1>1, <1>f, Zenon DEF FrameRecords
<1>3. PoolInv'
  BY <1>e, <1>f, <1>2, PageIdFacts, FlushKeepsPool, Zenon
<1>4. file' \in Files /\ Covered(file', page_count') /\ (~file'.failed => ~file.failed)
  <2>1. /\ file' \in Files /\ file'.exists = file.exists /\ file'.header = file.header
        /\ (file.failed => file' = file)
        /\ \A q \in PageIds : q # p => file'.pages[q] = file.pages[q]
        /\ (file' # file => ~file.failed)
    BY <1>1, <1>w, Zenon DEF WriteResult
  <2>2. ASSUME NEW q \in PageIds, file'.pages[q] \in Values PROVE q < file'.header.count
    <3>1. CASE file' = file
      BY <1>c, <2>2, <3>1, Zenon DEF Covered
    <3>2. CASE file' # file /\ q = p
      BY <1>c, <1>i, <2>1, <3>2, Zenon DEF Covered, InRange
    <3>3. CASE q # p
      BY <1>c, <2>1, <2>2, <3>3, Zenon DEF Covered
    <3> QED
      BY <3>1, <3>2, <3>3, Zenon
  <2> QED
    BY <1>e, <1>c, <2>1, <2>2, Zenon DEF Covered
<1>5. HeaderCoversData'
  BY <1>e, <1>c, <1>4, Zenon DEF HeaderCoversData, Covered, kFirstDataPageId
<1>6. CleanPagesMatchFile'
  <2>1. ASSUME ~file'.failed, NEW q \in PageIds, page_table[q] # NoFrame,
               ~frames'[page_table[q]].is_dirty, \A k \in Clients : ~wrote[k][q]
        PROVE  frames'[page_table[q]].page = file'.pages[q]
    <3>1. CASE q = p
      <4>1. w.ok
        BY <1>1, <1>w, <1>i, <2>1, Zenon DEF WriteResult
      <4> QED
        BY <1>1, <1>f, <1>w, <1>p, <1>2, <2>1, <3>1, <4>1 DEF WriteResult
    <3>2. CASE q # p
      <4>1. frames'[page_table[q]] = frames[page_table[q]]
        BY <1>t, <1>2, <2>1, <3>2, Zenon
      <4>2. file'.pages[q] = file.pages[q]
        BY <1>1, <1>w, <3>2, Zenon DEF WriteResult
      <4> QED
        BY <1>4, <2>1, <4>1, <4>2, Zenon DEF IInv, CleanPagesMatchFile
    <3> QED
      BY <3>1, <3>2, Zenon
  <2> QED
    BY <1>e, <2>1, Zenon DEF CleanPagesMatchFile
<1> QED
  BY <1>e, <1>c, <1>3, <1>4, <1>5, <1>6, Zenon DEF IInv, TypeOK, PoolInv

\* File and frames once the dirty pages in S are written.
WrittenResult(S) ==
  /\ Written(S) \in Files
  /\ Written(S).exists = file.exists /\ Written(S).header = file.header
  /\ Written(S).failed = file.failed
  /\ \A q \in PageIds : Written(S).pages[q] =
       IF q \in S THEN frames[page_table[q]].page ELSE file.pages[q]
  /\ Covered(Written(S), page_count)
  /\ Cleaned(S) \in [Frames -> FrameRecords]
  /\ \A g \in Frames : /\ Cleaned(S)[g].page_id = frames[g].page_id
                       /\ Cleaned(S)[g].pin_count = frames[g].pin_count
                       /\ Cleaned(S)[g].page = frames[g].page
                       /\ frames[g].page_id \notin S => Cleaned(S)[g] = frames[g]

\* What writing a set of resident pages back does to the file and the frames.
LEMMA WrittenFacts ==
  ASSUME IInv, up, NEW S \in SUBSET DirtyPages, S = {} \/ ~file.failed
  PROVE  WrittenResult(S)
<1>c. /\ file \in Files /\ page_count \in 0..MaxPages + 1
      /\ Covered(file, page_count)
      /\ \A q \in PageIds : page_table[q] # NoFrame => q < page_count
  BY FileCovered, Zenon
<1>s. S \subseteq PageIds /\ \A q \in S : page_table[q] \in Frames /\ page_table[q] # NoFrame
  BY Zenon DEF DirtyPages, IInv, TypeOK
<1>f. frames \in [Frames -> FrameRecords] /\ \A g \in Frames : frames[g].page \in Content
  BY Zenon DEF IInv, TypeOK, FrameRecords
<1>1. [p \in PageIds |-> IF p \in S THEN frames[page_table[p]].page ELSE file.pages[p]]
        \in [PageIds -> Content]
  BY <1>c, <1>s, <1>f, Zenon DEF Files
<1>2. /\ Written(S) \in Files
      /\ Written(S).exists = file.exists /\ Written(S).header = file.header
      /\ Written(S).failed = file.failed
      /\ \A q \in PageIds : Written(S).pages[q] =
           IF q \in S THEN frames[page_table[q]].page ELSE file.pages[q]
  BY <1>c, <1>1, Zenon DEF Written, Files
<1>3. Covered(Written(S), page_count)
  <2>1. ASSUME NEW q \in PageIds, Written(S).pages[q] \in Values
        PROVE  q < file.header.count
    <3>1. CASE q \in S
      BY <1>c, <1>s, <3>1, Zenon DEF Covered
    <3>2. CASE q \notin S
      BY <1>c, <1>2, <2>1, <3>2, Zenon DEF Covered
    <3> QED
      BY <3>1, <3>2, Zenon
  <2> QED
    BY <1>c, <1>2, <2>1, Zenon DEF Covered
<1>4. ASSUME NEW g \in Frames
      PROVE  /\ Cleaned(S)[g] \in FrameRecords
             /\ Cleaned(S)[g].page_id = frames[g].page_id
             /\ Cleaned(S)[g].pin_count = frames[g].pin_count
             /\ Cleaned(S)[g].page = frames[g].page
             /\ frames[g].page_id \notin S => Cleaned(S)[g] = frames[g]
  BY <1>f, Zenon DEF Cleaned, FrameRecords
<1>5. Cleaned(S) = [g \in Frames |-> Cleaned(S)[g]]
  BY Zenon DEF Cleaned
<1>6. Cleaned(S) \in [Frames -> FrameRecords]
  BY <1>4, <1>5, Zenon
<1> QED
  BY <1>2, <1>3, <1>4, <1>6, Zenon DEF WrittenResult

\* FlushAll returning OK leaves every resident page clean and, unless it was
\* the last flush that failed, in the file.
LEMMA FlushAllOkPreserves ==
  ASSUME IInv, FlushAllOk
  PROVE  IInv'
<1> DEFINE S == DirtyPages
<1>e. /\ up /\ (S = {} \/ ~file.failed)
      /\ frames' = Cleaned(S)
      /\ UNCHANGED <<next_page_id, page_count, up, page_table, free_list, lru_list, ptr, wrote>>
  BY Zenon DEF FlushAllOk, clientVars
<1>c. /\ file \in Files /\ Covered(file, page_count)
      /\ page_count \in 0..MaxPages + 1 /\ next_page_id = page_count
      /\ (~file.failed => page_count >= 1)
      /\ \A q \in PageIds : page_table[q] # NoFrame => q < page_count
  BY <1>e, FileCovered, Zenon
<1>1. /\ file' \in Files /\ Covered(file', page_count) /\ (~file'.failed => ~file.failed)
      /\ ~file'.failed => \A r \in PageIds : file'.pages[r] =
           IF r \in S THEN frames[page_table[r]].page ELSE file.pages[r]
  <2>1. CASE S = {}
    BY <1>c, <2>1, Zenon DEF FlushAllOk
  <2>2. CASE S # {}
    <3>1. PICK q \in S : \E w \in WritePage(Written(S \ {q}), q, frames[page_table[q]].page) :
                           w.ok /\ file' = w.file
      BY <2>2, Zenon DEF FlushAllOk
    <3>2. PICK w \in WritePage(Written(S \ {q}), q, frames[page_table[q]].page) :
                 w.ok /\ file' = w.file
      BY <3>1, Zenon
    <3>q. q \in PageIds /\ page_table[q] # NoFrame /\ q < page_count
          /\ frames[page_table[q]].page \in Content
      BY <1>c, Zenon DEF DirtyPages, IInv, TypeOK, FrameRecords
    <3>w. WrittenResult(S \ {q})
      <4>1. S \ {q} \in SUBSET DirtyPages
        BY Zenon
      <4> QED
        BY <1>e, <2>2, <4>1, WrittenFacts, Zenon
    <3> DEFINE g == Written(S \ {q})
    <3>3. /\ g \in Files /\ Covered(g, page_count) /\ g.failed = file.failed
          /\ \A r \in PageIds : g.pages[r] =
               IF r \in S \ {q} THEN frames[page_table[r]].page ELSE file.pages[r]
      BY <3>w, Zenon DEF WrittenResult
    <3>4. WriteResult(g, q, frames[page_table[q]].page, w)
      BY <3>2, <3>3, <3>q, WritePageOutcome, Zenon
    <3> HIDE DEF g
    <3>5. /\ file' \in Files /\ ~g.failed /\ file'.exists = g.exists /\ file'.header = g.header
          /\ \A r \in PageIds : r # q => file'.pages[r] = g.pages[r]
          /\ (~file'.failed => file'.pages[q] = frames[page_table[q]].page)
      BY <3>2, <3>4, Zenon DEF WriteResult
    <3>6. ASSUME NEW r \in PageIds, file'.pages[r] \in Values PROVE r < file'.header.count
      <4>1. CASE r = q
        BY <3>q, <3>3, <3>5, <4>1, Zenon DEF Covered
      <4>2. CASE r # q
        BY <3>3, <3>5, <3>6, <4>2, Zenon DEF Covered
      <4> QED
        BY <4>1, <4>2, Zenon
    <3>7. Covered(file', page_count)
      BY <3>3, <3>5, <3>6, Zenon DEF Covered
    <3> QED
      BY <3>3, <3>5, <3>7, Zenon
  <2> QED
    BY <2>1, <2>2, Zenon
<1>f. /\ frames' \in [Frames -> FrameRecords]
      /\ \A g \in Frames : /\ frames'[g].page_id = frames[g].page_id
                           /\ frames'[g].pin_count = frames[g].pin_count
                           /\ frames'[g].page = frames[g].page
                           /\ frames[g].page_id \notin S => frames'[g] = frames[g]
  <2>1. S \in SUBSET DirtyPages
    BY Zenon
  <2> HIDE DEF S
  <2>w. WrittenResult(S)
    BY <1>e, <2>1, WrittenFacts, Zenon
  <2>2. /\ Cleaned(S) \in [Frames -> FrameRecords]
        /\ \A g \in Frames : /\ Cleaned(S)[g].page_id = frames[g].page_id
                             /\ Cleaned(S)[g].pin_count = frames[g].pin_count
                             /\ Cleaned(S)[g].page = frames[g].page
                             /\ frames[g].page_id \notin S => Cleaned(S)[g] = frames[g]
    BY <2>w, Zenon DEF WrittenResult
  <2> QED
    BY <1>e, <2>2, Zenon
<1>s. kInvalidPageId \notin S
  BY PageIdFacts, Zenon DEF DirtyPages
<1>2. PoolInv'
  BY <1>e, <1>f, <1>s, FlushKeepsPool, Zenon
<1>3. HeaderCoversData'
  BY <1>e, <1>c, <1>1, Zenon DEF HeaderCoversData, Covered, kFirstDataPageId
<1>4. CleanPagesMatchFile'
  <2>1. ASSUME ~file'.failed, NEW q \in PageIds, page_table[q] # NoFrame,
               ~frames'[page_table[q]].is_dirty, \A k \in Clients : ~wrote[k][q]
        PROVE  frames'[page_table[q]].page = file'.pages[q]
    <3>f. page_table[q] \in Frames /\ frames[page_table[q]].page_id = q
      BY <2>1 DEF IInv, TypeOK, PageTableCoherent
    <3>1. CASE q \in S
      BY <1>1, <1>f, <2>1, <3>f, <3>1, Zenon
    <3>2. CASE q \notin S
      <4>1. frames'[page_table[q]] = frames[page_table[q]] /\ file'.pages[q] = file.pages[q]
        BY <1>1, <1>f, <2>1, <3>f, <3>2, Zenon
      <4> QED
        BY <1>1, <2>1, <4>1, Zenon DEF IInv, CleanPagesMatchFile
    <3> QED
      BY <3>1, <3>2, Zenon
  <2> QED
    BY <1>e, <2>1, Zenon DEF CleanPagesMatchFile
<1> QED
  BY <1>e, <1>c, <1>1, <1>f, <1>2, <1>3, <1>4, Zenon DEF IInv, TypeOK, PoolInv

\* FlushAll stops only on a stream that has failed.
LEMMA FlushAllErrorPreserves ==
  ASSUME IInv, FlushAllError
  PROVE  IInv'
<1>e. /\ up
      /\ UNCHANGED <<next_page_id, page_count, up, page_table, free_list, lru_list, ptr, wrote>>
  BY Zenon DEF FlushAllError, clientVars
<1>1. PICK q \in DirtyPages, S \in SUBSET DirtyPages :
        /\ file.failed => S = {}
        /\ \E w \in WritePage(Written(S), q, frames[page_table[q]].page) :
             ~w.ok /\ file' = w.file
        /\ frames' = Cleaned(S)
  BY Zenon DEF FlushAllError
<1>2. PICK w \in WritePage(Written(S), q, frames[page_table[q]].page) : ~w.ok /\ file' = w.file
  BY <1>1, Zenon
<1>c. /\ page_count \in 0..MaxPages + 1 /\ next_page_id = page_count
      /\ \A r \in PageIds : page_table[r] # NoFrame => r < page_count
  BY <1>e, FileCovered, Zenon
<1>q. q \in PageIds /\ page_table[q] # NoFrame /\ InRange(q)
      /\ frames[page_table[q]].page \in Content
  BY <1>c, Zenon DEF DirtyPages, InRange, IInv, TypeOK, FrameRecords
<1>3. /\ Written(S) \in Files /\ Covered(Written(S), page_count)
      /\ frames' \in [Frames -> FrameRecords]
      /\ \A g \in Frames : /\ frames'[g].page_id = frames[g].page_id
                           /\ frames'[g].pin_count = frames[g].pin_count
                           /\ frames[g].page_id \notin S => frames'[g] = frames[g]
  <2>1. S = {} \/ ~file.failed
    BY <1>1, Zenon
  <2>2. frames' = Cleaned(S)
    BY <1>1, Zenon
  <2>w. WrittenResult(S)
    BY <1>e, <2>1, WrittenFacts, Zenon
  <2>3. /\ Written(S) \in Files /\ Covered(Written(S), page_count)
        /\ Cleaned(S) \in [Frames -> FrameRecords]
        /\ \A g \in Frames : /\ Cleaned(S)[g].page_id = frames[g].page_id
                             /\ Cleaned(S)[g].pin_count = frames[g].pin_count
                             /\ frames[g].page_id \notin S => Cleaned(S)[g] = frames[g]
    BY <2>w, Zenon DEF WrittenResult
  <2> QED
    BY <2>2, <2>3, Zenon
<1>s. kInvalidPageId \notin S
  <2>1. DirtyPages \subseteq PageIds
    BY Zenon DEF DirtyPages
  <2>2. kInvalidPageId \notin PageIds
    BY PageIdFacts, Zenon
  <2> QED
    BY <2>1, <2>2, Zenon
<1>4. PoolInv'
  BY <1>e, <1>3, <1>s, FlushKeepsPool, Zenon
<1>w. WriteResult(Written(S), q, frames[page_table[q]].page, w)
  BY <1>2, <1>3, <1>q, WritePageOutcome, Zenon
<1>5. /\ file' \in Files /\ file'.failed /\ file'.exists = Written(S).exists
      /\ file'.header = Written(S).header
      /\ \A r \in PageIds : r # q => file'.pages[r] = Written(S).pages[r]
      /\ (file' # Written(S) => ~Written(S).failed)
  BY <1>2, <1>q, <1>w, Zenon DEF WriteResult, Files
<1>6. ASSUME NEW r \in PageIds, file'.pages[r] \in Values PROVE r < file'.header.count
  <2>1. CASE file' = Written(S) \/ r # q
    BY <1>3, <1>5, <1>6, <2>1, Zenon DEF Covered
  <2>2. CASE file' # Written(S) /\ r = q
    <3>1. Written(S).header.count = page_count
      BY <1>3, <1>5, <2>2, Zenon DEF Covered
    <3> QED
      BY <1>5, <1>q, <2>2, <3>1, Zenon DEF InRange
  <2> QED
    BY <2>1, <2>2, Zenon
<1>7. HeaderCoversData'
  BY <1>e, <1>c, <1>3, <1>5, <1>6, Zenon DEF HeaderCoversData, Covered
<1>8. CleanPagesMatchFile'
  BY <1>5, Zenon DEF CleanPagesMatchFile
<1> QED
  BY <1>e, <1>c, <1>4, <1>5, <1>7, <1>8, Zenon DEF IInv, TypeOK, PoolInv

\* The pool the constructor builds, with no pointers into it.
LEMMA EmptyPoolInv ==
  ASSUME EmptyPool, NoPointers
  PROVE  /\ PoolInv'
         /\ \A p \in PageIds : page_table'[p] = NoFrame
<1>e. /\ frames' = [f \in Frames |-> ResetFrame]
      /\ page_table' = [p \in PageIds |-> NoFrame]
      /\ free_list' = [i \in 1..PoolSize |-> i - 1]
      /\ lru_list' = <<>>
      /\ ptr' = [c \in Clients |-> [p \in PageIds |-> NoFrame]]
      /\ wrote' = [c \in Clients |-> [p \in PageIds |-> FALSE]]
  BY Zenon DEF EmptyPool, NoPointers
<1>l. /\ free_list' \in Seq(Frames) /\ IsInjective(free_list') /\ Range(free_list') = Frames
  BY <1>e, FullFreeList, Zenon
<1>m. /\ lru_list' \in Seq(Frames) /\ IsInjective(lru_list') /\ Range(lru_list') = {}
  BY <1>e DEF IsInjective, Range
<1>r. ResetFrame \in FrameRecords /\ ResetFrame.page_id = kInvalidPageId
  BY PageIdFacts, Zenon DEF ResetFrame, FrameRecords
<1>1. /\ frames' \in [Frames -> FrameRecords]
      /\ page_table' \in [PageIds -> Frames \cup {NoFrame}]
      /\ ptr' \in [Clients -> [PageIds -> Frames \cup {NoFrame}]]
      /\ wrote' \in [Clients -> [PageIds -> BOOLEAN]]
  BY <1>e, <1>r, Zenon
<1>2. FrameAccounting'
  BY <1>e, <1>l, <1>m, <1>r, Zenon DEF FrameAccounting
<1>3. PageTableCoherent'
  BY <1>e, <1>r, PageIdFacts, Zenon DEF PageTableCoherent
<1>4. PointersStayValid'
  BY <1>e, Zenon DEF PointersStayValid
<1> QED
  BY <1>e, <1>l, <1>m, <1>1, <1>2, <1>3, <1>4, Zenon DEF PoolInv

\* A start of the process finds a header that covers the data, or no header.
LEMMA OpenPreserves ==
  ASSUME IInv, Open
  PROVE  IInv'
<1>e. up' = TRUE /\ EmptyPool /\ NoPointers
  BY Zenon DEF Open
<1>1. PICK o \in OpenFile(file) :
        file' = o.file /\ next_page_id' = o.at.next /\ page_count' = o.at.count
  BY Zenon DEF Open
<1>f. /\ file \in Files /\ file.header.next = file.header.count
      /\ (~file.exists => file.header = NoHeader)
      /\ \A p \in PageIds : file.pages[p] \in Values => p < file.header.count
  BY Zenon DEF IInv, TypeOK, HeaderCoversData
<1> DEFINE fresh == HeaderOf(1, 1)
<1>2. fresh \in [next : 0..MaxPages + 1, count : 0..MaxPages + 1]
      /\ NoHeader \in [next : 0..MaxPages + 1, count : 0..MaxPages + 1]
      /\ fresh.next = 1 /\ fresh.count = 1 /\ NoHeader.next = 0 /\ NoHeader.count = 0
  BY PageManagerAssumption DEF HeaderOf, NoHeader
<1>3. /\ file' \in Files /\ file'.pages = file.pages /\ file'.exists
      /\ o.at \in [next : 0..MaxPages + 1, count : 0..MaxPages + 1]
      /\ o.at.next = o.at.count
      /\ \/ file'.header = fresh /\ o.at = fresh /\ file.header = NoHeader
         \/ file'.failed /\ file'.header = file.header
         \/ file'.header = file.header /\ o.at = file.header /\ file.header # NoHeader
  <2>1. CASE ~file.exists
    <3>1. CASE o = [file |-> [file EXCEPT !.exists = TRUE, !.header = fresh, !.failed = FALSE],
                    at |-> fresh]
      BY <1>1, <1>2, <1>f, <2>1, <3>1, Zenon DEF Files
    <3>2. CASE o = [file |-> [file EXCEPT !.exists = TRUE, !.failed = TRUE], at |-> fresh]
      BY <1>1, <1>2, <1>f, <2>1, <3>2, Zenon DEF Files
    <3> QED
      BY <1>1, <2>1, <3>1, <3>2, Zenon DEF OpenFile, kFirstDataPageId
  <2>2. CASE file.exists /\ file.header = NoHeader
    <3>1. o = [file |-> [file EXCEPT !.failed = TRUE], at |-> NoHeader]
      BY <1>1, <2>2, Zenon DEF OpenFile
    <3> QED
      BY <1>1, <1>2, <1>f, <2>2, <3>1, Zenon DEF Files
  <2>3. CASE file.exists /\ file.header # NoHeader
    <3>1. CASE o = [file |-> [file EXCEPT !.failed = FALSE], at |-> file.header]
      BY <1>1, <1>f, <2>3, <3>1, Zenon DEF Files
    <3>2. CASE o = [file |-> [file EXCEPT !.failed = TRUE], at |-> NoHeader]
      BY <1>1, <1>2, <1>f, <2>3, <3>2, Zenon DEF Files
    <3> QED
      BY <1>1, <2>3, <3>1, <3>2, Zenon DEF OpenFile
  <2> QED
    BY <2>1, <2>2, <2>3, Zenon
<1> HIDE DEF fresh
<1>4. PoolInv' /\ \A p \in PageIds : page_table'[p] = NoFrame
  BY <1>e, EmptyPoolInv, Zenon
<1>5. file.header # NoHeader => file.header.count >= 1
  <2>1. file.header \in [next : 0..MaxPages + 1, count : 0..MaxPages + 1]
    BY <1>f, Zenon DEF Files
  <2>2. file.header.count = 0 => file.header = NoHeader
    BY <1>f, <2>1, Zenon DEF NoHeader, HeaderOf
  <2> QED
    BY <2>1, <2>2, PageManagerAssumption
<1>6. ASSUME NEW p \in PageIds, file'.pages[p] \in Values PROVE p < file'.header.count
  <2>1. p < file.header.count /\ p >= 1 /\ p \in Int
    BY <1>3, <1>6, <1>f, PageManagerAssumption DEF PageIds
  <2>2. file.header # NoHeader
    BY <1>2, <2>1
  <2> QED
    BY <1>3, <2>1, <2>2, Zenon
<1>7. /\ file'.header.next = file'.header.count
      /\ ~file'.failed => file'.header.count = page_count' /\ page_count' >= 1
  BY <1>1, <1>2, <1>3, <1>5, <1>f
<1>8. HeaderCoversData'
  BY <1>1, <1>3, <1>4, <1>6, <1>7, Zenon DEF HeaderCoversData, kFirstDataPageId
<1>9. CleanPagesMatchFile'
  BY <1>4, Zenon DEF CleanPagesMatchFile
<1> QED
  BY <1>e, <1>1, <1>3, <1>4, <1>8, <1>9, Zenon DEF IInv, TypeOK, PoolInv

\* A crash and an orderly exit leave the file covered and nothing in memory.
LEMMA StopPreserves ==
  ASSUME IInv, Crash \/ Close
  PROVE  IInv'
<1>e. /\ up /\ up' = FALSE /\ EmptyPool /\ NoPointers
      /\ next_page_id' = next_page_id /\ page_count' = page_count
  BY Zenon DEF Crash, Close
<1>c. /\ file \in Files /\ page_count \in 0..MaxPages + 1
      /\ Covered(file, page_count) /\ next_page_id = page_count
  BY <1>e, FileCovered, Zenon
<1>1. file' = file \/ (~file.failed /\ file' = [file EXCEPT !.header = HeaderOf(next_page_id, page_count)])
  BY Zenon DEF Crash, Close, CloseFile
<1>2. /\ file' \in Files /\ file'.pages = file.pages /\ file'.header = file.header
      /\ file'.exists = file.exists
  <2>1. CASE file' = file
    BY <1>c, <2>1, Zenon
  <2>2. CASE ~file.failed /\ file' = [file EXCEPT !.header = HeaderOf(next_page_id, page_count)]
    <3>1. /\ file.header \in [next : 0..MaxPages + 1, count : 0..MaxPages + 1]
          /\ file.header.count = page_count /\ file.header.next = page_count
      BY <1>c, <2>2, Zenon DEF Covered, Files
    <3>2. HeaderOf(next_page_id, page_count) = file.header
      BY <1>c, <3>1, Zenon DEF HeaderOf
    <3> QED
      BY <1>c, <2>2, <3>2, Zenon DEF Files
  <2> QED
    BY <1>1, <2>1, <2>2, Zenon
<1>3. PoolInv' /\ \A p \in PageIds : page_table'[p] = NoFrame
  BY <1>e, EmptyPoolInv, Zenon
<1>4. HeaderCoversData'
  BY <1>e, <1>c, <1>2, <1>3, Zenon DEF HeaderCoversData, Covered
<1>5. CleanPagesMatchFile'
  BY <1>3, Zenon DEF CleanPagesMatchFile
<1> QED
  BY <1>e, <1>c, <1>2, <1>3, <1>4, <1>5, Zenon DEF IInv, TypeOK, PoolInv

\* A crash before the header is written leaves a file without a header.
LEMMA CrashInCreatePreserves ==
  ASSUME IInv, CrashInCreate
  PROVE  IInv'
<1> USE DEF IInv
<1>e. /\ ~up /\ file' = [file EXCEPT !.exists = TRUE]
      /\ UNCHANGED <<next_page_id, page_count, up, frames, page_table, free_list, lru_list,
                     ptr, wrote>>
  BY Zenon DEF CrashInCreate, poolVars, clientVars
<1>1. file' \in Files /\ file'.pages = file.pages /\ file'.header = file.header
      /\ file'.failed = file.failed /\ file'.exists
  BY <1>e, Zenon DEF TypeOK, Files
<1>2. TypeOK'
  BY <1>e, <1>1, Zenon DEF TypeOK
<1>3. FrameAccounting' /\ PageTableCoherent' /\ CleanPagesMatchFile'
  BY <1>e, <1>1 DEF FrameAccounting, PageTableCoherent, CleanPagesMatchFile
<1>4. PointersStayValid'
  BY <1>e, Zenon DEF PointersStayValid, Holders
<1>5. HeaderCoversData'
  BY <1>e, <1>1, Zenon DEF HeaderCoversData
<1> QED
  BY <1>2, <1>3, <1>4, <1>5, Zenon

\* Before the first start the pool is empty and there is no file.
LEMMA InitEstablishes == Init => IInv
<1> SUFFICES ASSUME Init PROVE IInv
  BY Zenon
<1>e. /\ frames = [f \in Frames |-> ResetFrame]
      /\ page_table = [p \in PageIds |-> NoFrame]
      /\ free_list = [i \in 1..PoolSize |-> i - 1]
      /\ lru_list = <<>>
      /\ ptr = [c \in Clients |-> [p \in PageIds |-> NoFrame]]
      /\ wrote = [c \in Clients |-> [p \in PageIds |-> FALSE]]
      /\ file = [exists |-> FALSE, pages |-> [p \in PageIds |-> Blank],
                 header |-> NoHeader, failed |-> FALSE]
      /\ next_page_id = 0 /\ page_count = 0 /\ up = FALSE
  BY Zenon DEF Init, PMInit
<1>l. free_list \in Seq(Frames) /\ IsInjective(free_list) /\ Range(free_list) = Frames
  BY <1>e, FullFreeList, Zenon
<1>m. lru_list \in Seq(Frames) /\ IsInjective(lru_list) /\ Range(lru_list) = {}
  BY <1>e DEF IsInjective, Range
<1>r. ResetFrame \in FrameRecords /\ ResetFrame.page_id = kInvalidPageId
  BY PageIdFacts, Zenon DEF ResetFrame, FrameRecords
<1>1. file \in Files
  BY <1>e, PageIdFacts, PageManagerAssumption DEF Files, NoHeader, HeaderOf
<1>2. TypeOK
  <2>1. next_page_id \in 0..MaxPages + 1 /\ page_count \in 0..MaxPages + 1
    BY <1>e, PageManagerAssumption
  <2>3. up \in BOOLEAN
    BY <1>e, Zenon
  <2>2. /\ frames \in [Frames -> FrameRecords]
        /\ page_table \in [PageIds -> Frames \cup {NoFrame}]
        /\ ptr \in [Clients -> [PageIds -> Frames \cup {NoFrame}]]
        /\ wrote \in [Clients -> [PageIds -> BOOLEAN]]
    BY <1>e, <1>r, Zenon
  <2> QED
    BY <1>l, <1>m, <1>1, <2>1, <2>2, <2>3, Zenon DEF TypeOK
<1>3. FrameAccounting /\ PageTableCoherent
  BY <1>e, <1>l, <1>m, <1>r, PageIdFacts, Zenon DEF FrameAccounting, PageTableCoherent
<1>4. PointersStayValid /\ CleanPagesMatchFile
  BY <1>e, Zenon DEF PointersStayValid, CleanPagesMatchFile
<1>5. HeaderCoversData
  BY <1>e, PageIdFacts, Zenon DEF HeaderCoversData, NoHeader, HeaderOf
<1> QED
  BY <1>2, <1>3, <1>4, <1>5, Zenon DEF IInv

\* Every operation of the pool and every start or stop keeps the invariant.
LEMMA NextPreserves == IInv /\ [Next]_vars => IInv'
<1> SUFFICES ASSUME IInv, [Next]_vars PROVE IInv'
  BY Zenon
<1>1. ASSUME NEW c \in Clients, NEW p \in PageIds, FetchHit(c, p) PROVE IInv'
  BY <1>1, FetchHitPreserves, Zenon
<1>2. ASSUME NEW c \in Clients, NEW p \in PageIds, FetchMiss(c, p) PROVE IInv'
  BY <1>2, FetchMissPreserves, Zenon
<1>3. ASSUME NEW c \in Clients, NEW p \in PageIds, NEW v \in Values, ClientWrite(c, p, v)
      PROVE  IInv'
  BY <1>3, ClientWritePreserves, Zenon
<1>4. ASSUME NEW c \in Clients, NEW p \in PageIds, NEW d \in BOOLEAN, UnpinPage(c, p, d)
      PROVE  IInv'
  BY <1>4, UnpinPagePreserves, Zenon
<1>5. ASSUME NEW c \in Clients, NewPage(c) PROVE IInv'
  BY <1>5, NewPagePreserves, Zenon
<1>6. ASSUME NEW p \in PageIds, FlushPage(p) PROVE IInv'
  BY <1>6, FlushPagePreserves, Zenon
<1>7. CASE FlushAllOk
  BY <1>7, FlushAllOkPreserves, Zenon
<1>8. CASE FlushAllError
  BY <1>8, FlushAllErrorPreserves, Zenon
<1>9. CASE Open
  BY <1>9, OpenPreserves, Zenon
<1>10. CASE CrashInCreate
  BY <1>10, CrashInCreatePreserves, Zenon
<1>11. CASE Crash \/ Close
  BY <1>11, StopPreserves, Zenon
<1>12. CASE UNCHANGED vars
  <2>1. UNCHANGED <<file, next_page_id, page_count, up, frames, page_table, free_list,
                    lru_list, ptr, wrote>>
    BY <1>12, Zenon DEF vars, poolVars, clientVars
  <2>2. TypeOK' /\ FrameAccounting' /\ PageTableCoherent'
    BY <2>1, Zenon DEF IInv, TypeOK, FrameAccounting, PageTableCoherent
  <2>3. PointersStayValid'
    BY <2>1, Zenon DEF IInv, PointersStayValid, Holders
  <2>4. HeaderCoversData' /\ CleanPagesMatchFile'
    BY <2>1, Zenon DEF IInv, HeaderCoversData, CleanPagesMatchFile
  <2> QED
    BY <2>2, <2>3, <2>4, Zenon DEF IInv
<1> QED
  BY <1>1, <1>2, <1>3, <1>4, <1>5, <1>6, <1>7, <1>8, <1>9, <1>10, <1>11, <1>12, Zenon
     DEF Next, ClientStep, ProcessStep

\* The inductive invariant holds in every state the program reaches.
LEMMA Invariance == Spec => []IInv
<1>1. Init => IInv
  BY InitEstablishes, Zenon
<1>2. IInv /\ [Next]_vars => IInv'
  BY NextPreserves, Zenon
<1> QED
  BY <1>1, <1>2, PTL DEF Spec

(***************************************************************************)
(* The results.                                                            *)
(***************************************************************************)

\* The state of the buffer pool and of the page manager keeps its types.
THEOREM TypeCorrect == Spec => []TypeOK
<1>1. IInv => TypeOK
  BY Zenon DEF IInv
<1> QED
  BY <1>1, Invariance, PTL

\* Every frame of BufferPool is free, evictable or pinned, and only one of them.
THEOREM FramesAccountedFor == Spec => []FrameAccounting
<1>1. IInv => FrameAccounting
  BY Zenon DEF IInv
<1> QED
  BY <1>1, Invariance, PTL

\* page_table_ and the frames' page ids are inverse to each other.
THEOREM PageTableAgrees == Spec => []PageTableCoherent
<1>1. IInv => PageTableCoherent
  BY Zenon DEF IInv
<1> QED
  BY <1>1, Invariance, PTL

\* A Page* that FetchPage or NewPage handed out stays valid until it is
\* unpinned: pinned pages are not evicted.
THEOREM PinnedPagesStay == Spec => []PointersStayValid
<1>1. IInv => PointersStayValid
  BY Zenon DEF IInv
<1> QED
  BY <1>1, Invariance, PTL

\* The counters PageManager saves in the header page cover every page that
\* holds client data, after a crash at any point too.
THEOREM HeaderCovers == Spec => []HeaderCoversData
<1>1. IInv => HeaderCoversData
  BY Zenon DEF IInv
<1> QED
  BY <1>1, Invariance, PTL

\* A page that BufferPool evicts without writing it back is already in the file.
THEOREM CleanMeansSaved == Spec => []CleanPagesMatchFile
<1>1. IInv => CleanPagesMatchFile
  BY Zenon DEF IInv
<1> QED
  BY <1>1, Invariance, PTL
=============================================================================
