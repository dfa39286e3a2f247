-------------------------- MODULE OpenEditor_proof --------------------------
(***************************************************************************)
(* Proofs about OpenEditor, for any passages and positions, and any number *)
(* of openings, drops, passes and deletions: the types; that the tracked   *)
(* view is the open leaf's (PassInv); that a tracking view's buffer is the *)
(* Y.Doc's text (StepInv); and that no passage is lost (KeptInv).  Texts   *)
(* and their changes come first, then what the plugin's observer does to a *)
(* buffer, then one part for each invariant.                               *)
(***************************************************************************)
EXTENDS OpenEditor, SequenceTheorems, TLAPS

-----------------------------------------------------------------------------
(* Texts and their changes.                                                  *)

Changes == [at : Nat, del : Nat, ins : Texts]

\* Three texts joined.
LEMMA JoinedIs ==
  ASSUME NEW P, NEW x \in Seq(P), NEW w \in Seq(P), NEW y \in Seq(P)
  PROVE  /\ x \o w \o y \in Seq(P)
         /\ Len(x \o w \o y) = Len(x) + Len(w) + Len(y)
         /\ \A i \in 1..Len(x) : (x \o w \o y)[i] = x[i]
         /\ \A i \in 1..Len(w) : (x \o w \o y)[Len(x) + i] = w[i]
         /\ \A i \in 1..Len(y) : (x \o w \o y)[Len(x) + Len(w) + i] = y[i]
<1>1. Len(x) \in Nat /\ Len(w) \in Nat /\ Len(y) \in Nat
  BY LenProperties
<1>2. PICK f : f = x \o w
  OBVIOUS
<1>3. /\ f \in Seq(P) /\ Len(f) = Len(x) + Len(w)
      /\ \A i \in 1..(Len(x) + Len(w)) : f[i] = IF i <= Len(x) THEN x[i] ELSE w[i - Len(x)]
  BY <1>2, ConcatProperties
<1>4. PICK a : a = f \o y
  OBVIOUS
<1>5. /\ a \in Seq(P) /\ Len(a) = Len(f) + Len(y)
      /\ \A i \in 1..(Len(f) + Len(y)) : a[i] = IF i <= Len(f) THEN f[i] ELSE y[i - Len(f)]
  <2>1. f \in Seq(P)
    BY <1>3
  <2>2. /\ f \o y \in Seq(P) /\ Len(f \o y) = Len(f) + Len(y)
        /\ \A i \in 1..(Len(f) + Len(y)) : (f \o y)[i] = IF i <= Len(f) THEN f[i] ELSE y[i - Len(f)]
    BY <2>1, ConcatProperties
  <2> QED BY <1>4, <2>2
<1>6. Len(a) = Len(x) + Len(w) + Len(y)
  BY <1>3, <1>5
<1>7. ASSUME NEW i \in 1..Len(x) PROVE a[i] = x[i]
  <2>1. i \in 1..(Len(x) + Len(w)) /\ i \in 1..(Len(f) + Len(y)) /\ i <= Len(f) /\ i <= Len(x)
    BY <1>1, <1>3
  <2> QED BY <1>3, <1>5, <2>1
<1>8. ASSUME NEW i \in 1..Len(w) PROVE a[Len(x) + i] = w[i]
  <2> DEFINE j == Len(x) + i
  <2>1. j \in 1..(Len(x) + Len(w)) /\ j \in 1..(Len(f) + Len(y)) /\ j <= Len(f) /\ ~(j <= Len(x))
        /\ j - Len(x) = i
    BY <1>1, <1>3
  <2> QED BY <1>3, <1>5, <2>1
<1>9. ASSUME NEW i \in 1..Len(y) PROVE a[Len(x) + Len(w) + i] = y[i]
  <2> DEFINE j == Len(x) + Len(w) + i
  <2>1. j \in 1..(Len(f) + Len(y)) /\ ~(j <= Len(f)) /\ j - Len(f) = i
    BY <1>1, <1>3
  <2> QED BY <1>5, <2>1
<1> QED BY <1>2, <1>4, <1>5, <1>6, <1>7, <1>8, <1>9

\* The front of a text and its back.
LEMMA FrontIs ==
  ASSUME NEW P, NEW s \in Seq(P), NEW m \in Nat, m <= Len(s)
  PROVE  /\ SubSeq(s, 1, m) \in Seq(P) /\ Len(SubSeq(s, 1, m)) = m
         /\ \A i \in 1..m : SubSeq(s, 1, m)[i] = s[i]
<1>1. Len(s) \in Nat /\ \A i \in 1..m : s[i] \in P
  BY LenProperties, ElementOfSeq
<1>2. /\ SubSeq(s, 1, m) \in Seq(P) /\ Len(SubSeq(s, 1, m)) = IF 1 <= m THEN m - 1 + 1 ELSE 0
      /\ \A i \in 1..(m - 1 + 1) : SubSeq(s, 1, m)[i] = s[1 + i - 1]
  BY <1>1, SubSeqProperties, 1 \in Int, m \in Int
<1> QED BY <1>2

LEMMA BackIs ==
  ASSUME NEW P, NEW s \in Seq(P), NEW b \in Nat, b <= Len(s)
  PROVE  /\ SubSeq(s, b + 1, Len(s)) \in Seq(P) /\ Len(SubSeq(s, b + 1, Len(s))) = Len(s) - b
         /\ \A i \in 1..(Len(s) - b) : SubSeq(s, b + 1, Len(s))[i] = s[b + i]
<1>1. Len(s) \in Nat /\ \A i \in 1..Len(s) : s[i] \in P
  BY LenProperties, ElementOfSeq
<1>2. PICK n \in Nat : n = Len(s)
  BY <1>1
<1>3. PICK e \in Nat : e = b + 1
  OBVIOUS
<1>4. \A i \in e..n : s[i] \in P
  BY <1>1, <1>2, <1>3
<1>5. PICK t : t = SubSeq(s, e, n)
  OBVIOUS
<1>6. /\ t \in Seq(P) /\ Len(t) = IF e <= n THEN n - e + 1 ELSE 0
      /\ \A i \in 1..(n - e + 1) : t[i] = s[e + i - 1]
  BY <1>4, <1>5, SubSeqProperties, e \in Int, n \in Int
<1>7. Len(t) = n - b
  BY <1>2, <1>3, <1>6
<1>8. ASSUME NEW i \in 1..(n - b) PROVE t[i] = s[b + i]
  <2>1. i \in 1..(n - e + 1) /\ e + i - 1 = b + i
    BY <1>3
  <2> QED BY <1>6, <2>1
<1> QED BY <1>2, <1>3, <1>5, <1>6, <1>7, <1>8

\* A change that fits leaves a text: its front, what is inserted, and its back.
LEMMA AppliedIs ==
  ASSUME NEW s \in Texts, NEW c \in Changes, Fits(c, s)
  PROVE  /\ Applied(c, s) \in Texts
         /\ Len(Applied(c, s)) = Len(s) - c.del + Len(c.ins)
         /\ \A i \in 1..c.at : Applied(c, s)[i] = s[i]
         /\ \A i \in 1..Len(c.ins) : Applied(c, s)[c.at + i] = c.ins[i]
         /\ \A i \in 1..(Len(s) - c.at - c.del) :
              Applied(c, s)[c.at + Len(c.ins) + i] = s[c.at + c.del + i]
<1>1. PICK P : P = {Old, Ahead} \cup Typed \cup Peers
  OBVIOUS
<1>2. /\ Texts = Seq(P) /\ s \in Seq(P)
      /\ c.at \in Nat /\ c.del \in Nat /\ c.ins \in Seq(P)
  BY <1>1 DEF Changes, Texts
<1>3. Len(s) \in Nat /\ c.at + c.del <= Len(s) /\ c.at <= Len(s) /\ Len(c.ins) \in Nat
  BY <1>2, LenProperties DEF Fits
<1>4. PICK x : x = SubSeq(s, 1, c.at)
  OBVIOUS
<1>5. x \in Seq(P) /\ Len(x) = c.at /\ \A i \in 1..c.at : x[i] = s[i]
  BY <1>2, <1>3, <1>4, FrontIs
<1>6. PICK b \in Nat : b = c.at + c.del
  BY <1>2
<1>7. PICK y : y = SubSeq(s, b + 1, Len(s))
  OBVIOUS
<1>8. y \in Seq(P) /\ Len(y) = Len(s) - b /\ \A i \in 1..(Len(s) - b) : y[i] = s[b + i]
  BY <1>2, <1>3, <1>6, <1>7, BackIs
<1>9. PICK w : w = c.ins
  OBVIOUS
<1>10. Applied(c, s) = x \o w \o y
  BY <1>4, <1>6, <1>7, <1>9 DEF Applied
<1>11. PICK a : a = x \o w \o y
  OBVIOUS
<1>12. /\ a \in Seq(P) /\ Len(a) = Len(x) + Len(w) + Len(y)
       /\ \A i \in 1..Len(x) : a[i] = x[i]
       /\ \A i \in 1..Len(w) : a[Len(x) + i] = w[i]
       /\ \A i \in 1..Len(y) : a[Len(x) + Len(w) + i] = y[i]
  <2>1. x \in Seq(P) /\ w \in Seq(P) /\ y \in Seq(P)
    BY <1>2, <1>5, <1>8, <1>9
  <2>2. /\ x \o w \o y \in Seq(P)
        /\ Len(x \o w \o y) = Len(x) + Len(w) + Len(y)
        /\ \A i \in 1..Len(x) : (x \o w \o y)[i] = x[i]
        /\ \A i \in 1..Len(w) : (x \o w \o y)[Len(x) + i] = w[i]
        /\ \A i \in 1..Len(y) : (x \o w \o y)[Len(x) + Len(w) + i] = y[i]
    BY <2>1, JoinedIs
  <2> QED BY <1>11, <2>2
<1>13. Len(a) = Len(s) - c.del + Len(w)
  BY <1>2, <1>3, <1>5, <1>6, <1>8, <1>9, <1>12
<1>14. \A i \in 1..(Len(s) - c.at - c.del) : a[c.at + Len(w) + i] = s[c.at + c.del + i]
  <2>1. Len(s) - c.at - c.del = Len(y)
    BY <1>2, <1>3, <1>6, <1>8
  <2> QED BY <1>5, <1>6, <1>8, <1>12, <2>1
<1>15. \A i \in 1..c.at : a[i] = s[i]
  BY <1>5, <1>12
<1>16. \A i \in 1..Len(w) : a[c.at + i] = w[i]
  BY <1>5, <1>12
<1> QED BY <1>2, <1>9, <1>10, <1>11, <1>12, <1>13, <1>14, <1>15, <1>16

\* An insertion keeps what was there and adds what is inserted.
LEMMA InsertionKeeps ==
  ASSUME NEW s \in Texts, NEW c \in Changes, Fits(c, s), c.del = 0
  PROVE  ToSet(s) \cup ToSet(c.ins) \subseteq ToSet(Applied(c, s))
<1> DEFINE a == Applied(c, s)
<1>1. /\ c.at \in Nat /\ c.ins \in Texts /\ Len(s) \in Nat /\ Len(c.ins) \in Nat
      /\ c.at <= Len(s)
  BY DEF Changes, Texts, Fits
<1>2. a \in Texts /\ Len(a) = Len(s) + Len(c.ins)
  BY <1>1, AppliedIs
<1>3. /\ DOMAIN s = 1..Len(s) /\ DOMAIN c.ins = 1..Len(c.ins) /\ DOMAIN a = 1..Len(a)
  BY <1>1, <1>2 DEF Texts
<1>4. ASSUME NEW i \in DOMAIN s PROVE s[i] \in ToSet(a)
  <2>1. CASE i <= c.at
    <3>1. a[i] = s[i] /\ i \in DOMAIN a
      BY <1>1, <1>2, <1>3, <2>1, AppliedIs
    <3> QED BY <3>1 DEF ToSet
  <2>2. CASE i > c.at
    <3> DEFINE j == i - c.at
    <3>1. j \in 1..(Len(s) - c.at - c.del) /\ c.at + c.del + j = i
      BY <1>1, <1>3, <2>2
    <3>2. a[c.at + Len(c.ins) + j] = s[c.at + c.del + j]
      BY <3>1, AppliedIs
    <3>3. c.at + Len(c.ins) + j \in DOMAIN a
      BY <1>1, <1>2, <1>3, <3>1
    <3> QED BY <3>1, <3>2, <3>3 DEF ToSet
  <2> QED BY <1>1, <1>3, <2>1, <2>2
<1>5. ASSUME NEW i \in DOMAIN c.ins PROVE c.ins[i] \in ToSet(a)
  <2>1. a[c.at + i] = c.ins[i]
    BY <1>3, AppliedIs
  <2>2. c.at + i \in DOMAIN a
    BY <1>1, <1>2, <1>3
  <2> QED BY <2>1, <2>2 DEF ToSet
<1> QED BY <1>4, <1>5 DEF ToSet

\* A deletion of one passage keeps the others.
LEMMA DeletionKeeps ==
  ASSUME NEW s \in Texts, NEW c \in Changes, Fits(c, s), c.del = 1, c.ins = <<>>
  PROVE  ToSet(s) \ {s[c.at + 1]} \subseteq ToSet(Applied(c, s))
<1> DEFINE a == Applied(c, s)
<1>1. c.at \in Nat /\ Len(s) \in Nat /\ c.at + 1 <= Len(s) /\ Len(c.ins) = 0
  BY DEF Changes, Texts, Fits
<1>2. a \in Texts /\ Len(a) = Len(s) - 1
  BY <1>1, AppliedIs
<1>3. DOMAIN s = 1..Len(s) /\ DOMAIN a = 1..Len(a)
  BY <1>1, <1>2 DEF Texts
<1>4. ASSUME NEW i \in DOMAIN s, i # c.at + 1 PROVE s[i] \in ToSet(a)
  <2>1. CASE i <= c.at
    <3>1. a[i] = s[i] /\ i \in DOMAIN a
      BY <1>1, <1>2, <1>3, <2>1, AppliedIs
    <3> QED BY <3>1 DEF ToSet
  <2>2. CASE i > c.at + 1
    <3> DEFINE j == i - c.at - 1
    <3>1. j \in 1..(Len(s) - c.at - c.del) /\ c.at + c.del + j = i
      BY <1>1, <1>3, <2>2
    <3>2. a[c.at + Len(c.ins) + j] = s[c.at + c.del + j]
      BY <3>1, AppliedIs
    <3>3. c.at + Len(c.ins) + j \in DOMAIN a
      BY <1>1, <1>2, <1>3, <3>1
    <3> QED BY <3>1, <3>2, <3>3 DEF ToSet
  <2> QED BY <1>1, <1>3, <1>4, <2>1, <2>2
<1> QED BY <1>4 DEF ToSet

\* What Y.Text does with a position behind its end; a position within stays.
LEMMA ClampedFits ==
  ASSUME NEW s \in Texts, NEW c \in Changes
  PROVE  /\ Clamped(c, s) \in Changes /\ Fits(Clamped(c, s), s)
         /\ Fits(c, s) => Clamped(c, s) = c
<1>1. /\ c.at \in Nat /\ c.del \in Nat /\ c.ins \in Texts /\ Len(s) \in Nat
      /\ c = [at |-> c.at, del |-> c.del, ins |-> c.ins]
  BY DEF Changes, Texts
<1>2. Clamped(c, s) = [at |-> Smaller(c.at, Len(s)),
                       del |-> Smaller(c.del, Len(s) - Smaller(c.at, Len(s))), ins |-> c.ins]
  BY DEF Clamped, Change
<1>3. /\ Smaller(c.at, Len(s)) \in Nat /\ Smaller(c.at, Len(s)) <= Len(s)
      /\ Smaller(c.del, Len(s) - Smaller(c.at, Len(s))) \in Nat
      /\ Smaller(c.at, Len(s)) + Smaller(c.del, Len(s) - Smaller(c.at, Len(s))) <= Len(s)
  BY <1>1 DEF Smaller
<1>4. ASSUME Fits(c, s) PROVE Clamped(c, s) = c
  <2>1. Smaller(c.at, Len(s)) = c.at /\ Smaller(c.del, Len(s) - c.at) = c.del
    BY <1>1, <1>4 DEF Smaller, Fits
  <2> QED BY <1>1, <1>2, <2>1
<1>5. Clamped(c, s) \in Changes /\ Fits(Clamped(c, s), s)
  BY <1>1, <1>2, <1>3 DEF Changes, Fits
<1> QED BY <1>4, <1>5

\* An insertion into the empty text.
LEMMA FirstInsertion ==
  ASSUME NEW w \in Texts
  PROVE  Applied(Change(0, 0, w), <<>>) = w
<1> DEFINE P == {Old, Ahead} \cup Typed \cup Peers
<1>1. SubSeq(<<>>, 1, 0) = <<>> /\ SubSeq(<<>>, 0 + 0 + 1, Len(<<>>)) = <<>>
  OBVIOUS
<1>2. w \in Seq(P) /\ (<<>> \o w) = w /\ w \o <<>> = w
  BY ConcatEmptySeq DEF Texts
<1> QED BY <1>1, <1>2 DEF Applied, Change

\* A text does not differ from itself.
LEMMA SameIsOneChange ==
  ASSUME NEW s \in Texts
  PROVE  OneChange(s, s)
<1> DEFINE n == Smaller(Len(s), Len(s))
<1>1. Len(s) \in Nat /\ n = Len(s) /\ n \in 0..n /\ 0 \in 0..(n - n)
  BY DEF Texts, Smaller
<1>2. SubSeq(s, n + 1, Len(s) - 0) = <<>>
  BY <1>1 DEF Texts
<1>3. ToSet(SubSeq(s, n + 1, Len(s) - 0)) \cap ToSet(SubSeq(s, n + 1, Len(s) - 0)) = {}
  <2>1. ToSet(<<>>) = {}
    BY DEF ToSet
  <2> QED BY <1>2, <2>1
<1> QED BY <1>1, <1>3 DEF OneChange

-----------------------------------------------------------------------------
(* The variables' types.                                                     *)

Flows == [Slots -> Calls \cup {None}]
Locks == {"free", "held", "again"}

TextsTyped ==
  /\ file \in Texts /\ unsaved \in Texts \cup {NoText}
  /\ ytext \in Texts /\ stored \in Texts /\ editor \in Texts

LeafTyped ==
  /\ loaded \in BOOLEAN /\ claim \in {"none", "mine", "peer"} /\ done \in BOOLEAN
  /\ online \in BOOLEAN /\ open \in BOOLEAN /\ dirty \in BOOLEAN
  /\ plugin \in {"none", "bound", "embed"} /\ flows \in Flows
  /\ reading \in BOOLEAN /\ saveDue \in BOOLEAN /\ tracking \in BOOLEAN

PassTyped ==
  /\ signedIn \in BOOLEAN /\ others \in BOOLEAN /\ installed \in BOOLEAN
  /\ binding \in Views /\ lock \in Locks
  /\ pass \in {"none", "folders", "ready"} /\ found \in Views /\ again \in BOOLEAN
  /\ failed \in BOOLEAN

TypeOK == TextsTyped /\ LeafTyped /\ PassTyped

\* A call that is made takes a free slot and leaves the other calls.
LEMMA StartedIs ==
  ASSUME NEW fs \in Flows, NEW f \in Calls, Free(fs) # {}
  PROVE  /\ Started(fs, f) \in Flows
         /\ \A s \in Slots : Started(fs, f)[s] = fs[s] \/ Started(fs, f)[s] = f
<1>1. PICK z : z = CHOOSE s \in Free(fs) : TRUE
  OBVIOUS
<1>2. z \in Free(fs)
  BY <1>1
<1>3. z \in Slots /\ Started(fs, f) = [fs EXCEPT ![z] = f]
  BY <1>1, <1>2 DEF Free, Started
<1> QED BY <1>3 DEF Flows

LEMMA NewCalls ==
  /\ \A at \in {"offline", "waiting"}, b \in {"bound", "other"} : Flow(at, b) \in Calls
  /\ \A p, t : Branch(p, t) \in {"bound", "other"}
  /\ \A p, t : Branch(p, t) = "bound" => p = "bound"
<1>1. <<>> \in Texts
  BY EmptySeq DEF Texts
<1> QED BY <1>1 DEF Flow, Calls, Branch

\* A view's plugin that is destroyed leaves only calls that no longer ask for it.
LEMMA OrphanedIs ==
  ASSUME TypeOK
  PROVE  /\ Orphaned \in Flows
         /\ \A s \in Slots : Orphaned[s] # None =>
              /\ flows[s] # None /\ Orphaned[s].at = flows[s].at /\ Orphaned[s].was = flows[s].was
              /\ Orphaned[s].branch = "orphan" /\ Orphaned[s] \in Calls
<1>1. ASSUME NEW s \in Slots, flows[s] # None
      PROVE  LET o == [flows[s] EXCEPT !.branch = "orphan"]
             IN  /\ o \in Calls /\ o.branch = "orphan" /\ o.at = flows[s].at /\ o.was = flows[s].was
  <2>1. flows[s] \in Calls
    BY <1>1 DEF TypeOK, TextsTyped, LeafTyped, PassTyped, Flows
  <2> QED BY <2>1 DEF Calls
<1>2. ASSUME NEW s \in Slots
      PROVE  Orphaned[s] = IF flows[s] # None /\ flows[s].at \in {"claiming", "comparing"}
                           THEN [flows[s] EXCEPT !.branch = "orphan"] ELSE None
  BY DEF Orphaned
<1>3. ASSUME NEW s \in Slots PROVE Orphaned[s] \in Calls \cup {None}
  BY <1>1, <1>2
<1>4. Orphaned \in Flows
  BY <1>3 DEF Orphaned, Flows
<1> QED BY <1>1, <1>2, <1>4

\* The calls of a plugin just made: the orphans, and one that waits.
LEMMA ConstructedIs ==
  ASSUME TypeOK, NEW p \in {"none", "bound", "embed"}, NEW t \in BOOLEAN, Constructed(p, t)
  PROVE  /\ plugin' = p /\ flows' \in Flows
         /\ \A s \in Slots : flows'[s] # None =>
              \/ /\ flows[s] # None /\ flows'[s].at = flows[s].at /\ flows'[s].was = flows[s].was
                 /\ flows'[s].branch = "orphan"
              \/ flows'[s].at \in {"waiting", "offline"} /\ (flows'[s].branch = "bound" => p = "bound")
<1>1. CASE p = "none"
  BY <1>1, OrphanedIs DEF Constructed
<1>2. CASE p # "none"
  <2>1. PICK f : f = IF online THEN Flow("waiting", Branch(p, t)) ELSE Flow("offline", "other")
    OBVIOUS
  <2>2. f \in Calls /\ f.at \in {"waiting", "offline"} /\ (f.branch = "bound" => p = "bound")
    BY <2>1, NewCalls DEF Flow
  <2>3. Free(Orphaned) # {} /\ flows' = Started(Orphaned, f)
    BY <1>2, <2>1 DEF Constructed
  <2>4. flows' \in Flows /\ \A s \in Slots : flows'[s] = Orphaned[s] \/ flows'[s] = f
    BY <2>2, <2>3, OrphanedIs, StartedIs
  <2> QED BY <2>2, <2>4, OrphanedIs DEF Constructed
<1> QED BY <1>1, <1>2

\* A resync of the plugin is one more call.
LEMMA ResyncedIs ==
  ASSUME TypeOK, NEW fs \in Flows, Free(fs) # {}
  PROVE  /\ Resynced(fs) \in Flows
         /\ \A s \in Slots : \/ Resynced(fs)[s] = fs[s]
                             \/ /\ Resynced(fs)[s] # None /\ Resynced(fs)[s].at = "waiting"
                                /\ Resynced(fs)[s].branch = "bound" => plugin = "bound"
<1>1. PICK f : f = Flow("waiting", Branch(plugin, FALSE))
  OBVIOUS
<1>2. f \in Calls /\ f.at = "waiting" /\ (f.branch = "bound" => plugin = "bound")
  BY <1>1, NewCalls DEF Flow
<1>3. f # None
  BY <1>2, OpenEditorAssumption
<1>4. Resynced(fs) = Started(fs, f)
  BY <1>1 DEF Resynced
<1> QED BY <1>2, <1>3, <1>4, StartedIs

(***************************************************************************)
(* What the observer leaves, outside the windows: the buffer as it was,    *)
(* with the change, or with the Y.Doc's text.  A view that was in step     *)
(* stays so, and one that starts to track has the Y.Doc's text or was told *)
(* to by the caller.                                                       *)
(***************************************************************************)
InStep == plugin = "bound" /\ tracking => editor = ytext

Calling(fs) ==
  /\ flows' \in Flows
  /\ \A s \in Slots : \/ flows'[s] = fs[s]
                      \/ /\ flows'[s] # None /\ flows'[s].at = "waiting"
                         /\ flows'[s].branch = "bound" => plugin = "bound"

Left(sure) == editor' = editor /\ dirty' = dirty /\ (tracking' => tracking \/ sure)

Changed(c, sure) ==
  /\ Fits(c, editor) /\ editor' = Applied(c, editor) /\ dirty' = TRUE
  /\ (tracking' => tracking \/ sure)
  /\ c.del = 0 \/ editor = ytext

Replaced(c) ==
  /\ plugin = "bound" /\ editor' = Applied(c, ytext)
  /\ (editor' = editor /\ dirty' = dirty) \/ (dirty' = TRUE /\ file = ytext)

LEMMA ObservedIs ==
  ASSUME TypeOK, InStep, windows = {}, windows' = {},
         NEW c \in Changes, Fits(c, ytext), NEW fs \in Flows, NEW sure \in BOOLEAN,
         Observed(c, fs, sure)
  PROVE  /\ editor' \in Texts /\ dirty' \in BOOLEAN /\ tracking' \in BOOLEAN
         /\ Calling(fs)
         /\ Left(sure) \/ Changed(c, sure) \/ Replaced(c)
         /\ plugin = "bound" /\ tracking => tracking' /\ editor' = Applied(c, ytext)
         /\ plugin = "bound" /\ tracking' =>
              \/ editor' = Applied(c, ytext)
              \/ sure /\ ~tracking /\ ~OneChange(editor, Applied(c, ytext))
<1> USE DEF TypeOK, TextsTyped, LeafTyped, PassTyped
<1>1. ASSUME RangeError(fs, sure), ~(plugin = "bound" /\ tracking),
             ~tracking /\ plugin = "bound" => ~OneChange(editor, Applied(c, ytext))
      PROVE  /\ editor' = editor /\ dirty' = dirty /\ tracking' \in BOOLEAN
             /\ Calling(fs) /\ Left(sure)
             /\ plugin = "bound" /\ tracking' =>
                  sure /\ ~tracking /\ ~OneChange(editor, Applied(c, ytext))
  <2>1. Calling(fs)
    BY <1>1, ResyncedIs DEF RangeError, Calling
  <2> QED BY <1>1, <2>1 DEF RangeError, Left
<1>2. CASE plugin = "none"
  BY <1>2 DEF Observed, Unseen, Calling, Left
<1>3. CASE plugin = "bound" /\ ~tracking
  <2>1. KeyFrame(Applied(c, ytext), fs, sure)
    BY <1>3 DEF Observed
  <2>2. Applied(c, ytext) \in Texts
    BY AppliedIs
  <2>3. CASE /\ IF Applied(c, ytext) = editor THEN UNCHANGED <<editor, dirty>>
                ELSE Dispatched(Applied(c, ytext))
             /\ tracking' = TRUE /\ flows' = fs
             /\ windows' = IF Applied(c, ytext) # editor /\ file # ytext
                           THEN windows \cup {"not set aside"} ELSE windows
    <3>1. Replaced(c)
      BY <1>3, <2>3 DEF Dispatched, Replaced
    <3> QED BY <1>3, <2>2, <2>3, <3>1 DEF Replaced, Calling
  <2>4. CASE ~OneChange(editor, Applied(c, ytext)) /\ RangeError(fs, sure)
    BY <1>1, <1>3, <2>4
  <2> QED BY <2>1, <2>3, <2>4 DEF KeyFrame
<1>4. CASE plugin # "none" /\ ~(plugin = "bound" /\ ~tracking)
  <2>1. Delta(c, fs, sure)
    BY <1>4 DEF Observed
  <2>2. CASE Fits(c, editor)
    <3>1. Applied(c, editor) \in Texts
      BY <2>2, AppliedIs
    <3>2. /\ editor' = Applied(c, editor) /\ dirty' = TRUE /\ flows' = fs
          /\ tracking' = (sure \/ tracking \/ plugin = "bound")
          /\ c.del > 0 => editor = ytext
      BY <2>1, <2>2 DEF Delta, Dispatched
    <3>3. Changed(c, sure)
      BY <1>4, <2>2, <3>2 DEF Changed, Changes
    <3> QED BY <1>4, <3>1, <3>2, <3>3 DEF Calling, InStep
  <2>3. CASE ~Fits(c, editor)
    <3>1. ~(plugin = "bound" /\ tracking) /\ plugin # "bound"
      BY <1>4, <2>3 DEF InStep
    <3> QED BY <1>1, <2>1, <2>3, <3>1 DEF Delta
  <2> QED BY <2>2, <2>3
<1> QED BY <1>2, <1>3, <1>4

\* The types of what the observer leaves, in the windows too.
LEMMA ObservedTyped ==
  ASSUME TypeOK, NEW c \in Changes, Fits(c, ytext), NEW fs \in Flows, NEW sure \in BOOLEAN,
         Observed(c, fs, sure)
  PROVE  /\ editor' \in Texts /\ dirty' \in BOOLEAN /\ tracking' \in BOOLEAN /\ flows' \in Flows
         /\ windows \subseteq windows'
<1> USE DEF TypeOK, TextsTyped, LeafTyped, PassTyped
<1>1. Applied(c, ytext) \in Texts
  BY AppliedIs
<1>2. ASSUME RangeError(fs, sure)
      PROVE  /\ editor' = editor /\ dirty' = dirty /\ tracking' \in BOOLEAN /\ flows' \in Flows
             /\ windows' = windows
  BY <1>2, ResyncedIs DEF RangeError
<1>3. CASE Unseen(fs, sure)
  BY <1>3 DEF Unseen
<1>4. CASE KeyFrame(Applied(c, ytext), fs, sure)
  BY <1>1, <1>2, <1>4 DEF KeyFrame, Dispatched
<1>5. CASE Delta(c, fs, sure)
  <2>1. CASE Fits(c, editor)
    <3>1. Applied(c, editor) \in Texts
      BY <2>1, AppliedIs
    <3> QED BY <1>5, <2>1, <3>1 DEF Delta, Dispatched
  <2>2. CASE ~Fits(c, editor)
    BY <1>2, <1>5, <2>2 DEF Delta
  <2> QED BY <2>1, <2>2
<1> QED BY <1>3, <1>4, <1>5 DEF Observed

LEMMA Insertions ==
  /\ \A i \in Nat, w \in Texts : Change(i, 0, w) \in Changes
  /\ \A i \in Nat : Change(i, 1, <<>>) \in Changes
  /\ \A p \in {Old, Ahead} \cup Typed \cup Peers : <<p>> \in Texts
<1>1. <<>> \in Texts
  BY EmptySeq DEF Texts
<1>2. \A p \in {Old, Ahead} \cup Typed \cup Peers : <<p>> \in Texts
  BY DEF Texts
<1> QED BY <1>1, <1>2 DEF Change, Changes

\* Another client's change of the Y.Doc fits it.
LEMMA ArrivalsFit ==
  ASSUME TypeOK
  PROVE  /\ stored \in Texts => \A i \in {0, Len(ytext)} :
              Change(i, 0, stored) \in Changes /\ Fits(Change(i, 0, stored), ytext)
         /\ \A p \in Peers, i \in Nat : i <= Len(ytext) =>
              Change(i, 0, <<p>>) \in Changes /\ Fits(Change(i, 0, <<p>>), ytext)
         /\ \A i \in Nat : i < Len(ytext) =>
              Change(i, 1, <<>>) \in Changes /\ Fits(Change(i, 1, <<>>), ytext)
         /\ Change(0, 0, <<Old>>) \in Changes /\ Fits(Change(0, 0, <<Old>>), ytext)
<1>1. Len(ytext) \in Nat
  BY DEF TypeOK, TextsTyped, LeafTyped, PassTyped, Texts
<1>2. /\ \A i \in Nat, w \in Texts : i <= Len(ytext) =>
           Change(i, 0, w) \in Changes /\ Fits(Change(i, 0, w), ytext)
      /\ \A i \in Nat : i < Len(ytext) =>
           Change(i, 1, <<>>) \in Changes /\ Fits(Change(i, 1, <<>>), ytext)
  BY <1>1, Insertions DEF Fits, Change
<1> QED BY <1>1, <1>2, Insertions

LEMMA TrackingSetTyped ==
  ASSUME TypeOK, TrackingSet
  PROVE  lock' \in Locks
BY DEF TrackingSet, Remounted, TypeOK, PassTyped, Locks

LEMMA ArrivesTyped ==
  ASSUME TypeOK, NEW c \in Changes, Fits(c, ytext), Arrives(c)
  PROVE  /\ ytext' \in Texts /\ editor' \in Texts /\ dirty' \in BOOLEAN
         /\ tracking' \in BOOLEAN /\ flows' \in Flows /\ lock' \in Locks
         /\ windows \subseteq windows'
<1>1. ytext' \in Texts
  BY AppliedIs DEF Arrives, TypeOK, TextsTyped, LeafTyped, PassTyped
<1>2. Observed(c, flows, FALSE) /\ flows \in Flows
  BY DEF Arrives, TypeOK, TextsTyped, LeafTyped, PassTyped
<1>3. lock' \in Locks
  BY TrackingSetTyped DEF Arrives
<1> QED BY <1>1, <1>2, <1>3, ObservedTyped

LEMMA EditTyped ==
  ASSUME TypeOK, NEW c \in Changes, Fits(c, editor), Edit(c)
  PROVE  ytext' \in Texts /\ editor' \in Texts /\ dirty' \in BOOLEAN /\ saveDue' \in BOOLEAN
<1>1. Applied(c, editor) \in Texts /\ Applied(Clamped(c, ytext), ytext) \in Texts
  BY AppliedIs, ClampedFits DEF TypeOK, TextsTyped, LeafTyped, PassTyped
<1> QED BY <1>1 DEF Edit, Dispatched, TypeOK, TextsTyped, LeafTyped, PassTyped

LEMMA RefreshIfStaleTyped ==
  ASSUME TypeOK, RefreshIfStale
  PROVE  unsaved' \in Texts \cup {NoText}
BY DEF TypeOK, TextsTyped, LeafTyped, PassTyped, RefreshIfStale

LEMMA InstalledTyped ==
  ASSUME TypeOK, NEW view \in Views, NEW t \in BOOLEAN, Installed(view, t)
  PROVE  installed' \in BOOLEAN /\ plugin' \in {"none", "bound", "embed"} /\ flows' \in Flows
<1>1. installed' \in BOOLEAN
  BY DEF Installed, TypeOK, TextsTyped, LeafTyped, PassTyped
<1>2. CASE open
  <2>1. PICK p \in {"none", "bound", "embed"} : Constructed(p, t)
    BY <1>2 DEF Installed
  <2> QED BY <1>1, <2>1, ConstructedIs
<1> QED BY <1>1, <1>2 DEF Installed, TypeOK, TextsTyped, LeafTyped, PassTyped

-----------------------------------------------------------------------------

LEMMA Groups ==
  /\ UNCHANGED text <=> UNCHANGED ytext /\ UNCHANGED stored /\ UNCHANGED loaded
                         /\ UNCHANGED claim /\ UNCHANGED done
  /\ UNCHANGED disk <=> UNCHANGED file /\ UNCHANGED unsaved
  /\ UNCHANGED leaf <=> UNCHANGED open /\ UNCHANGED editor /\ UNCHANGED dirty
  /\ UNCHANGED live <=> UNCHANGED plugin /\ UNCHANGED flows /\ UNCHANGED reading
                         /\ UNCHANGED saveDue
  /\ UNCHANGED registry <=> UNCHANGED signedIn /\ UNCHANGED others /\ UNCHANGED installed
                         /\ UNCHANGED binding /\ UNCHANGED pass /\ UNCHANGED found
                         /\ UNCHANGED again /\ UNCHANGED failed
  /\ UNCHANGED history <=> UNCHANGED made /\ UNCHANGED gone /\ UNCHANGED left
  /\ UNCHANGED Still <=> UNCHANGED disk /\ UNCHANGED online /\ UNCHANGED open /\ UNCHANGED plugin
                         /\ UNCHANGED reading /\ UNCHANGED saveDue /\ UNCHANGED registry
BY DEF text, disk, leaf, live, registry, history, Still

LEMMA TypeStep == TypeOK /\ [Next]_vars => TypeOK' /\ windows \subseteq windows'
<1> SUFFICES ASSUME TypeOK, [Next]_vars PROVE TypeOK' /\ windows \subseteq windows'
  OBVIOUS
<1> USE Groups
<1>1. CASE UNCHANGED vars
  BY <1>1 DEF TypeOK, TextsTyped, LeafTyped, PassTyped, vars
<1>2. CASE NothingOpen
  <2>texts. TextsTyped'
    BY <1>2 DEF NothingOpen, Unmounted, SavedFirst, Works, PassEnds, TypeOK, TextsTyped, Views
  <2>leaf. LeafTyped'
    BY <1>2 DEF NothingOpen, Unmounted, SavedFirst, Works, PassEnds, TypeOK, LeafTyped, Views
  <2>pass. PassTyped'
    BY <1>2 DEF NothingOpen, Unmounted, SavedFirst, Works, PassEnds, TypeOK, PassTyped, Views, HasView, Locks
  <2>windows. windows \subseteq windows'
    BY <1>2 DEF NothingOpen, Unmounted, SavedFirst, Works, PassEnds, Views
  <2> QED BY <2>texts, <2>leaf, <2>pass, <2>windows DEF TypeOK
<1>3. CASE ViewsMatch
  <2>1. Installed(binding, tracking) /\ binding \in Views /\ tracking \in BOOLEAN
    BY <1>3 DEF ViewsMatch, TypeOK, LeafTyped, PassTyped
  <2>2. installed' \in BOOLEAN /\ plugin' \in {"none", "bound", "embed"} /\ flows' \in Flows
    BY <2>1, InstalledTyped
  <2>texts. TextsTyped'
    BY <1>3, <2>2 DEF ViewsMatch, Collects, Fails, Works, Mounted, PassEnds, TypeOK, TextsTyped, Views
  <2>leaf. LeafTyped'
    BY <1>3, <2>2 DEF ViewsMatch, Collects, Fails, Works, Mounted, PassEnds, TypeOK, LeafTyped, Views
  <2>pass. PassTyped'
    BY <1>3, <2>2 DEF ViewsMatch, Collects, Fails, Works, Mounted, PassEnds, TypeOK, PassTyped, Views, HasView, Locks
  <2>windows. windows \subseteq windows'
    BY <1>3, <2>2 DEF ViewsMatch, Collects, Fails, Works, Mounted, PassEnds, Views
  <2> QED BY <2>texts, <2>leaf, <2>pass, <2>windows DEF TypeOK
<1>4. CASE ViewsDiffer
  <2>texts. TextsTyped'
    BY <1>4 DEF ViewsDiffer, Collects, Fails, Works, Unmounted, SavedFirst, TypeOK, TextsTyped, Views
  <2>leaf. LeafTyped'
    BY <1>4 DEF ViewsDiffer, Collects, Fails, Works, Unmounted, SavedFirst, TypeOK, LeafTyped, Views
  <2>pass. PassTyped'
    BY <1>4 DEF ViewsDiffer, Collects, Fails, Works, Unmounted, SavedFirst, TypeOK, PassTyped, Views, HasView, Locks
  <2>windows. windows \subseteq windows'
    BY <1>4 DEF ViewsDiffer, Collects, Fails, Works, Unmounted, SavedFirst, Views
  <2> QED BY <2>texts, <2>leaf, <2>pass, <2>windows DEF TypeOK
<1>5. CASE ViewsReady
  <2>1. Installed(found, FALSE) /\ found \in Views
    BY <1>5 DEF ViewsReady, TypeOK, TextsTyped, LeafTyped, PassTyped
  <2>texts. TextsTyped'
    BY <1>5, <2>1, InstalledTyped DEF ViewsReady, Mounted, PassEnds, TypeOK, TextsTyped, Views
  <2>leaf. LeafTyped'
    BY <1>5, <2>1, InstalledTyped DEF ViewsReady, Mounted, PassEnds, TypeOK, LeafTyped, Views
  <2>pass. PassTyped'
    BY <1>5, <2>1, InstalledTyped DEF ViewsReady, Mounted, PassEnds, TypeOK, PassTyped, Views, HasView, Locks
  <2>windows. windows \subseteq windows'
    BY <1>5, <2>1, InstalledTyped DEF ViewsReady, Mounted, PassEnds, Views
  <2> QED BY <2>texts, <2>leaf, <2>pass, <2>windows DEF TypeOK
<1>6. CASE PassFails
  <2>texts. TextsTyped'
    BY <1>6 DEF PassFails, Fails, PassEnds, TypeOK, TextsTyped
  <2>leaf. LeafTyped'
    BY <1>6 DEF PassFails, Fails, PassEnds, TypeOK, LeafTyped
  <2>pass. PassTyped'
    BY <1>6 DEF PassFails, Fails, PassEnds, TypeOK, PassTyped, Views
  <2>windows. windows \subseteq windows'
    BY <1>6 DEF PassFails
  <2> QED BY <2>texts, <2>leaf, <2>pass, <2>windows DEF TypeOK
<1>26. CASE OtherRefresh \/ NetworkOnline \/ SignsInOrOut
  <2>texts. TextsTyped'
    BY <1>26 DEF OtherRefresh, NetworkOnline, SignsInOrOut, Asked, TypeOK, TextsTyped
  <2>leaf. LeafTyped'
    BY <1>26 DEF OtherRefresh, NetworkOnline, SignsInOrOut, Asked, TypeOK, LeafTyped
  <2>pass. PassTyped'
    BY <1>26 DEF OtherRefresh, NetworkOnline, SignsInOrOut, Asked, Remounted, RefreshViews,
                 TypeOK, PassTyped, Locks
  <2>windows. windows \subseteq windows'
    BY <1>26 DEF OtherRefresh, NetworkOnline, SignsInOrOut, Asked
  <2> QED BY <2>texts, <2>leaf, <2>pass, <2>windows DEF TypeOK
<1>7. CASE Open
  <2>1. PICK p \in {"none", "bound", "embed"} : Constructed(p, FALSE)
    BY <1>7 DEF Open
  <2>2. plugin' = p /\ flows' \in Flows
    BY <2>1, ConstructedIs
  <2>texts. TextsTyped'
    BY <1>7, <2>2 DEF Open, RefreshViews, TypeOK, TextsTyped
  <2>leaf. LeafTyped'
    BY <1>7, <2>2 DEF Open, RefreshViews, TypeOK, LeafTyped
  <2>pass. PassTyped'
    BY <1>7, <2>2 DEF Open, RefreshViews, TypeOK, PassTyped
  <2>windows. windows \subseteq windows'
    BY <1>7, <2>2 DEF Open, RefreshViews
  <2> QED BY <2>texts, <2>leaf, <2>pass, <2>windows DEF TypeOK
<1>8. CASE Close
  <2>1. <<>> \in Texts
    BY EmptySeq DEF Texts
  <2>texts. TextsTyped'
    BY <1>8, <2>1, OrphanedIs DEF Close, SavedFirst, Older, RefreshViews, TypeOK, TextsTyped, Views
  <2>leaf. LeafTyped'
    BY <1>8, <2>1, OrphanedIs DEF Close, SavedFirst, Older, RefreshViews, TypeOK, LeafTyped, Views
  <2>pass. PassTyped'
    BY <1>8, <2>1, OrphanedIs DEF Close, SavedFirst, Older, RefreshViews, TypeOK, PassTyped, Views
  <2>windows. windows \subseteq windows'
    BY <1>8, <2>1, OrphanedIs DEF Close, SavedFirst, Older, RefreshViews, Views
  <2> QED BY <2>texts, <2>leaf, <2>pass, <2>windows DEF TypeOK
<1>9. CASE Save
  <2>texts. TextsTyped'
    BY <1>9 DEF Save, SavedFirst, TypeOK, TextsTyped
  <2>leaf. LeafTyped'
    BY <1>9 DEF Save, SavedFirst, TypeOK, LeafTyped
  <2>pass. PassTyped'
    BY <1>9 DEF Save, SavedFirst, TypeOK, PassTyped
  <2>windows. windows \subseteq windows'
    BY <1>9 DEF Save, SavedFirst
  <2> QED BY <2>texts, <2>leaf, <2>pass, <2>windows DEF TypeOK
<1>10. CASE ScheduledSave
  <2>texts. TextsTyped'
    BY <1>10 DEF ScheduledSave, SavedFirst, TypeOK, TextsTyped
  <2>leaf. LeafTyped'
    BY <1>10 DEF ScheduledSave, SavedFirst, TypeOK, LeafTyped
  <2>pass. PassTyped'
    BY <1>10 DEF ScheduledSave, SavedFirst, TypeOK, PassTyped
  <2>windows. windows \subseteq windows'
    BY <1>10 DEF ScheduledSave, SavedFirst
  <2> QED BY <2>texts, <2>leaf, <2>pass, <2>windows DEF TypeOK
<1>11. ASSUME NEW i \in 0..MaxLength, NEW p \in Typed, TypeLocal(p, i) PROVE TypeOK' /\ windows \subseteq windows'
  <2>1. Change(i, 0, <<p>>) \in Changes /\ i \in Nat
    BY Insertions, OpenEditorAssumption
  <2>2. Fits(Change(i, 0, <<p>>), editor) /\ Edit(Change(i, 0, <<p>>))
    BY <1>11, <2>1 DEF TypeLocal, Edited, Fits, Change, TypeOK, TextsTyped, LeafTyped, PassTyped, Texts
  <2>3. ytext' \in Texts /\ editor' \in Texts /\ dirty' \in BOOLEAN /\ saveDue' \in BOOLEAN
    BY <2>1, <2>2, EditTyped
  <2>texts. TextsTyped'
    BY <1>11, <2>3 DEF TypeLocal, Edited, EditedEarly, TypeOK, TextsTyped
  <2>leaf. LeafTyped'
    BY <1>11, <2>3 DEF TypeLocal, Edited, EditedEarly, TypeOK, LeafTyped
  <2>pass. PassTyped'
    BY <1>11, <2>3 DEF TypeLocal, Edited, EditedEarly, TypeOK, PassTyped
  <2>windows. windows \subseteq windows'
    BY <1>11, <2>3 DEF TypeLocal, Edited, EditedEarly
  <2> QED BY <2>texts, <2>leaf, <2>pass, <2>windows DEF TypeOK
<1>12. ASSUME NEW i \in 0..MaxLength, DeleteLocal(i) PROVE TypeOK' /\ windows \subseteq windows'
  <2>1. Change(i, 1, <<>>) \in Changes /\ i \in Nat
    BY Insertions, OpenEditorAssumption
  <2>2. Fits(Change(i, 1, <<>>), editor) /\ Edit(Change(i, 1, <<>>))
    BY <1>12, <2>1 DEF DeleteLocal, Edited, Fits, Change, TypeOK, TextsTyped, LeafTyped, PassTyped, Texts
  <2>3. ytext' \in Texts /\ editor' \in Texts /\ dirty' \in BOOLEAN /\ saveDue' \in BOOLEAN
    BY <2>1, <2>2, EditTyped
  <2>texts. TextsTyped'
    BY <1>12, <2>3 DEF DeleteLocal, Edited, EditedEarly, TypeOK, TextsTyped
  <2>leaf. LeafTyped'
    BY <1>12, <2>3 DEF DeleteLocal, Edited, EditedEarly, TypeOK, LeafTyped
  <2>pass. PassTyped'
    BY <1>12, <2>3 DEF DeleteLocal, Edited, EditedEarly, TypeOK, PassTyped
  <2>windows. windows \subseteq windows'
    BY <1>12, <2>3 DEF DeleteLocal, Edited, EditedEarly
  <2> QED BY <2>texts, <2>leaf, <2>pass, <2>windows DEF TypeOK
<1>13. CASE Load
  <2>1. CASE stored = <<>> /\ UNCHANGED <<ytext, editor, dirty, tracking, lock, flows, windows>>
    <3>texts. TextsTyped'
      BY <1>13, <2>1 DEF Load, TypeOK, TextsTyped
    <3>leaf. LeafTyped'
      BY <1>13, <2>1 DEF Load, TypeOK, LeafTyped
    <3>pass. PassTyped'
      BY <1>13, <2>1 DEF Load, TypeOK, PassTyped
    <3>windows. windows \subseteq windows'
      BY <1>13, <2>1 DEF Load
    <3> QED BY <3>texts, <3>leaf, <3>pass, <3>windows DEF TypeOK
  <2>2. ASSUME NEW i \in {0, Len(ytext)}, Arrives(Change(i, 0, stored))
        PROVE  TypeOK' /\ windows \subseteq windows'
    <3>1. /\ ytext' \in Texts /\ editor' \in Texts /\ dirty' \in BOOLEAN
          /\ tracking' \in BOOLEAN /\ flows' \in Flows /\ lock' \in Locks
          /\ windows \subseteq windows'
      BY <2>2, ArrivalsFit, ArrivesTyped DEF TypeOK, TextsTyped, LeafTyped, PassTyped
    <3>texts. TextsTyped'
      BY <1>13, <3>1 DEF Load, TypeOK, TextsTyped
    <3>leaf. LeafTyped'
      BY <1>13, <3>1 DEF Load, TypeOK, LeafTyped
    <3>pass. PassTyped'
      BY <1>13, <3>1 DEF Load, TypeOK, PassTyped
    <3>windows. windows \subseteq windows'
      BY <1>13, <3>1 DEF Load
    <3> QED BY <3>texts, <3>leaf, <3>pass, <3>windows DEF TypeOK
  <2> QED BY <1>13, <2>1, <2>2 DEF Load
<1>14. ASSUME NEW i \in 0..MaxLength, NEW p \in Peers, PeerInserts(p, i) PROVE TypeOK' /\ windows \subseteq windows'
  <2>1. i \in Nat /\ i <= Len(ytext) /\ Arrives(Change(i, 0, <<p>>))
    BY <1>14, OpenEditorAssumption DEF PeerInserts
  <2>2. /\ ytext' \in Texts /\ editor' \in Texts /\ dirty' \in BOOLEAN
        /\ tracking' \in BOOLEAN /\ flows' \in Flows /\ lock' \in Locks
        /\ windows \subseteq windows'
    BY <2>1, ArrivalsFit, ArrivesTyped
  <2>texts. TextsTyped'
    BY <1>14, <2>2 DEF PeerInserts, TypeOK, TextsTyped
  <2>leaf. LeafTyped'
    BY <1>14, <2>2 DEF PeerInserts, TypeOK, LeafTyped
  <2>pass. PassTyped'
    BY <1>14, <2>2 DEF PeerInserts, TypeOK, PassTyped
  <2>windows. windows \subseteq windows'
    BY <1>14, <2>2 DEF PeerInserts
  <2> QED BY <2>texts, <2>leaf, <2>pass, <2>windows DEF TypeOK
<1>15. ASSUME NEW i \in 0..MaxLength, PeerDeletes(i) PROVE TypeOK' /\ windows \subseteq windows'
  <2>1. i \in Nat /\ i < Len(ytext) /\ Arrives(Change(i, 1, <<>>))
    BY <1>15, OpenEditorAssumption DEF PeerDeletes
  <2>2. /\ ytext' \in Texts /\ editor' \in Texts /\ dirty' \in BOOLEAN
        /\ tracking' \in BOOLEAN /\ flows' \in Flows /\ lock' \in Locks
        /\ windows \subseteq windows'
    BY <2>1, ArrivalsFit, ArrivesTyped
  <2>texts. TextsTyped'
    BY <1>15, <2>2 DEF PeerDeletes, TypeOK, TextsTyped
  <2>leaf. LeafTyped'
    BY <1>15, <2>2 DEF PeerDeletes, TypeOK, LeafTyped
  <2>pass. PassTyped'
    BY <1>15, <2>2 DEF PeerDeletes, TypeOK, PassTyped
  <2>windows. windows \subseteq windows'
    BY <1>15, <2>2 DEF PeerDeletes
  <2> QED BY <2>texts, <2>leaf, <2>pass, <2>windows DEF TypeOK
<1>16. CASE PeerClaims
  <2>texts. TextsTyped'
    BY <1>16 DEF PeerClaims, TypeOK, TextsTyped
  <2>leaf. LeafTyped'
    BY <1>16 DEF PeerClaims, TypeOK, LeafTyped
  <2>pass. PassTyped'
    BY <1>16 DEF PeerClaims, TypeOK, PassTyped
  <2>windows. windows \subseteq windows'
    BY <1>16 DEF PeerClaims
  <2> QED BY <2>texts, <2>leaf, <2>pass, <2>windows DEF TypeOK
<1>17. CASE PeerSeeds
  <2>1. /\ ytext' \in Texts /\ editor' \in Texts /\ dirty' \in BOOLEAN
        /\ tracking' \in BOOLEAN /\ flows' \in Flows /\ lock' \in Locks
        /\ windows \subseteq windows'
    BY <1>17, ArrivalsFit, ArrivesTyped DEF PeerSeeds
  <2>texts. TextsTyped'
    BY <1>17, <2>1 DEF PeerSeeds, TypeOK, TextsTyped
  <2>leaf. LeafTyped'
    BY <1>17, <2>1 DEF PeerSeeds, TypeOK, LeafTyped
  <2>pass. PassTyped'
    BY <1>17, <2>1 DEF PeerSeeds, TypeOK, PassTyped
  <2>windows. windows \subseteq windows'
    BY <1>17, <2>1 DEF PeerSeeds
  <2> QED BY <2>texts, <2>leaf, <2>pass, <2>windows DEF TypeOK
<1>18. CASE GoesOnline \/ Drop
  <2>texts. TextsTyped'
    BY <1>18 DEF GoesOnline, Drop, TypeOK, TextsTyped
  <2>leaf. LeafTyped'
    BY <1>18 DEF GoesOnline, Drop, TypeOK, LeafTyped
  <2>pass. PassTyped'
    BY <1>18 DEF GoesOnline, Drop, TypeOK, PassTyped
  <2>windows. windows \subseteq windows'
    BY <1>18 DEF GoesOnline, Drop
  <2> QED BY <2>texts, <2>leaf, <2>pass, <2>windows DEF TypeOK
<1>19. ASSUME NEW s \in Slots, ResyncOnline(s) PROVE TypeOK' /\ windows \subseteq windows'
  <2>1. Flow("waiting", Branch(plugin, tracking)) \in Calls
    BY NewCalls
  <2>texts. TextsTyped'
    BY <1>19, <2>1 DEF ResyncOnline, Goes, Flows, TypeOK, TextsTyped
  <2>leaf. LeafTyped'
    BY <1>19, <2>1 DEF ResyncOnline, Goes, Flows, TypeOK, LeafTyped
  <2>pass. PassTyped'
    BY <1>19, <2>1 DEF ResyncOnline, Goes, Flows, TypeOK, PassTyped
  <2>windows. windows \subseteq windows'
    BY <1>19, <2>1 DEF ResyncOnline, Goes, Flows
  <2> QED BY <2>texts, <2>leaf, <2>pass, <2>windows DEF TypeOK
<1>20. ASSUME NEW s \in Slots, At(s, "waiting") \/ At(s, "comparing") \/ At(s, "claiming")
       PROVE  flows[s] \in Calls
  BY <1>20 DEF At, TypeOK, TextsTyped, LeafTyped, PassTyped, Flows
<1>21. ASSUME NEW s \in Slots, ClaimsInit(s) PROVE TypeOK' /\ windows \subseteq windows'
  <2>1. [flows[s] EXCEPT !.at = "claiming", !.was = editor] \in Calls
    BY <1>20, <1>21 DEF ClaimsInit, Calls, TypeOK, TextsTyped, LeafTyped, PassTyped
  <2>texts. TextsTyped'
    BY <1>21, <2>1 DEF ClaimsInit, Goes, Flows, TypeOK, TextsTyped
  <2>leaf. LeafTyped'
    BY <1>21, <2>1 DEF ClaimsInit, Goes, Flows, TypeOK, LeafTyped
  <2>pass. PassTyped'
    BY <1>21, <2>1 DEF ClaimsInit, Goes, Flows, TypeOK, PassTyped
  <2>windows. windows \subseteq windows'
    BY <1>21, <2>1 DEF ClaimsInit, Goes, Flows
  <2> QED BY <2>texts, <2>leaf, <2>pass, <2>windows DEF TypeOK
<1>22. ASSUME NEW s \in Slots, GetKeyFrame(s) PROVE TypeOK' /\ windows \subseteq windows'
  <2>1. [flows[s] EXCEPT !.at = "comparing"] \in Calls
    BY <1>20, <1>22 DEF GetKeyFrame, Calls
  <2>texts. TextsTyped'
    BY <1>22, <2>1 DEF GetKeyFrame, Goes, Ends, Dispatched, Flows, TypeOK, TextsTyped
  <2>leaf. LeafTyped'
    BY <1>22, <2>1 DEF GetKeyFrame, Goes, Ends, Dispatched, Flows, TypeOK, LeafTyped
  <2>pass. PassTyped'
    BY <1>22, <2>1, TrackingSetTyped
    DEF GetKeyFrame, Goes, Ends, Dispatched, Flows, TypeOK, PassTyped
  <2>windows. windows \subseteq windows'
    BY <1>22, <2>1 DEF GetKeyFrame, Goes, Ends, Dispatched, Flows
  <2> QED BY <2>texts, <2>leaf, <2>pass, <2>windows DEF TypeOK
<1>23. ASSUME NEW s \in Slots, Compared(s) PROVE TypeOK' /\ windows \subseteq windows'
  <2>1. unsaved' \in Texts \cup {NoText}
    BY <1>23, RefreshIfStaleTyped DEF Compared
  <2>texts. TextsTyped'
    BY <1>23, <2>1 DEF Compared, Goes, Ends, Dispatched, Flows, TypeOK, TextsTyped
  <2>leaf. LeafTyped'
    BY <1>23, <2>1 DEF Compared, Goes, Ends, Dispatched, Flows, TypeOK, LeafTyped
  <2>pass. PassTyped'
    BY <1>23, <2>1 DEF Compared, Goes, Ends, Dispatched, Flows, TypeOK, PassTyped
  <2>windows. windows \subseteq windows'
    BY <1>23, <2>1 DEF Compared, Goes, Ends, Dispatched, Flows
  <2> QED BY <2>texts, <2>leaf, <2>pass, <2>windows DEF TypeOK
<1>24. CASE RefreshStaleState
  <2>texts. TextsTyped'
    BY <1>24, RefreshIfStaleTyped DEF RefreshStaleState, TypeOK, TextsTyped
  <2>leaf. LeafTyped'
    BY <1>24, RefreshIfStaleTyped DEF RefreshStaleState, TypeOK, LeafTyped
  <2>pass. PassTyped'
    BY <1>24, RefreshIfStaleTyped DEF RefreshStaleState, TypeOK, PassTyped
  <2>windows. windows \subseteq windows'
    BY <1>24, RefreshIfStaleTyped DEF RefreshStaleState
  <2> QED BY <2>texts, <2>leaf, <2>pass, <2>windows DEF TypeOK
<1>25. ASSUME NEW s \in Slots, InitSettled(s) PROVE TypeOK' /\ windows \subseteq windows'
  <2>1. flows[s] \in Calls /\ [flows EXCEPT ![s] = None] \in Flows
    BY <1>20, <1>25 DEF InitSettled, TypeOK, TextsTyped, LeafTyped, PassTyped, Flows
  <2>2. flows[s].was \in Texts /\ (flows[s].branch = "bound") \in BOOLEAN
    BY <2>1 DEF Calls
  <2>3. CASE /\ WonInitClaim /\ done' = TRUE /\ ytext' = flows[s].was \o ytext
             /\ Observed(Change(0, 0, flows[s].was), [flows EXCEPT ![s] = None],
                         flows[s].branch = "bound")
    <3>1. /\ Change(0, 0, flows[s].was) \in Changes
          /\ Fits(Change(0, 0, flows[s].was), ytext)
      <4>1. Len(ytext) \in Nat
        BY DEF TypeOK, TextsTyped, Texts
      <4> QED BY <2>2, <4>1, Insertions DEF Fits, Change
    <3>2. /\ editor' \in Texts /\ dirty' \in BOOLEAN /\ tracking' \in BOOLEAN /\ flows' \in Flows
          /\ windows \subseteq windows'
      BY <2>1, <2>2, <2>3, <3>1, ObservedTyped
    <3>3. ytext' \in Texts
      BY <2>2, <2>3, ConcatProperties DEF TypeOK, TextsTyped, LeafTyped, PassTyped, Texts
    <3>texts. TextsTyped'
      BY <1>25, <2>3, <3>2, <3>3 DEF InitSettled, TypeOK, TextsTyped
    <3>leaf. LeafTyped'
      BY <1>25, <2>3, <3>2, <3>3 DEF InitSettled, TypeOK, LeafTyped
    <3>pass. PassTyped'
      BY <1>25, <2>3, <3>2, <3>3, TrackingSetTyped DEF InitSettled, TypeOK, PassTyped
    <3>windows. windows \subseteq windows'
      BY <1>25, <2>3, <3>2, <3>3 DEF InitSettled
    <3> QED BY <3>texts, <3>leaf, <3>pass, <3>windows DEF TypeOK
  <2>4. CASE /\ tracking' = (tracking \/ flows[s].branch = "bound")
             /\ flows' = [flows EXCEPT ![s] = None] /\ windows \subseteq windows'
             /\ UNCHANGED <<ytext, done, editor, dirty>>
    <3>texts. TextsTyped'
      BY <1>25, <2>4 DEF InitSettled, TypeOK, TextsTyped
    <3>leaf. LeafTyped'
      BY <1>25, <2>1, <2>4 DEF InitSettled, TypeOK, LeafTyped
    <3>pass. PassTyped'
      BY <1>25, <2>4, TrackingSetTyped DEF InitSettled, TypeOK, PassTyped
    <3> QED BY <2>4, <3>texts, <3>leaf, <3>pass DEF TypeOK
  <2> QED BY <1>25, <2>3, <2>4 DEF InitSettled
<1> QED
  BY <1>1, <1>2, <1>3, <1>4, <1>5, <1>6, <1>7, <1>8, <1>9, <1>10, <1>11, <1>12, <1>13, <1>14,
     <1>15, <1>16, <1>17, <1>18, <1>19, <1>21, <1>22, <1>23, <1>24, <1>25, <1>26
  DEF Next, User, Pass, Resync

LEMMA TypeInit == Init => TypeOK
<1> SUFFICES ASSUME Init PROVE TypeOK
  OBVIOUS
<1>1. <<>> \in Texts /\ <<Old>> \in Texts /\ <<Old, Ahead>> \in Texts
  BY EmptySeq DEF Texts
<1>2. file \in Texts /\ stored \in Texts
  BY <1>1, OpenEditorAssumption DEF Init
<1>3. TextsTyped
  BY <1>1, <1>2 DEF Init, TextsTyped
<1>4. LeafTyped
  BY DEF Init, LeafTyped, Flows
<1>5. PassTyped
  BY DEF Init, PassTyped, Views, Locks
<1> QED BY <1>3, <1>4, <1>5 DEF TypeOK

-----------------------------------------------------------------------------
(* The registry and the leaf.                                                *)

(***************************************************************************)
(* A live view is that of the open leaf.  Between its two halves a pass    *)
(* has released the view it replaces, and has found what there is to find  *)
(* or is to run again; at rest what it found is bound, unless the last     *)
(* pass failed.  The lock is held with a view only, and a view has it,     *)
(* unless a pass released it and then failed.  The plugin is bound to a    *)
(* view exactly while the open leaf's view is bound.                       *)
(***************************************************************************)
PassInv ==
  /\ binding = "live" => open
  /\ found = "live" => open
  /\ pass # "ready" => /\ found = "none"
                       /\ lock = "held" => HasView(binding)
                       /\ failed \/ (HasView(binding) => lock # "free")
  /\ pass = "ready" => lock # "held" /\ (failed \/ again \/ found = Fresh)
  /\ pass = "none" => failed \/ (~again /\ binding = Fresh)
  /\ plugin = "bound" <=> open /\ binding = "live"

LEMMA PassStep == TypeOK /\ PassInv /\ [Next]_vars => PassInv'
<1> SUFFICES ASSUME TypeOK, PassInv, [Next]_vars PROVE PassInv'
  OBVIOUS
<1> USE Groups
<1>0. ASSUME UNCHANGED <<open, signedIn, plugin, binding, pass, found, again, failed>>,
             lock' \in {lock, Remounted}
      PROVE  PassInv'
  BY <1>0 DEF PassInv, Fresh, HasView, Remounted
<1>t. TrackingSet => lock' \in {lock, Remounted}
  BY DEF TrackingSet
<1>1. CASE UNCHANGED vars
  BY <1>0, <1>1 DEF vars
<1>2. CASE NothingOpen
  BY <1>2 DEF NothingOpen, Works, Unmounted, PassEnds, PassInv, Fresh, HasView,
              TypeOK, LeafTyped, PassTyped, Views, Locks
<1>3. CASE ViewsMatch
  <2>1. /\ Installed(binding, tracking) /\ tracking \in BOOLEAN /\ UNCHANGED <<open, signedIn, binding>>
        /\ lock' = (IF HasView(binding) THEN "held" ELSE lock)
        /\ binding = Fresh \/ failed'
        /\ pass' # "ready" /\ found' = "none" /\ ~again' /\ pass = "folders"
    BY <1>3 DEF ViewsMatch, Collects, Fails, Works, Mounted, PassEnds, TypeOK, LeafTyped
  <2>2. plugin' = "bound" <=> open /\ binding = "live"
    <3>1. CASE open
      <4>1. PICK p \in {"none", "bound", "embed"} :
              p = (IF binding = "live" THEN "bound" ELSE IF installed' THEN "embed" ELSE "none")
        OBVIOUS
      <4>2. Constructed(p, tracking) /\ (p = "bound" <=> binding = "live")
        BY <2>1, <3>1, <4>1 DEF Installed
      <4> QED BY <2>1, <3>1, <4>2, ConstructedIs
    <3>2. CASE ~open
      BY <2>1, <3>2 DEF Installed, PassInv
    <3> QED BY <3>1, <3>2
  <2>3. Fresh' = Fresh
    BY <2>1 DEF Fresh
  <2> QED BY <2>1, <2>2, <2>3 DEF PassInv, HasView
<1>4. CASE ViewsDiffer
  <2>1. /\ pass = "folders" /\ pass' = "ready" /\ lock' # "held"
        /\ UNCHANGED <<open, signedIn, plugin, binding, again>>
        /\ found' = Fresh \/ (found' = "none" /\ failed')
    BY <1>4 DEF ViewsDiffer, Collects, Fails, Works, Unmounted, PassInv
  <2>2. Fresh' = Fresh /\ (Fresh = "live" => open)
    BY <2>1 DEF Fresh
  <2> QED BY <2>1, <2>2 DEF PassInv
<1>5. CASE ViewsReady
  <2>1. /\ Installed(found, FALSE) /\ UNCHANGED <<open, signedIn, failed>> /\ binding' = found
        /\ lock' = (IF HasView(found) THEN "held" ELSE lock)
        /\ pass = "ready" /\ found' = "none" /\ ~again'
        /\ pass' = (IF again THEN "folders" ELSE "none")
    BY <1>5 DEF ViewsReady, Mounted, PassEnds
  <2>2. plugin' = "bound" <=> open /\ found = "live"
    <3>1. CASE open
      <4>1. PICK p \in {"none", "bound", "embed"} :
              p = (IF found = "live" THEN "bound" ELSE IF installed' THEN "embed" ELSE "none")
        OBVIOUS
      <4>2. Constructed(p, FALSE) /\ (p = "bound" <=> found = "live")
        BY <2>1, <3>1, <4>1 DEF Installed
      <4> QED BY <3>1, <4>2, ConstructedIs
    <3>2. CASE ~open
      BY <2>1, <3>2 DEF Installed, PassInv
    <3> QED BY <3>1, <3>2
  <2>3. Fresh' = Fresh
    BY <2>1 DEF Fresh
  <2>4. found = "live" => open
    BY DEF PassInv
  <2>5. lock # "held" /\ (failed \/ again \/ found = Fresh)
    BY <2>1 DEF PassInv
  <2> QED BY <2>1, <2>2, <2>3, <2>4, <2>5 DEF PassInv, HasView, TypeOK, PassTyped
<1>6. CASE PassFails
  <2>1. /\ failed' = TRUE /\ pass' # "ready" /\ found' = "none"
        /\ UNCHANGED <<open, plugin, binding, lock>>
    BY <1>6 DEF PassFails, Fails, PassEnds
  <2>2. lock = "held" => HasView(binding)
    BY <1>6 DEF PassFails, PassInv, TypeOK, PassTyped
  <2> QED BY <2>1, <2>2 DEF PassInv, HasView
<1>7. CASE Open
  <2>1. PICK p \in {"none", "embed"} : Constructed(p, FALSE)
    BY <1>7 DEF Open
  <2>2. plugin' # "bound"
    BY <2>1, ConstructedIs
  <2> QED BY <1>7, <2>2 DEF Open, RefreshViews, PassInv, Fresh, HasView, TypeOK, LeafTyped, PassTyped
<1>8. CASE Close
  BY <1>8 DEF Close, Older, RefreshViews, PassInv, Fresh, HasView, TypeOK, LeafTyped, PassTyped, Views
<1>9. CASE Save \/ ScheduledSave \/ RefreshStaleState
  BY <1>0, <1>9 DEF Save, ScheduledSave, RefreshStaleState
<1>10. ASSUME NEW i \in 0..MaxLength,
              DeleteLocal(i) \/ PeerDeletes(i) \/ (\E p \in Typed : TypeLocal(p, i))
                             \/ (\E p \in Peers : PeerInserts(p, i))
       PROVE  PassInv'
  BY <1>0, <1>t, <1>10 DEF DeleteLocal, PeerDeletes, TypeLocal, PeerInserts, Edited, Arrives
<1>11. CASE Load \/ PeerClaims \/ PeerSeeds \/ GoesOnline \/ Drop
  BY <1>0, <1>t, <1>11 DEF Load, PeerClaims, PeerSeeds, GoesOnline, Drop, Arrives
<1>12. ASSUME NEW s \in Slots, Resync(s) PROVE PassInv'
  BY <1>0, <1>t, <1>12 DEF Resync, ResyncOnline, ClaimsInit, GetKeyFrame, Compared, InitSettled
<1>13. CASE OtherRefresh \/ NetworkOnline \/ SignsInOrOut
  <2>1. /\ RefreshViews /\ UNCHANGED <<open, plugin, binding, found, failed>>
        /\ lock' \in {lock, Remounted}
    BY <1>13 DEF OtherRefresh, NetworkOnline, SignsInOrOut, Asked
  <2>2. CASE pass = "none"
    <3>1. pass' = "folders"
      BY <2>1, <2>2 DEF RefreshViews
    <3> QED BY <2>1, <2>2, <3>1 DEF PassInv, HasView, Remounted
  <2>3. CASE pass # "none"
    <3>1. pass' = pass /\ again'
      BY <2>1, <2>3 DEF RefreshViews
    <3> QED BY <2>1, <2>3, <3>1 DEF PassInv, HasView, Remounted
  <2> QED BY <2>2, <2>3
<1> QED
  BY <1>1, <1>2, <1>3, <1>4, <1>5, <1>6, <1>7, <1>8, <1>9, <1>10, <1>11, <1>12, <1>13
  DEF Next, User, Pass

LEMMA PassInit == Init => PassInv
BY DEF Init, PassInv, Fresh, HasView

-----------------------------------------------------------------------------
(* The buffer and the Y.Doc.                                                 *)

(***************************************************************************)
(* Outside the windows a tracking view's buffer is the Y.Doc's text.  What *)
(* keeps it so: a call of resync made for a view is never in a plugin      *)
(* without one, a call of a plugin with a view does not compare, and one   *)
(* that has claimed finds the buffer as it was until the view tracks.      *)
(***************************************************************************)
ForAView == \A s \in Slots : flows[s] # None /\ flows[s].branch = "bound" => plugin = "bound"
Comparing == \A s \in Slots : At(s, "comparing") /\ plugin = "bound" => flows[s].branch = "orphan"
Claiming ==
  \A s \in Slots : At(s, "claiming") =>
    /\ loaded /\ flows[s].was # <<>>
    /\ flows[s].branch = "bound" /\ ~done => tracking \/ (ytext = <<>> /\ editor = flows[s].was)

StepInv == windows = {} => InStep /\ ForAView /\ Comparing /\ Claiming

\* What calls of resync become: nothing, the same, or one that has only been made.
Passive ==
  \A s \in Slots : \/ flows'[s] = None \/ flows'[s] = flows[s]
                   \/ /\ flows'[s] # None /\ flows'[s].at = "waiting"
                      /\ flows'[s].branch = "bound" => plugin = "bound"

LEMMA PassiveCalls ==
  ASSUME ForAView, Comparing, Claiming, Passive, plugin' = plugin, loaded => loaded',
         done => done', plugin = "bound" /\ tracking => tracking',
         \A s \in Slots : At(s, "claiming") /\ flows[s].branch = "bound" /\ ~done' /\ ~tracking =>
           tracking' \/ (ytext' = ytext /\ editor' = editor)
  PROVE  ForAView' /\ Comparing' /\ Claiming'
<1>1. ForAView'
  BY DEF ForAView, Passive
<1>2. Comparing'
  BY DEF Comparing, Passive, At
<1>3. Claiming'
  <2> SUFFICES ASSUME NEW s \in Slots, At(s, "claiming")'
               PROVE  /\ loaded' /\ flows'[s].was # <<>>
                      /\ flows'[s].branch = "bound" /\ ~done' =>
                           tracking' \/ (ytext' = <<>> /\ editor' = flows'[s].was)
    BY DEF Claiming
  <2>1. flows'[s] = flows[s] /\ At(s, "claiming")
    BY DEF Passive, At
  <2> QED BY <2>1 DEF Claiming, ForAView, At
<1> QED BY <1>1, <1>2, <1>3

\* A plugin made anew has no call that has begun to compare or claim for a view.
LEMMA ConstructedCalls ==
  ASSUME TypeOK, Claiming, NEW p \in {"none", "bound", "embed"}, NEW t \in BOOLEAN,
         Constructed(p, t), loaded' = loaded
  PROVE  ForAView' /\ Comparing' /\ Claiming'
<1>1. /\ plugin' = p
      /\ \A s \in Slots : flows'[s] # None =>
           \/ /\ flows[s] # None /\ flows'[s].at = flows[s].at /\ flows'[s].was = flows[s].was
              /\ flows'[s].branch = "orphan"
           \/ flows'[s].at \in {"waiting", "offline"} /\ (flows'[s].branch = "bound" => p = "bound")
  BY ConstructedIs
<1>2. ForAView'
  BY <1>1 DEF ForAView
<1>3. Comparing'
  BY <1>1 DEF Comparing, At
<1>4. Claiming'
  BY <1>1 DEF Claiming, At
<1> QED BY <1>2, <1>3, <1>4

\* A change of the Y.Doc that the observer sees.
LEMMA ObservedStep ==
  ASSUME TypeOK, InStep, ForAView, Comparing, Claiming, windows = {}, windows' = {},
         NEW c \in Changes, Fits(c, ytext), NEW fs \in Flows, NEW sure \in BOOLEAN,
         Observed(c, fs, sure), \A s \in Slots : fs[s] \in {flows[s], None},
         ytext' = Applied(c, ytext), plugin' = plugin, loaded => loaded', done => done',
         plugin = "bound" /\ sure /\ ~tracking => OneChange(editor, Applied(c, ytext)),
         done' \/ ytext # <<>> \/ ~loaded
  PROVE  InStep' /\ ForAView' /\ Comparing' /\ Claiming'
<1>1. /\ Calling(fs)
      /\ plugin = "bound" /\ tracking => tracking'
      /\ plugin = "bound" /\ tracking' =>
           \/ editor' = Applied(c, ytext)
           \/ sure /\ ~tracking /\ ~OneChange(editor, Applied(c, ytext))
  BY ObservedIs
<1>2. Passive
  BY <1>1 DEF Calling, Passive
<1>3. ASSUME NEW s \in Slots, At(s, "claiming"), flows[s].branch = "bound", ~done', ~tracking
      PROVE  FALSE
  BY <1>3 DEF Claiming
<1>4. ForAView' /\ Comparing' /\ Claiming'
  BY <1>1, <1>2, <1>3, PassiveCalls
<1>5. InStep'
  BY <1>1 DEF InStep
<1> QED BY <1>4, <1>5

\* The user's edit of a buffer in step is the same edit of the Y.Doc.
LEMMA EditInStep ==
  ASSUME TypeOK, NEW c \in Changes, Fits(c, editor), Edit(c), editor = ytext, plugin # "none"
  PROVE  editor' = Applied(c, ytext) /\ ytext' = Applied(c, ytext)
BY ClampedFits DEF Edit, Dispatched, TypeOK, TextsTyped

LEMMA StepStep == TypeOK /\ PassInv /\ StepInv /\ [Next]_vars => StepInv'
<1> SUFFICES ASSUME TypeOK, PassInv, StepInv, [Next]_vars, windows' = {}
             PROVE  InStep' /\ ForAView' /\ Comparing' /\ Claiming'
  BY DEF StepInv
<1>w. windows = {}
  BY TypeStep
<1>i. InStep /\ ForAView /\ Comparing /\ Claiming
  BY <1>w DEF StepInv
<1> USE Groups
<1>0. ASSUME UNCHANGED <<plugin, flows, loaded, done, tracking, ytext, editor>>
      PROVE  InStep' /\ ForAView' /\ Comparing' /\ Claiming'
  BY <1>0, <1>i DEF InStep, ForAView, Comparing, Claiming, At
<1>1. CASE UNCHANGED vars
  BY <1>0, <1>1 DEF vars
<1>2. CASE NothingOpen
  <2>1. /\ tracking' = FALSE /\ ~open
        /\ UNCHANGED <<plugin, flows, loaded, done, ytext, editor>>
    BY <1>2 DEF NothingOpen
  <2>2. plugin # "bound"
    BY <2>1 DEF PassInv
  <2>3. Passive /\ \A s \in Slots : At(s, "claiming") => flows[s].branch # "bound"
    BY <1>i, <2>1, <2>2 DEF ForAView, At, Passive
  <2> QED BY <1>i, <2>1, <2>2, <2>3, PassiveCalls DEF InStep
<1>3. CASE ViewsMatch
  <2>1. /\ Installed(binding, tracking) /\ tracking \in BOOLEAN
        /\ UNCHANGED <<loaded, done, tracking, ytext, editor>>
    BY <1>3 DEF ViewsMatch, TypeOK, LeafTyped
  <2>2. CASE open
    <3>1. PICK p \in {"none", "bound", "embed"} :
            p = (IF binding = "live" THEN "bound" ELSE IF installed' THEN "embed" ELSE "none")
      OBVIOUS
    <3>2. Constructed(p, tracking) /\ (p = "bound" => plugin = "bound")
      BY <2>1, <2>2, <3>1 DEF Installed, PassInv
    <3>3. plugin' = p
      BY <2>1, <3>2, ConstructedIs
    <3>4. InStep'
      BY <1>i, <2>1, <3>2, <3>3 DEF InStep
    <3> QED BY <1>i, <2>1, <3>2, <3>4, ConstructedCalls
  <2>3. CASE ~open
    BY <1>0, <2>1, <2>3 DEF Installed
  <2> QED BY <2>2, <2>3
<1>4. CASE ViewsDiffer
  BY <1>0, <1>4 DEF ViewsDiffer
<1>5. CASE ViewsReady
  <2>1. Installed(found, FALSE) /\ tracking' = FALSE /\ UNCHANGED <<loaded, done, ytext, editor>>
    BY <1>5 DEF ViewsReady
  <2>2. CASE open
    <3>1. PICK p \in {"none", "bound", "embed"} : Constructed(p, FALSE)
      BY <2>1, <2>2 DEF Installed
    <3> QED BY <1>i, <2>1, <3>1, ConstructedCalls DEF InStep
  <2>3. CASE ~open
    <3>1. UNCHANGED <<plugin, flows>> /\ plugin # "bound"
      BY <2>1, <2>3 DEF Installed, PassInv
    <3>2. Passive /\ \A s \in Slots : At(s, "claiming") => flows[s].branch # "bound"
      BY <1>i, <3>1 DEF ForAView, At, Passive
    <3> QED BY <1>i, <2>1, <3>1, <3>2, PassiveCalls DEF InStep
  <2> QED BY <2>2, <2>3
<1>6. CASE PassFails \/ OtherRefresh \/ NetworkOnline \/ SignsInOrOut
  BY <1>0, <1>6 DEF PassFails, OtherRefresh, NetworkOnline, SignsInOrOut, Asked
<1>7. CASE Open
  <2>1. PICK p \in {"none", "embed"} : Constructed(p, FALSE)
    BY <1>7 DEF Open
  <2>2. loaded' = loaded /\ plugin' # "bound"
    BY <1>7, <2>1, ConstructedIs DEF Open
  <2> QED BY <1>i, <2>1, <2>2, ConstructedCalls DEF InStep
<1>8. CASE Close
  <2>1. plugin' = "none" /\ flows' = Orphaned /\ loaded' = loaded
    BY <1>8 DEF Close
  <2>2. Constructed("none", FALSE)
    BY <2>1 DEF Constructed
  <2> QED BY <1>i, <2>1, <2>2, ConstructedCalls DEF InStep
<1>9. CASE Save \/ ScheduledSave \/ RefreshStaleState
  BY <1>0, <1>9 DEF Save, ScheduledSave, RefreshStaleState
<1>10. ASSUME NEW c \in Changes, Fits(c, editor), Edited(c), editor = ytext, plugin # "none"
       PROVE  InStep' /\ ForAView' /\ Comparing' /\ Claiming'
  <2>1. editor' = ytext' /\ UNCHANGED <<plugin, flows, loaded, done, tracking>>
    BY <1>10, EditInStep DEF Edited
  <2>2. ASSUME NEW s \in Slots, At(s, "claiming"), flows[s].branch = "bound", ~done, ~tracking
        PROVE  FALSE
    BY <1>i, <1>10, <2>2 DEF Claiming
  <2>3. Passive
    BY <2>1 DEF Passive
  <2> QED BY <1>i, <2>1, <2>2, <2>3, PassiveCalls DEF InStep
<1>11. ASSUME NEW i \in 0..MaxLength, NEW p \in Typed, TypeLocal(p, i)
       PROVE  InStep' /\ ForAView' /\ Comparing' /\ Claiming'
  <2>1. Change(i, 0, <<p>>) \in Changes /\ i \in Nat
    BY Insertions, OpenEditorAssumption
  <2>2. Fits(Change(i, 0, <<p>>), editor) /\ Edited(Change(i, 0, <<p>>))
    BY <1>11, <2>1 DEF TypeLocal, Fits, Change, TypeOK, TextsTyped, Texts
  <2>3. editor = ytext /\ plugin # "none"
    BY <1>11 DEF TypeLocal, EditedEarly
  <2> QED BY <1>10, <2>1, <2>2, <2>3
<1>12. ASSUME NEW i \in 0..MaxLength, DeleteLocal(i)
       PROVE  InStep' /\ ForAView' /\ Comparing' /\ Claiming'
  <2>1. Change(i, 1, <<>>) \in Changes /\ i \in Nat
    BY Insertions, OpenEditorAssumption
  <2>2. Fits(Change(i, 1, <<>>), editor) /\ Edited(Change(i, 1, <<>>))
    BY <1>12, <2>1 DEF DeleteLocal, Fits, Change, TypeOK, TextsTyped, Texts
  <2>3. editor = ytext /\ plugin # "none"
    BY <1>12 DEF DeleteLocal, EditedEarly
  <2> QED BY <1>10, <2>1, <2>2, <2>3
<1>13. ASSUME NEW c \in Changes, Fits(c, ytext), Arrives(c), plugin' = plugin, loaded => loaded',
              done => done', done' \/ ytext # <<>> \/ ~loaded
       PROVE  InStep' /\ ForAView' /\ Comparing' /\ Claiming'
  <2>1. Observed(c, flows, FALSE) /\ flows \in Flows /\ ytext' = Applied(c, ytext)
    BY <1>13 DEF Arrives, TypeOK, LeafTyped
  <2> QED BY <1>i, <1>w, <1>13, <2>1, ObservedStep
<1>14. CASE Load
  <2>1. ~loaded /\ loaded' /\ plugin' = plugin /\ done' = done
    BY <1>14 DEF Load
  <2>2. CASE UNCHANGED <<ytext, editor, dirty, tracking, lock, flows, windows>>
    <3>1. Passive
      BY <2>2 DEF Passive
    <3> QED BY <1>i, <2>1, <2>2, <3>1, PassiveCalls DEF InStep
  <2>3. ASSUME NEW i \in {0, Len(ytext)}, Arrives(Change(i, 0, stored))
        PROVE  InStep' /\ ForAView' /\ Comparing' /\ Claiming'
    <3>1. /\ Change(i, 0, stored) \in Changes /\ Fits(Change(i, 0, stored), ytext)
      BY ArrivalsFit DEF TypeOK, TextsTyped
    <3> QED BY <1>13, <2>1, <2>3, <3>1
  <2> QED BY <1>14, <2>2, <2>3 DEF Load
<1>15. ASSUME NEW i \in 0..MaxLength, NEW p \in Peers, PeerInserts(p, i)
       PROVE  InStep' /\ ForAView' /\ Comparing' /\ Claiming'
  <2>1. /\ i \in Nat /\ i <= Len(ytext) /\ Arrives(Change(i, 0, <<p>>))
        /\ plugin' = plugin /\ UNCHANGED <<loaded, done>> /\ (done \/ ytext # <<>>)
    BY <1>15, OpenEditorAssumption DEF PeerInserts
  <2>2. Change(i, 0, <<p>>) \in Changes /\ Fits(Change(i, 0, <<p>>), ytext)
    BY <2>1, ArrivalsFit
  <2> QED BY <1>13, <2>1, <2>2
<1>16. ASSUME NEW i \in 0..MaxLength, PeerDeletes(i)
       PROVE  InStep' /\ ForAView' /\ Comparing' /\ Claiming'
  <2>1. /\ i \in Nat /\ i < Len(ytext) /\ Arrives(Change(i, 1, <<>>))
        /\ plugin' = plugin /\ UNCHANGED <<loaded, done>>
    BY <1>16, OpenEditorAssumption DEF PeerDeletes
  <2>2. Change(i, 1, <<>>) \in Changes /\ Fits(Change(i, 1, <<>>), ytext) /\ ytext # <<>>
    BY <2>1, ArrivalsFit
  <2> QED BY <1>13, <2>1, <2>2
<1>17. CASE PeerSeeds
  <2>1. Arrives(Change(0, 0, <<Old>>)) /\ plugin' = plugin /\ loaded' = loaded /\ done'
    BY <1>17 DEF PeerSeeds
  <2>2. Change(0, 0, <<Old>>) \in Changes /\ Fits(Change(0, 0, <<Old>>), ytext)
    BY ArrivalsFit
  <2> QED BY <1>13, <2>1, <2>2
<1>18. CASE PeerClaims \/ GoesOnline \/ Drop
  BY <1>0, <1>18 DEF PeerClaims, GoesOnline, Drop
<1>19. ASSUME NEW s \in Slots, ResyncOnline(s) PROVE InStep' /\ ForAView' /\ Comparing' /\ Claiming'
  <2>1. /\ flows' = [flows EXCEPT ![s] = Flow("waiting", Branch(plugin, tracking))]
        /\ UNCHANGED <<plugin, loaded, done, tracking, ytext, editor>>
    BY <1>19 DEF ResyncOnline, Goes
  <2>2. PICK f \in Calls : f = Flow("waiting", Branch(plugin, tracking))
    BY NewCalls
  <2>3. f # None /\ f.at = "waiting" /\ (f.branch = "bound" => plugin = "bound")
    BY <2>2, NewCalls, OpenEditorAssumption DEF Flow
  <2>4. \A z \in Slots : flows'[z] = IF z = s THEN f ELSE flows[z]
    BY <2>1, <2>2 DEF TypeOK, LeafTyped, Flows
  <2>5. Passive
    BY <2>3, <2>4 DEF Passive
  <2> QED BY <1>i, <2>1, <2>5, PassiveCalls DEF InStep
<1>20. ASSUME NEW s \in Slots, ClaimsInit(s) PROVE InStep' /\ ForAView' /\ Comparing' /\ Claiming'
  <2>1. PICK f : f = [flows[s] EXCEPT !.at = "claiming", !.was = editor]
    OBVIOUS
  <2>2. /\ flows' = [flows EXCEPT ![s] = f] /\ flows[s] # None
        /\ loaded /\ ytext = <<>> /\ editor # <<>>
        /\ UNCHANGED <<plugin, loaded, done, tracking, ytext, editor>>
    BY <1>20, <2>1 DEF ClaimsInit, Goes, At
  <2>3. flows[s] \in Calls
    BY <2>2 DEF TypeOK, LeafTyped, Flows
  <2>4. f.at = "claiming" /\ f.was = editor /\ f.branch = flows[s].branch
    BY <2>1, <2>3 DEF Calls
  <2>5. \A z \in Slots : flows'[z] = IF z = s THEN f ELSE flows[z]
    BY <2>2 DEF TypeOK, LeafTyped, Flows
  <2>6. InStep' /\ ForAView'
    BY <1>i, <2>2, <2>4, <2>5 DEF InStep, ForAView
  <2>7. Comparing'
    BY <1>i, <2>2, <2>4, <2>5 DEF Comparing, At
  <2>8. Claiming'
    <3> SUFFICES ASSUME NEW z \in Slots, At(z, "claiming")'
                 PROVE  /\ loaded' /\ flows'[z].was # <<>>
                        /\ flows'[z].branch = "bound" /\ ~done' =>
                             tracking' \/ (ytext' = <<>> /\ editor' = flows'[z].was)
      BY DEF Claiming
    <3>1. CASE z = s
      BY <2>2, <2>4, <2>5, <3>1
    <3>2. CASE z # s
      BY <1>i, <2>2, <2>5, <3>2 DEF Claiming, At
    <3> QED BY <3>1, <3>2
  <2> QED BY <2>6, <2>7, <2>8
<1>21. ASSUME NEW s \in Slots, GetKeyFrame(s) PROVE InStep' /\ ForAView' /\ Comparing' /\ Claiming'
  <2>1. /\ At(s, "waiting") /\ (ytext # <<>> \/ editor = <<>>)
        /\ UNCHANGED <<plugin, loaded, done, ytext>>
    BY <1>21 DEF GetKeyFrame
  <2>2. CASE ytext = editor /\ tracking' = (tracking \/ plugin = "bound") /\ Ends(s)
             /\ UNCHANGED <<editor, dirty, reading>>
    <3>1. Passive
      BY <2>2 DEF Passive, Ends, Goes, TypeOK, LeafTyped, Flows
    <3> QED BY <1>i, <2>1, <2>2, <3>1, PassiveCalls DEF InStep
  <2>3. CASE ytext # editor /\ plugin = "bound" /\ ~tracking
             /\ Dispatched(ytext) /\ reading' = TRUE /\ Ends(s) /\ UNCHANGED tracking
    <3>1. Passive
      BY <2>3 DEF Passive, Ends, Goes, TypeOK, LeafTyped, Flows
    <3>2. ASSUME NEW z \in Slots, At(z, "claiming"), flows[z].branch = "bound", ~done, ~tracking
          PROVE  FALSE
      BY <1>i, <2>1, <3>2 DEF Claiming
    <3> QED BY <1>i, <2>1, <2>3, <3>1, <3>2, PassiveCalls DEF InStep
  <2>4. CASE ytext # editor /\ (plugin = "embed" \/ tracking)
             /\ Goes(s, [flows[s] EXCEPT !.at = "comparing"])
             /\ UNCHANGED <<editor, dirty, reading, tracking>>
    <3>1. plugin # "bound"
      BY <1>i, <2>4 DEF InStep
    <3>2. flows[s] \in Calls
      BY <2>1 DEF At, TypeOK, LeafTyped, Flows
    <3>3. PICK f : f = [flows[s] EXCEPT !.at = "comparing"]
      OBVIOUS
    <3>4. f.at = "comparing" /\ f.branch = flows[s].branch
      BY <3>2, <3>3 DEF Calls
    <3>5. \A z \in Slots : flows'[z] = IF z = s THEN f ELSE flows[z]
      BY <2>4, <3>3 DEF Goes, TypeOK, LeafTyped, Flows
    <3>6. InStep' /\ ForAView' /\ Comparing'
      BY <1>i, <2>1, <2>4, <3>1, <3>4, <3>5 DEF InStep, ForAView, Comparing, At
    <3>7. Claiming'
      BY <1>i, <2>1, <2>4, <3>4, <3>5 DEF Claiming, At
    <3> QED BY <3>6, <3>7
  <2> QED BY <1>21, <2>2, <2>3, <2>4 DEF GetKeyFrame
<1>22. ASSUME NEW s \in Slots, Compared(s) PROVE InStep' /\ ForAView' /\ Comparing' /\ Claiming'
  <2>1. /\ At(s, "comparing") /\ Ends(s) /\ UNCHANGED <<plugin, loaded, done, tracking, ytext>>
        /\ flows[s].branch = "orphan" => editor' = editor
    BY <1>22 DEF Compared
  <2>2. plugin = "bound" => editor' = editor
    BY <1>i, <2>1 DEF Comparing
  <2>3. Passive
    BY <2>1 DEF Passive, Ends, Goes, TypeOK, LeafTyped, Flows
  <2>4. \A z \in Slots : At(z, "claiming") /\ flows[z].branch = "bound" => plugin = "bound"
    BY <1>i DEF ForAView, At
  <2> QED BY <1>i, <2>1, <2>2, <2>3, <2>4, PassiveCalls DEF InStep
<1>23. ASSUME NEW s \in Slots, InitSettled(s) PROVE InStep' /\ ForAView' /\ Comparing' /\ Claiming'
  <2>1. At(s, "claiming") /\ UNCHANGED <<plugin, loaded>>
    BY <1>23 DEF InitSettled
  <2>2. PICK fs : fs = [flows EXCEPT ![s] = None]
    OBVIOUS
  <2>3. fs \in Flows /\ \A z \in Slots : fs[z] \in {flows[z], None}
    BY <2>2 DEF TypeOK, LeafTyped, Flows
  <2>4. flows[s] \in Calls
    BY <2>1 DEF At, TypeOK, LeafTyped, Flows
  <2>5. PICK w \in Texts : w = flows[s].was
    BY <2>4 DEF Calls
  <2>6. PICK binds \in BOOLEAN : binds = (flows[s].branch = "bound")
    OBVIOUS
  <2>7. binds => plugin = "bound"
    BY <1>i, <2>1, <2>6 DEF ForAView, At
  <2>8. CASE WonInitClaim /\ done' = TRUE /\ ytext' = w \o ytext /\ Observed(Change(0, 0, w), fs, binds)
    <3>1. ytext = <<>> /\ ~done
      BY <2>8 DEF WonInitClaim
    <3>2. Change(0, 0, w) \in Changes /\ Fits(Change(0, 0, w), ytext)
      BY <3>1, Insertions, EmptySeq DEF Fits, Change
    <3>3. Applied(Change(0, 0, w), ytext) = w /\ ytext' = w
      BY <2>8, <3>1, FirstInsertion, ConcatEmptySeq DEF Texts
    <3>4. plugin = "bound" /\ binds /\ ~tracking => OneChange(editor, Applied(Change(0, 0, w), ytext))
      <4>1. binds /\ ~tracking => editor = w
        BY <1>i, <2>1, <2>5, <2>6, <3>1 DEF Claiming
      <4> QED BY <3>3, <4>1, SameIsOneChange
    <3> QED BY <1>i, <1>w, <2>1, <2>3, <2>8, <3>2, <3>3, <3>4, ObservedStep
  <2>9. CASE /\ tracking' = (tracking \/ binds) /\ flows' = fs
             /\ windows' = IF binds /\ editor # ytext THEN windows \cup {"claim lost"} ELSE windows
             /\ UNCHANGED <<ytext, done, editor, dirty>>
    <3>1. Passive
      BY <2>3, <2>9 DEF Passive
    <3>2. binds => editor = ytext
      BY <2>9
    <3> QED BY <1>i, <2>1, <2>7, <2>9, <3>1, <3>2, PassiveCalls DEF InStep
  <2> QED BY <1>23, <2>2, <2>5, <2>6, <2>8, <2>9 DEF InitSettled
<1> QED
  BY <1>1, <1>2, <1>3, <1>4, <1>5, <1>6, <1>7, <1>8, <1>9, <1>11, <1>12, <1>14, <1>15, <1>16,
     <1>17, <1>18, <1>19, <1>20, <1>21, <1>22, <1>23
  DEF Next, User, Pass, Resync

LEMMA StepInit == Init => StepInv
BY DEF Init, StepInv, InStep, ForAView, Comparing, Claiming, At

-----------------------------------------------------------------------------
(* Nothing that was added is lost.                                           *)

Aside == IF unsaved = NoText THEN {} ELSE ToSet(unsaved)
Unloaded == IF loaded THEN {} ELSE ToSet(stored)

\* What only the vault's file or the buffer still has.
Missing == (made \ gone) \ (ToSet(ytext) \cup Aside \cup Unloaded)

(***************************************************************************)
(* What the Y.Doc is missing is in the file, and then nothing has been set *)
(* aside; an open leaf's buffer has it too or the keyframe that replaced   *)
(* the buffer is followed by a read of the file, before which that buffer, *)
(* not saved yet, is not written; and where the Y.Doc is to be written to  *)
(* the file, by a save or by the unmounting of a view that tracks, such a  *)
(* read is under way.                                                      *)
(***************************************************************************)
Kept ==
  /\ Missing \subseteq ToSet(file)
  /\ unsaved # NoText => Missing = {}
  /\ saveDue \/ tracking => Missing = {} \/ reading
  /\ reading => Missing = {} \/ (open /\ dirty)
  /\ open => Missing = {} \/ reading \/ Missing \subseteq ToSet(editor)

KeptInv == windows = {} => Kept

LEMMA NoneMissing == ASSUME Missing' = {} PROVE Kept'
BY DEF Kept

LEMMA EmptyHasNothing == ToSet(<<>>) = {}
BY DEF ToSet

\* refreshIfStale sets the file's text aside, or has done so earlier.
LEMMA RefreshKeeps ==
  ASSUME TypeOK, Kept, RefreshIfStale, UNCHANGED <<file, ytext, stored, loaded, made, gone>>
  PROVE  Missing' = {}
<1>1. PICK kept \in Texts : kept = IF unsaved \notin {NoText, <<>>} THEN unsaved ELSE file
  BY DEF TypeOK, TextsTyped
<1>2. kept # NoText /\ unsaved' = IF kept = ytext THEN NoText ELSE kept
  BY <1>1, OpenEditorAssumption DEF RefreshIfStale
<1>3. ToSet(kept) \subseteq ToSet(ytext) \cup Aside'
  BY <1>2 DEF Aside
<1>4. CASE unsaved \notin {NoText, <<>>}
  <2>1. Missing = {} /\ Aside = ToSet(kept)
    BY <1>1, <1>4 DEF Kept, Aside
  <2> QED BY <1>3, <2>1 DEF Missing, Unloaded
<1>5. CASE unsaved \in {NoText, <<>>}
  <2>1. Aside = {} /\ kept = file
    BY <1>1, <1>5, EmptyHasNothing DEF Aside
  <2> QED BY <1>3, <2>1 DEF Kept, Missing, Unloaded
<1> QED BY <1>4, <1>5

\* What the observer does to the buffer loses nothing the Y.Doc is missing.
LEMMA ObservedKept ==
  ASSUME TypeOK, PassInv, InStep, Kept, windows = {}, windows' = {},
         NEW c \in Changes, Fits(c, ytext), NEW fs \in Flows, NEW sure \in BOOLEAN,
         Observed(c, fs, sure), ytext' = Applied(c, ytext),
         UNCHANGED <<file, unsaved, plugin, open, reading, saveDue>>,
         sure => plugin = "bound",
         sure /\ ~tracking => OneChange(editor, Applied(c, ytext)),
         Missing' \subseteq Missing,
         Fits(c, editor) /\ (c.del = 0 \/ editor = ytext) =>
           Missing' \cap ToSet(editor) \subseteq ToSet(Applied(c, editor))
  PROVE  Kept'
<1>1. /\ Left(sure) \/ Changed(c, sure) \/ Replaced(c)
      /\ plugin = "bound" /\ tracking' =>
           \/ editor' = Applied(c, ytext)
           \/ sure /\ ~tracking /\ ~OneChange(editor, Applied(c, ytext))
  BY ObservedIs
<1>2. Missing' \cap ToSet(ytext') = {} /\ Missing \cap ToSet(ytext) = {}
  BY DEF Missing
<1>3. SUFFICES ASSUME Missing' # {} PROVE Kept'
  BY NoneMissing
<1>4. /\ Missing # {} /\ Missing \subseteq ToSet(file) /\ unsaved = NoText
      /\ saveDue \/ tracking => reading
      /\ reading => open /\ dirty
      /\ open => reading \/ Missing \subseteq ToSet(editor)
  BY <1>3 DEF Kept, TypeOK, LeafTyped
<1>5. file # ytext
  BY <1>2, <1>4
<1>6. Missing \subseteq ToSet(editor) => Missing' \subseteq ToSet(editor')
  BY <1>1, <1>5 DEF Left, Changed, Replaced
<1>7. reading => dirty'
  BY <1>1, <1>4 DEF Left, Changed, Replaced
<1>8. tracking' => reading
  <2> SUFFICES ASSUME tracking', ~tracking, ~reading PROVE FALSE
    BY <1>4
  <2>1. plugin = "bound"
    BY <1>1 DEF Left, Changed, Replaced
  <2>2. editor' = ytext'
    BY <1>1, <2>1
  <2>3. open
    BY <2>1 DEF PassInv
  <2> QED BY <1>2, <1>3, <1>4, <1>6, <2>2, <2>3
<1> QED BY <1>4, <1>6, <1>7, <1>8 DEF Kept

\* The passages of a text after an insertion and after a deletion.
LEMMA ArrivalKept ==
  ASSUME TypeOK, PassInv, InStep, Kept, windows = {}, windows' = {},
         NEW c \in Changes, Fits(c, ytext), NEW fs \in Flows, NEW sure \in BOOLEAN,
         Observed(c, fs, sure), ytext' = Applied(c, ytext),
         UNCHANGED <<file, unsaved, plugin, open, reading, saveDue, stored>>,
         sure => plugin = "bound",
         sure /\ ~tracking => OneChange(editor, Applied(c, ytext)),
         loaded' = loaded \/ (loaded' /\ stored = c.ins),
         \/ /\ c.del = 0 /\ gone' = gone /\ made' \ ToSet(c.ins) \subseteq made
         \/ /\ c.del = 1 /\ c.ins = <<>> /\ made' = made /\ gone' = gone \cup {ytext[c.at + 1]}
            /\ loaded' = loaded
  PROVE  Kept'
<1>1. Aside' = Aside
  BY DEF Aside
<1>2. CASE c.del = 0 /\ gone' = gone /\ made' \ ToSet(c.ins) \subseteq made
  <2>1. ToSet(ytext) \cup ToSet(c.ins) \subseteq ToSet(ytext')
    BY <1>2, InsertionKeeps DEF TypeOK, TextsTyped
  <2>2. Unloaded \subseteq Unloaded' \cup ToSet(c.ins)
    BY DEF Unloaded, TypeOK, LeafTyped
  <2>3. Missing' \subseteq Missing
    BY <1>1, <1>2, <2>1, <2>2 DEF Missing
  <2>4. Fits(c, editor) => ToSet(editor) \subseteq ToSet(Applied(c, editor))
    BY <1>2, InsertionKeeps DEF TypeOK, TextsTyped
  <2> QED BY <2>3, <2>4, ObservedKept
<1>3. CASE /\ c.del = 1 /\ c.ins = <<>> /\ made' = made /\ gone' = gone \cup {ytext[c.at + 1]}
           /\ loaded' = loaded
  <2>1. ToSet(ytext) \ {ytext[c.at + 1]} \subseteq ToSet(ytext')
    BY <1>3, DeletionKeeps DEF TypeOK, TextsTyped
  <2>2. Missing' \subseteq Missing /\ ytext[c.at + 1] \notin Missing'
    BY <1>1, <1>3, <2>1 DEF Missing, Unloaded
  <2>3. Fits(c, editor) => ToSet(editor) \ {editor[c.at + 1]} \subseteq ToSet(Applied(c, editor))
    BY <1>3, DeletionKeeps DEF TypeOK, TextsTyped
  <2>4. Fits(c, editor) /\ editor = ytext =>
          Missing' \cap ToSet(editor) \subseteq ToSet(Applied(c, editor))
    BY <2>2, <2>3
  <2> QED BY <1>3, <2>2, <2>4, ObservedKept
<1> QED BY <1>2, <1>3

LEMMA KeptStep == TypeOK /\ PassInv /\ StepInv /\ KeptInv /\ [Next]_vars => KeptInv'
<1> SUFFICES ASSUME TypeOK, PassInv, StepInv, KeptInv, [Next]_vars, windows' = {} PROVE Kept'
  BY DEF KeptInv
<1>w. windows = {}
  BY TypeStep
<1>i. InStep /\ ForAView /\ Comparing /\ Claiming /\ Kept
  BY <1>w DEF StepInv, KeptInv
<1> USE Groups
<1>m. ASSUME UNCHANGED <<made, gone, ytext, stored, loaded, unsaved>> PROVE Missing' = Missing
  BY <1>m DEF Missing, Aside, Unloaded
<1>h. ASSUME Missing # {}
      PROVE  /\ Missing \subseteq ToSet(file) /\ unsaved = NoText
             /\ saveDue \/ tracking => reading
             /\ reading => open /\ dirty
             /\ open => reading \/ Missing \subseteq ToSet(editor)
  BY <1>h, <1>i DEF Kept, TypeOK, LeafTyped
<1>0. ASSUME UNCHANGED <<made, gone, ytext, stored, loaded, unsaved, saveDue, file, open, editor,
                         dirty, reading>>, (tracking' => tracking)
      PROVE  Kept'
  BY <1>0, <1>i, <1>m DEF Kept
<1>1. CASE UNCHANGED vars
  BY <1>0, <1>1 DEF vars
<1>2. CASE NothingOpen \/ ViewsDiffer
  <2>1. /\ UNCHANGED <<made, gone, ytext, stored, loaded, unsaved, saveDue, open, editor, dirty,
                       reading>>
        /\ Unmounted /\ (tracking' => tracking)
    BY <1>2 DEF NothingOpen, ViewsDiffer, Collects, Fails, Works
  <2>2. SUFFICES ASSUME Missing # {} PROVE Kept'
    BY <1>m, <2>1, NoneMissing
  <2>3. HasView(binding) /\ tracking => ~reading
    BY <1>w, <2>1 DEF Unmounted, SavedFirst
  <2>4. file' = file
    BY <1>h, <2>1, <2>2, <2>3 DEF Unmounted
  <2> QED BY <1>0, <2>1, <2>4
<1>3. CASE ViewsMatch
  BY <1>0, <1>3 DEF ViewsMatch, Collects, Fails, Works
<1>5. CASE ViewsReady
  BY <1>0, <1>5 DEF ViewsReady
<1>6. CASE PassFails \/ OtherRefresh \/ NetworkOnline \/ SignsInOrOut
  BY <1>0, <1>6 DEF PassFails, Fails, OtherRefresh, NetworkOnline, SignsInOrOut, Asked
<1>7. CASE Open
  <2>1. /\ UNCHANGED <<made, gone, ytext, stored, loaded, unsaved, saveDue, file, reading, tracking>>
        /\ ~open /\ editor' = file
    BY <1>7 DEF Open
  <2>2. SUFFICES ASSUME Missing # {} PROVE Kept'
    BY <1>m, <2>1, NoneMissing
  <2>3. ~reading
    BY <1>h, <2>1, <2>2
  <2> QED BY <1>h, <1>m, <2>1, <2>2, <2>3 DEF Kept
<1>8. CASE Close \/ Save
  <2>1. /\ UNCHANGED <<made, gone, ytext, stored, loaded, unsaved, saveDue, reading, tracking>>
        /\ open /\ ~(dirty /\ reading) /\ file' = (IF dirty THEN editor ELSE file)
        /\ open' => editor' = file'
    BY <1>8 DEF Close, Save, SavedFirst
  <2>2. SUFFICES ASSUME Missing # {} PROVE Kept'
    BY <1>m, <2>1, NoneMissing
  <2>3. ~reading /\ Missing \subseteq ToSet(file')
    BY <1>h, <2>1, <2>2
  <2> QED BY <1>h, <1>m, <2>1, <2>2, <2>3 DEF Kept
<1>9. CASE ScheduledSave
  <2>1. saveDue /\ ~reading /\ UNCHANGED <<made, gone, ytext, stored, loaded, unsaved>>
    BY <1>9 DEF ScheduledSave, SavedFirst
  <2> QED BY <1>i, <1>m, <2>1, NoneMissing DEF Kept
<1>10. CASE RefreshStaleState
  BY <1>10, <1>i, RefreshKeeps, NoneMissing DEF RefreshStaleState
<1>11. ASSUME NEW s \in Slots, Compared(s) PROVE Kept'
  BY <1>11, <1>i, RefreshKeeps, NoneMissing DEF Compared
<1>12. ASSUME NEW c \in Changes, Fits(c, editor), Edited(c), editor = ytext, plugin # "none", loaded,
              Missing' \subseteq Missing
       PROVE  Kept'
  <2>1. /\ UNCHANGED <<file, unsaved, stored, loaded, open, plugin, reading, tracking>>
        /\ open /\ dirty' = TRUE /\ saveDue' = (saveDue \/ plugin = "embed")
    BY <1>12 DEF Edited, Edit, Dispatched
  <2>2. SUFFICES ASSUME Missing' # {} PROVE Kept'
    BY NoneMissing
  <2>3. Missing # {} /\ Missing \cap ToSet(editor) = {}
    BY <1>12, <2>2 DEF Missing
  <2>4. reading
    BY <1>h, <2>1, <2>3
  <2> QED BY <1>h, <1>12, <2>1, <2>2, <2>3, <2>4 DEF Kept
<1>13. ASSUME NEW i \in 0..MaxLength, NEW p \in Typed, TypeLocal(p, i) PROVE Kept'
  <2>1. PICK c \in Changes : c = Change(i, 0, <<p>>)
    BY Insertions, OpenEditorAssumption
  <2>2. Fits(c, editor) /\ Edited(c) /\ c.del = 0 /\ ToSet(c.ins) = {p}
    BY <1>13, <2>1, OpenEditorAssumption DEF TypeLocal, Fits, Change, TypeOK, TextsTyped, Texts, ToSet
  <2>3. editor = ytext /\ plugin # "none" /\ loaded
    BY <1>13 DEF TypeLocal, EditedEarly
  <2>4. /\ ytext' = Applied(c, ytext) /\ made' = made \cup {p}
        /\ UNCHANGED <<gone, unsaved, loaded, stored>>
    BY <1>13, <2>2, <2>3, EditInStep DEF Edited, TypeLocal
  <2>5. ToSet(ytext) \cup {p} \subseteq ToSet(ytext')
    BY <2>2, <2>3, <2>4, InsertionKeeps DEF TypeOK, TextsTyped
  <2>6. Missing' \subseteq Missing
    BY <2>4, <2>5 DEF Missing, Aside, Unloaded
  <2> QED BY <1>12, <2>2, <2>3, <2>6
<1>14. ASSUME NEW i \in 0..MaxLength, DeleteLocal(i) PROVE Kept'
  <2>1. PICK c \in Changes : c = Change(i, 1, <<>>)
    BY Insertions, OpenEditorAssumption
  <2>2. Fits(c, editor) /\ Edited(c) /\ c.del = 1 /\ c.ins = <<>> /\ c.at = i
    BY <1>14, <2>1, OpenEditorAssumption DEF DeleteLocal, Fits, Change, TypeOK, TextsTyped, Texts
  <2>3. editor = ytext /\ plugin # "none" /\ loaded
    BY <1>14 DEF DeleteLocal, EditedEarly
  <2>4. /\ ytext' = Applied(c, ytext) /\ gone' = gone \cup {ytext[c.at + 1]}
        /\ UNCHANGED <<made, unsaved, loaded, stored>>
    BY <1>14, <2>2, <2>3, EditInStep DEF Edited, DeleteLocal
  <2>5. ToSet(ytext) \ {ytext[c.at + 1]} \subseteq ToSet(ytext')
    BY <2>2, <2>3, <2>4, DeletionKeeps DEF TypeOK, TextsTyped
  <2>6. Missing' \subseteq Missing
    BY <2>4, <2>5 DEF Missing, Aside, Unloaded
  <2> QED BY <1>12, <2>2, <2>3, <2>6
<1>15. ASSUME NEW c \in Changes, Fits(c, ytext), Arrives(c),
              UNCHANGED <<file, unsaved, plugin, open, reading, saveDue, stored>>,
              loaded' = loaded \/ (loaded' /\ stored = c.ins),
              \/ /\ c.del = 0 /\ gone' = gone /\ made' \ ToSet(c.ins) \subseteq made
              \/ /\ c.del = 1 /\ c.ins = <<>> /\ made' = made /\ gone' = gone \cup {ytext[c.at + 1]}
                 /\ loaded' = loaded
       PROVE  Kept'
  <2>1. Observed(c, flows, FALSE) /\ flows \in Flows /\ ytext' = Applied(c, ytext)
    BY <1>15 DEF Arrives, TypeOK, LeafTyped
  <2> QED BY <1>i, <1>w, <1>15, <2>1, ArrivalKept
<1>16. CASE Load
  <2>1. /\ ~loaded /\ loaded'
        /\ UNCHANGED <<file, unsaved, plugin, open, reading, saveDue, stored, made, gone>>
    BY <1>16 DEF Load
  <2>2. CASE stored = <<>> /\ UNCHANGED <<ytext, editor, dirty, tracking, lock, flows, windows>>
    <3>1. Missing' = Missing
      BY <2>1, <2>2, EmptyHasNothing DEF Missing, Aside, Unloaded
    <3> QED BY <1>i, <2>1, <2>2, <3>1 DEF Kept
  <2>3. ASSUME NEW i \in {0, Len(ytext)}, Arrives(Change(i, 0, stored)) PROVE Kept'
    <3>1. PICK c \in Changes : c = Change(i, 0, stored) /\ Fits(c, ytext)
      BY ArrivalsFit DEF TypeOK, TextsTyped
    <3>2. c.del = 0 /\ c.ins = stored
      BY <3>1 DEF Change
    <3> QED BY <1>15, <2>1, <2>3, <3>1, <3>2
  <2> QED BY <1>16, <2>2, <2>3 DEF Load
<1>17. ASSUME NEW i \in 0..MaxLength, NEW p \in Peers, PeerInserts(p, i) PROVE Kept'
  <2>1. /\ i \in Nat /\ i <= Len(ytext) /\ Arrives(Change(i, 0, <<p>>)) /\ made' = made \cup {p}
        /\ UNCHANGED <<file, unsaved, plugin, open, reading, saveDue, stored, loaded, gone>>
    BY <1>17, OpenEditorAssumption DEF PeerInserts
  <2>2. PICK c \in Changes : c = Change(i, 0, <<p>>) /\ Fits(c, ytext)
    BY <2>1, ArrivalsFit
  <2>3. c.del = 0 /\ ToSet(c.ins) = {p}
    BY <2>2 DEF Change, ToSet
  <2> QED BY <1>15, <2>1, <2>2, <2>3
<1>18. ASSUME NEW i \in 0..MaxLength, PeerDeletes(i) PROVE Kept'
  <2>1. /\ i \in Nat /\ i < Len(ytext) /\ Arrives(Change(i, 1, <<>>))
        /\ gone' = gone \cup {ytext[i + 1]}
        /\ UNCHANGED <<file, unsaved, plugin, open, reading, saveDue, stored, loaded, made>>
    BY <1>18, OpenEditorAssumption DEF PeerDeletes
  <2>2. PICK c \in Changes : c = Change(i, 1, <<>>) /\ Fits(c, ytext)
    BY <2>1, ArrivalsFit
  <2>3. c.del = 1 /\ c.ins = <<>> /\ c.at = i
    BY <2>2 DEF Change
  <2> QED BY <1>15, <2>1, <2>2, <2>3
<1>19. CASE PeerSeeds
  <2>1. /\ Arrives(Change(0, 0, <<Old>>))
        /\ UNCHANGED <<file, unsaved, plugin, open, reading, saveDue, stored, loaded, made, gone>>
    BY <1>19 DEF PeerSeeds
  <2>2. PICK c \in Changes : c = Change(0, 0, <<Old>>) /\ Fits(c, ytext)
    BY ArrivalsFit
  <2>3. c.del = 0
    BY <2>2 DEF Change
  <2> QED BY <1>15, <2>1, <2>2, <2>3
<1>20. CASE PeerClaims \/ GoesOnline \/ Drop
  BY <1>0, <1>20 DEF PeerClaims, GoesOnline, Drop
<1>21. ASSUME NEW s \in Slots, ResyncOnline(s) \/ ClaimsInit(s) PROVE Kept'
  BY <1>0, <1>21 DEF ResyncOnline, ClaimsInit
<1>22. ASSUME NEW s \in Slots, GetKeyFrame(s) PROVE Kept'
  <2>1. UNCHANGED <<made, gone, ytext, stored, loaded, unsaved, saveDue, file, open, plugin>>
    BY <1>22 DEF GetKeyFrame
  <2>2. SUFFICES ASSUME Missing # {} PROVE Kept'
    BY <1>m, <2>1, NoneMissing
  <2>3. Missing \cap ToSet(ytext) = {}
    BY DEF Missing
  <2>4. CASE ytext = editor /\ tracking' = (tracking \/ plugin = "bound") /\ Ends(s)
             /\ UNCHANGED <<editor, dirty, reading>>
    <3>1. open => reading
      BY <1>h, <2>2, <2>3, <2>4
    <3>2. tracking' => reading
      BY <1>h, <2>2, <2>4, <3>1 DEF PassInv
    <3> QED BY <1>h, <1>m, <2>1, <2>2, <2>4, <3>1, <3>2 DEF Kept
  <2>5. CASE ytext # editor /\ plugin = "bound" /\ ~tracking
             /\ Dispatched(ytext) /\ reading' = TRUE /\ Ends(s) /\ UNCHANGED tracking
    BY <1>h, <1>m, <2>1, <2>2, <2>5 DEF Kept, Dispatched, PassInv
  <2>6. CASE UNCHANGED <<editor, dirty, reading, tracking>>
    BY <1>0, <2>1, <2>6
  <2> QED BY <1>22, <2>4, <2>5, <2>6 DEF GetKeyFrame
<1>23. ASSUME NEW s \in Slots, InitSettled(s) PROVE Kept'
  <2>1. /\ At(s, "claiming")
        /\ UNCHANGED <<file, unsaved, plugin, open, reading, saveDue, stored, loaded, made, gone>>
    BY <1>23 DEF InitSettled
  <2>2. PICK fs : fs = [flows EXCEPT ![s] = None]
    OBVIOUS
  <2>3. fs \in Flows
    BY <2>2 DEF TypeOK, LeafTyped, Flows
  <2>4. flows[s] \in Calls
    BY <2>1 DEF At, TypeOK, LeafTyped, Flows
  <2>5. PICK w \in Texts : w = flows[s].was
    BY <2>4 DEF Calls
  <2>6. PICK binds \in BOOLEAN : binds = (flows[s].branch = "bound")
    OBVIOUS
  <2>7. binds => plugin = "bound" /\ open
    BY <1>i, <2>1, <2>6 DEF ForAView, At, PassInv
  <2>8. CASE WonInitClaim /\ done' = TRUE /\ ytext' = w \o ytext /\ Observed(Change(0, 0, w), fs, binds)
    <3>1. ytext = <<>> /\ ~done
      BY <2>8 DEF WonInitClaim
    <3>2. PICK c \in Changes : c = Change(0, 0, w) /\ Fits(c, ytext) /\ c.del = 0
      <4>1. Change(0, 0, w) \in Changes
        BY Insertions
      <4>2. Len(ytext) = 0
        BY <3>1
      <4>3. Fits(Change(0, 0, w), ytext) /\ Change(0, 0, w).del = 0
        BY <4>2 DEF Fits, Change
      <4> QED BY <4>1, <4>3
    <3>3. Applied(c, ytext) = w /\ ytext' = w
      BY <2>8, <3>1, <3>2, FirstInsertion, ConcatEmptySeq DEF Texts
    <3>4. binds /\ ~tracking => OneChange(editor, Applied(c, ytext))
      <4>1. binds /\ ~tracking => editor = w
        BY <1>i, <2>1, <2>5, <2>6, <3>1 DEF Claiming
      <4> QED BY <3>3, <4>1, SameIsOneChange
    <3> QED BY <1>i, <1>w, <2>1, <2>3, <2>7, <2>8, <3>2, <3>3, <3>4, ArrivalKept
  <2>9. CASE /\ tracking' = (tracking \/ binds) /\ flows' = fs
             /\ windows' = IF binds /\ editor # ytext THEN windows \cup {"claim lost"} ELSE windows
             /\ UNCHANGED <<ytext, done, editor, dirty>>
    <3>1. SUFFICES ASSUME Missing # {} PROVE Kept'
      BY <1>m, <2>1, <2>9, NoneMissing
    <3>2. binds => editor = ytext /\ open
      BY <2>7, <2>9
    <3>3. Missing \cap ToSet(ytext) = {}
      BY DEF Missing
    <3>4. tracking' => reading
      BY <1>h, <2>9, <3>1, <3>2, <3>3
    <3> QED BY <1>h, <1>m, <2>1, <2>9, <3>1, <3>4 DEF Kept
  <2> QED BY <1>23, <2>2, <2>5, <2>6, <2>8, <2>9 DEF InitSettled
<1> QED
  BY <1>1, <1>2, <1>3, <1>5, <1>6, <1>7, <1>8, <1>9, <1>10, <1>11, <1>13, <1>14, <1>16,
     <1>17, <1>18, <1>19, <1>20, <1>21, <1>22, <1>23
  DEF Next, User, Pass, Resync

LEMMA KeptInit == Init => KeptInv
<1> SUFFICES ASSUME Init PROVE Kept
  BY DEF KeptInv
<1>1. made = ToSet(file) \cup ToSet(stored) /\ ytext = IF loaded THEN stored ELSE <<>>
  BY DEF Init
<1>2. Missing \subseteq ToSet(file)
  BY <1>1 DEF Missing, Unloaded
<1> QED BY <1>2 DEF Init, Kept

-----------------------------------------------------------------------------

LEMMA Invariant == Spec => [](TypeOK /\ PassInv /\ StepInv /\ KeptInv)
<1>1. Init => TypeOK /\ PassInv /\ StepInv /\ KeptInv
  BY TypeInit, PassInit, StepInit, KeptInit
<1>2. TypeOK /\ PassInv /\ StepInv /\ KeptInv /\ [Next]_vars
        => (TypeOK /\ PassInv /\ StepInv /\ KeptInv)'
  BY TypeStep, PassStep, StepStep, KeptStep
<1> QED BY <1>1, <1>2, PTL DEF Spec

\* Every variable keeps its type (ViewBindings.ts, LiveEditPlugin.ts).
THEOREM Typing == Spec => []TypeOK
BY Invariant, PTL

\* While a view tracks, outside the windows, its buffer is the Y.Doc's text
\* (LiveCMPluginValue's observer, update and resync).
THEOREM BufferInStep == Spec => []InStepWhenTracking
<1>1. StepInv => InStepWhenTracking
  BY DEF StepInv, InStep, InStepWhenTracking
<1> QED BY <1>1, Invariant, PTL

\* What was added and not deleted is somewhere (resync, getKeyFrame, refreshIfStale,
\* unmountView and Obsidian's saves).
THEOREM NothingIsLost == Spec => []NothingLost
<1>1. KeptInv => NothingLost
  BY DEF KeptInv, Kept, Missing, Aside, Unloaded, NothingLost, Held
<1> QED BY <1>1, Invariant, PTL

\* Between refresh passes, if the last one neither threw nor left the view out, a document's
\* view is tracked exactly while its leaf is open and somebody is signed in, and the edit lock
\* is held exactly then, except one that was set once more after its release
\* (drainRefreshQueue, collectOpenViews, reconcileViewSets, unmountView).
THEOREM ViewsFollow == Spec => []ViewsFollowTheWorkspace
<1>1. TypeOK /\ PassInv => ViewsFollowTheWorkspace
  BY DEF PassInv, Fresh, HasView, ViewsFollowTheWorkspace, TypeOK, PassTyped, Locks
<1> QED BY <1>1, Invariant, PTL
=============================================================================
