--------------------------- MODULE FileWrite_proofs ---------------------------
(***************************************************************************)
(* Proofs about FileWrite, for every size of the buffer, any number of     *)
(* calls with any bytes at any offsets, and every way in which the kernel  *)
(* takes, delays or refuses what is offered: no byte is lost, a file that  *)
(* was closed without an error is exact, a stream has its bytes in order   *)
(* and is never asked to seek.                                             *)
(*                                                                         *)
(* What a file should hold is spread over up to four places: the kernel,   *)
(* a chunk on its way there, the buffer, and the rest of the call.  View   *)
(* says which of them has byte i, by the order in which the object would   *)
(* write them; each step moves bytes from one place to the next, and the   *)
(* lemmas View... say that such a move does not change what is seen.  The  *)
(* rest of the invariant says when a place is empty (Flags), where each    *)
(* begins and ends (Sizes), and how far a flush has come (Flushing).       *)
(***************************************************************************)
EXTENDS FileWrite, TLAPS

\* r has the bytes of s, those of d over them from o on, and g between.
Laid(S, s, o, d, g, r) ==
  /\ r \in Seq(S)
  /\ Len(r) = IF d = <<>> THEN Len(s) ELSE MaxOf(Len(s), o + Len(d))
  /\ \A i \in 1 .. Len(r) :
       r[i] = IF o < i /\ i <= o + Len(d) THEN d[i - o]
              ELSE IF i <= Len(s) THEN s[i] ELSE g

LEMMA OverlayIs ==
  ASSUME NEW S, NEW s \in Seq(S), NEW d \in Seq(S), NEW o \in Nat, NEW g \in S
  PROVE  Laid(S, s, o, d, g, Overlay(s, o, d, g))
<1> DEFINE n == MaxOf(Len(s), o + Len(d))
<1>1. CASE d = <<>>
  <2>1. Len(d) = 0 /\ Overlay(s, o, d, g) = s
    BY <1>1 DEF Overlay
  <2>2. QED
    BY <2>1, <1>1 DEF Laid
<1>2. CASE d # <<>>
  <2>1. n \in Nat
    BY DEF MaxOf
  <2>2. Overlay(s, o, d, g) =
          [i \in 1 .. n |-> IF i > o /\ i <= o + Len(d) THEN d[i - o]
                            ELSE IF i <= Len(s) THEN s[i] ELSE g]
    BY <1>2 DEF Overlay
  <2>3. ASSUME NEW i \in 1 .. n
        PROVE  (IF i > o /\ i <= o + Len(d) THEN d[i - o]
                            ELSE IF i <= Len(s) THEN s[i] ELSE g) \in S
    OBVIOUS
  <2> HIDE DEF n
  <2>4. Overlay(s, o, d, g) \in Seq(S) /\ Len(Overlay(s, o, d, g)) = n
    BY <2>1, <2>2, <2>3
  <2>5. QED
    BY <2>2, <2>4, <1>2 DEF n, Laid
<1>3. QED
  BY <1>1, <1>2

LEMMA FromIs ==
  ASSUME NEW S, NEW s \in Seq(S), NEW k \in 0 .. Len(s)
  PROVE  /\ From(s, k) \in Seq(S) /\ Len(From(s, k)) = Len(s) - k
         /\ \A i \in 1 .. Len(s) - k : From(s, k)[i] = s[k + i]
BY DEF From

LEMMA FirstIs ==
  ASSUME NEW S, NEW s \in Seq(S), NEW k \in 0 .. Len(s)
  PROVE  /\ SubSeq(s, 1, k) \in Seq(S) /\ Len(SubSeq(s, 1, k)) = k
         /\ \A i \in 1 .. k : SubSeq(s, 1, k)[i] = s[i]
OBVIOUS

LEMMA ResizeIs ==
  ASSUME NEW S, NEW s \in Seq(S), NEW n \in Nat, Hole \in S
  PROVE  /\ Resize(s, n) \in Seq(S) /\ Len(Resize(s, n)) = n
         /\ \A i \in 1 .. n : Resize(s, n)[i] = IF i <= Len(s) THEN s[i] ELSE Hole
<1>1. Resize(s, n) = [i \in 1 .. n |-> IF i <= Len(s) THEN s[i] ELSE Hole]
  BY DEF Resize
<1>2. \A i \in 1 .. n : (IF i <= Len(s) THEN s[i] ELSE Hole) \in S
  OBVIOUS
<1>3. QED
  BY <1>1, <1>2

-----------------------------------------------------------------------------
Chunks == [off : Nat, data : Seq(Bytes)]
End(c) == c.off + Len(c.data)
Covers(c, i) == c.off < i /\ i <= End(c)
Byte(c, i) == c.data[i - c.off]

\* Byte i of the file whose kernel has the first n bytes of s, under a chunk t in
\* transit, the buffer b and the rest r of a call.
Layered(s, n, t, b, r, i) ==
  IF Covers(r, i) THEN Byte(r, i)
  ELSE IF Covers(b, i) THEN Byte(b, i)
  ELSE IF Covers(t, i) THEN Byte(t, i)
  ELSE IF i <= n THEN s[i] ELSE Hole

ViewOK(w, s, n, t, b, r) == \A i \in 1 .. Len(w) : w[i] = Layered(s, n, t, b, r, i)

LEMMA ViewSame ==
  ASSUME NEW w, NEW s, NEW n, NEW t, NEW b, NEW r, NEW s2, NEW n2, NEW t2, NEW b2, NEW r2,
         ViewOK(w, s, n, t, b, r),
         \A i \in 1 .. Len(w) : w[i] = Layered(s, n, t, b, r, i) =>
            Layered(s2, n2, t2, b2, r2, i) = Layered(s, n, t, b, r, i)
  PROVE  ViewOK(w, s2, n2, t2, b2, r2)
BY DEF ViewOK

LEMMA CoversIs ==
  ASSUME NEW c \in Chunks, NEW i \in Nat
  PROVE  /\ Covers(c, i) => i - c.off \in 1 .. Len(c.data) /\ Byte(c, i) \in Bytes
         /\ c.data = <<>> => ~Covers(c, i)
BY DEF Covers, End, Byte, Chunks

LEMMA ViewWrite ==
  ASSUME NEW w \in Seq(Bytes), NEW s, NEW n \in Nat, NEW t, NEW b, NEW z \in Chunks, z.data = <<>>,
         NEW d \in Seq(Bytes), NEW o \in 0 .. Len(w), ViewOK(w, s, n, t, b, z)
  PROVE  ViewOK(Overlay(w, o, d, Hole), s, n, t, b, Chunk(o, d))
<1> DEFINE r == Overlay(w, o, d, Hole)
<1>1. /\ Len(r) = IF d = <<>> THEN Len(w) ELSE MaxOf(Len(w), o + Len(d))
      /\ \A i \in 1 .. Len(r) :
                  r[i] = IF o < i /\ i <= o + Len(d) THEN d[i - o]
                         ELSE IF i <= Len(w) THEN w[i] ELSE Hole
  <2>1. Hole \in Bytes
    BY DEF Bytes
  <2>2. Laid(Bytes, w, o, d, Hole, r)
    BY <2>1, OverlayIs
  <2>3. QED
    BY <2>2 DEF Laid
<1> HIDE DEF r
<1>2. SUFFICES ASSUME NEW i \in 1 .. Len(r) PROVE r[i] = Layered(s, n, t, b, Chunk(o, d), i)
  BY DEF ViewOK, r
<1>3. Len(r) \in Nat /\ i \in Nat
  BY <1>1 DEF MaxOf
<1>4. CASE o < i /\ i <= o + Len(d)
  BY <1>1, <1>4 DEF Layered, Covers, Byte, End, Chunk
<1>5. CASE ~(o < i /\ i <= o + Len(d))
  <2>1. i <= Len(w)
    BY <1>1, <1>3, <1>5 DEF MaxOf
  <2>2. r[i] = w[i] /\ i \in 1 .. Len(w)
    BY <1>1, <1>3, <1>5, <2>1
  <2>3. w[i] = Layered(s, n, t, b, z, i)
    BY <2>2 DEF ViewOK
  <2>4. ~Covers(Chunk(o, d), i) /\ ~Covers(z, i)
    BY <1>3, <1>5, CoversIs DEF Covers, End, Chunk
  <2>5. QED
    BY <2>2, <2>3, <2>4 DEF Layered
<1>6. QED
  BY <1>4, <1>5

\* An empty layer makes no difference, and an empty layer may change places with
\* the one below it.
LEMMA ViewMove ==
  ASSUME NEW w, Len(w) \in Nat, NEW s, NEW n, NEW z \in Chunks, z.data = <<>>,
         NEW y \in Chunks, y.data = <<>>, NEW t, NEW b, NEW r
  PROVE  /\ ViewOK(w, s, n, z, b, r) => ViewOK(w, s, n, b, y, r)
         /\ ViewOK(w, s, n, t, z, r) => ViewOK(w, s, n, t, r, y)
         /\ ViewOK(w, s, n, t, z, r) => ViewOK(w, s, n, t, y, r)
         /\ ViewOK(w, s, n, t, b, z) => ViewOK(w, s, n, t, b, y)
         /\ ViewOK(w, s, n, z, b, r) => ViewOK(w, s, n, y, b, r)
<1>1. \A i \in 1 .. Len(w) : ~Covers(z, i) /\ ~Covers(y, i)
  BY CoversIs
<1>2. QED
  BY <1>1 DEF ViewOK, Layered

\* v is bd with the first k bytes of rd laid over it from o on, u what is left of rd.
Merged(bd, rd, o, k, v, u) ==
  /\ v \in Seq(Bytes) /\ Len(v) = MaxOf(Len(bd), o + k)
  /\ u \in Seq(Bytes) /\ Len(u) = Len(rd) - k
  /\ \A i \in 1 .. Len(rd) - k : u[i] = rd[k + i]
  /\ \A i \in 1 .. k : v[o + i] = rd[i]
  /\ \A i \in 1 .. Len(bd) : ~(o < i /\ i <= o + k) => v[i] = bd[i]

LEMMA MergeBytes ==
  ASSUME NEW bd \in Seq(Bytes), NEW rd \in Seq(Bytes), NEW o \in Nat, NEW k \in 0 .. Len(rd),
         NEW g \in Bytes, o <= Len(bd) \/ k > 0
  PROVE  Merged(bd, rd, o, k, Overlay(bd, o, SubSeq(rd, 1, k), g), From(rd, k))
<1>1. PICK f : f = SubSeq(rd, 1, k)
  OBVIOUS
<1>2. PICK u : u = From(rd, k)
  OBVIOUS
<1>3. PICK v : v = Overlay(bd, o, f, g)
  OBVIOUS
<1>4. f \in Seq(Bytes) /\ Len(f) = k /\ \A i \in 1 .. k : f[i] = rd[i]
  BY <1>1, FirstIs
<1>5. u \in Seq(Bytes) /\ Len(u) = Len(rd) - k /\ \A i \in 1 .. Len(rd) - k : u[i] = rd[k + i]
  BY <1>2, FromIs
<1>6. /\ v \in Seq(Bytes)
      /\ Len(v) = IF f = <<>> THEN Len(bd) ELSE MaxOf(Len(bd), o + Len(f))
      /\ \A i \in 1 .. Len(v) : v[i] = IF o < i /\ i <= o + Len(f) THEN f[i - o]
                                       ELSE IF i <= Len(bd) THEN bd[i] ELSE g
  <2>1. Laid(Bytes, bd, o, f, g, v)
    BY <1>3, <1>4, OverlayIs
  <2>2. QED
    BY <2>1 DEF Laid
<1>7. k \in Nat /\ Len(bd) \in Nat /\ Len(rd) \in Nat
  OBVIOUS
<1>8. Len(v) = MaxOf(Len(bd), o + k)
  <2>1. f = <<>> <=> k = 0
    BY <1>4
  <2>2. QED
    BY <1>4, <1>6, <1>7, <2>1 DEF MaxOf
<1>9. ASSUME NEW i \in 1 .. k PROVE v[o + i] = rd[i]
  <2>1. o + i \in 1 .. Len(v) /\ o < o + i /\ o + i <= o + k /\ (o + i) - o = i
    BY <1>7, <1>8 DEF MaxOf
  <2>2. v[o + i] = f[i]
    BY <1>4, <1>6, <2>1
  <2>3. QED
    BY <1>4, <2>2
<1>10. ASSUME NEW i \in 1 .. Len(bd), ~(o < i /\ i <= o + k) PROVE v[i] = bd[i]
  <2>1. i \in 1 .. Len(v) /\ i <= Len(bd)
    BY <1>7, <1>8 DEF MaxOf
  <2>2. QED
    BY <1>4, <1>6, <1>10, <2>1
<1>11. Merged(bd, rd, o, k, v, u)
  BY <1>5, <1>6, <1>8, <1>9, <1>10 DEF Merged
<1>12. QED
  BY <1>1, <1>2, <1>3, <1>11

\* fbuf_write() copies the first k bytes of the input into the buffer.
LEMMA ViewMerge ==
  ASSUME NEW w, Len(w) \in Nat, NEW s, NEW n, NEW t,
         NEW bd \in Seq(Bytes), NEW rd \in Seq(Bytes), NEW bo \in Nat, NEW ro \in Nat,
         NEW o \in 0 .. Len(bd), ro = bo + o, NEW k \in 0 .. Len(rd),
         NEW v, NEW u, Merged(bd, rd, o, k, v, u),
         ViewOK(w, s, n, t, Chunk(bo, bd), Chunk(ro, rd))
  PROVE  ViewOK(w, s, n, t, Chunk(bo, v), Chunk(ro + k, u))
<1>1. k \in Nat /\ o \in Nat /\ Len(bd) \in Nat /\ Len(rd) \in Nat /\ k <= Len(rd) /\ o <= Len(bd)
  OBVIOUS
<1>2. Len(v) = MaxOf(Len(bd), o + k) /\ Len(u) = Len(rd) - k
  BY DEF Merged
<1>3. /\ \A i \in 1 .. Len(rd) - k : u[i] = rd[k + i]
      /\ \A i \in 1 .. k : v[o + i] = rd[i]
      /\ \A i \in 1 .. Len(bd) : ~(o < i /\ i <= o + k) => v[i] = bd[i]
  BY DEF Merged
<1> DEFINE b == Chunk(bo, bd)  r == Chunk(ro, rd)  b2 == Chunk(bo, v)  r2 == Chunk(ro + k, u)
<1>4. ASSUME NEW i \in Nat
      PROVE  /\ Covers(b, i) <=> bo < i /\ i <= bo + Len(bd)
             /\ Covers(r, i) <=> ro < i /\ i <= ro + Len(rd)
             /\ Covers(b2, i) <=> bo < i /\ i <= bo + MaxOf(Len(bd), o + k)
             /\ Covers(r2, i) <=> ro + k < i /\ i <= ro + Len(rd)
  BY <1>1, <1>2 DEF Covers, End, Chunk, MaxOf
<1>5. ASSUME NEW i \in Nat
      PROVE  /\ Byte(b, i) = bd[i - bo] /\ Byte(r, i) = rd[i - ro]
             /\ Byte(b2, i) = v[i - bo] /\ Byte(r2, i) = u[i - (ro + k)]
  BY DEF Byte, Chunk
<1> HIDE DEF b, r, b2, r2
<1>6. ASSUME NEW i \in 1 .. Len(w)
      PROVE  Layered(s, n, t, b2, r2, i) = Layered(s, n, t, b, r, i)
  <2>1. i \in Nat
    OBVIOUS
  <2>2. CASE ro + k < i /\ i <= ro + Len(rd)
    <3>1. i - (ro + k) \in 1 .. Len(rd) - k /\ k + (i - (ro + k)) = i - ro
      BY <1>1, <2>1, <2>2
    <3>2. Covers(r2, i) /\ Covers(r, i)
      BY <1>1, <1>4, <2>1, <2>2
    <3>3. Byte(r2, i) = Byte(r, i)
      BY <1>3, <1>5, <2>1, <3>1
    <3>4. QED
      BY <3>2, <3>3 DEF Layered
  <2>3. CASE ro < i /\ i <= ro + k
    <3>1. i - ro \in 1 .. k /\ o + (i - ro) = i - bo
      BY <1>1, <2>1, <2>3
    <3>2. ~Covers(r2, i) /\ Covers(r, i) /\ Covers(b2, i)
      BY <1>1, <1>4, <2>1, <2>3 DEF MaxOf
    <3>3. Byte(b2, i) = Byte(r, i)
      BY <1>3, <1>5, <2>1, <3>1
    <3>4. QED
      BY <3>2, <3>3 DEF Layered
  <2>4. CASE ~(ro < i /\ i <= ro + Len(rd))
    <3>1. ~Covers(r2, i) /\ ~Covers(r, i)
      BY <1>1, <1>4, <2>1, <2>4
    <3>2. Covers(b2, i) <=> Covers(b, i)
      BY <1>1, <1>4, <2>1, <2>4 DEF MaxOf
    <3>3. ASSUME Covers(b, i) PROVE Byte(b2, i) = Byte(b, i)
      <4>1. i - bo \in 1 .. Len(bd) /\ ~(o < i - bo /\ i - bo <= o + k)
        BY <1>1, <1>4, <2>1, <2>4, <3>3
      <4>2. QED
        BY <1>3, <1>5, <2>1, <4>1
    <3>4. QED
      BY <3>1, <3>2, <3>3 DEF Layered
  <2>5. QED
    BY <1>1, <2>1, <2>2, <2>3, <2>4
<1>7. QED
  BY <1>6 DEF ViewOK, b, r, b2, r2

\* The kernel takes the first k bytes of the chunk in transit.
LEMMA ViewAccept ==
  ASSUME NEW w \in Seq(Bytes), \A i \in 1 .. Len(w) : w[i] # Hole,
         NEW s \in Seq(Bytes), NEW n \in 0 .. Len(s), NEW b, NEW r,
         NEW d \in Seq(Bytes), NEW o \in Nat, NEW k \in 1 .. Len(d),
         NEW v, NEW u, Merged(s, d, o, k, v, u),
         ViewOK(w, s, n, Chunk(o, d), b, r)
  PROVE  ViewOK(w, v, MaxOf(n, o + k), Chunk(o + k, u), b, r)
<1>1. k \in Nat /\ Len(s) \in Nat /\ Len(d) \in Nat /\ n \in Nat /\ n <= Len(s) /\ k <= Len(d)
  OBVIOUS
<1>2. Len(u) = Len(d) - k /\ Len(v) = MaxOf(Len(s), o + k)
  BY DEF Merged
<1>3. /\ \A i \in 1 .. Len(d) - k : u[i] = d[k + i]
      /\ \A i \in 1 .. k : v[o + i] = d[i]
      /\ \A i \in 1 .. Len(s) : ~(o < i /\ i <= o + k) => v[i] = s[i]
  BY DEF Merged
<1> DEFINE t == Chunk(o, d)  t2 == Chunk(o + k, u)  n2 == MaxOf(n, o + k)
<1>4. ASSUME NEW i \in Nat
      PROVE  /\ Covers(t, i) <=> o < i /\ i <= o + Len(d)
             /\ Covers(t2, i) <=> o + k < i /\ i <= o + Len(d)
             /\ i <= n2 <=> i <= n \/ i <= o + k
  BY <1>1, <1>2 DEF Covers, End, Chunk, MaxOf
<1>5. ASSUME NEW i \in Nat
      PROVE  Byte(t, i) = d[i - o] /\ Byte(t2, i) = u[i - (o + k)]
  BY DEF Byte, Chunk
<1> HIDE DEF t, t2, n2
<1>6. ASSUME NEW i \in 1 .. Len(w), w[i] = Layered(s, n, t, b, r, i)
      PROVE  Layered(v, n2, t2, b, r, i) = Layered(s, n, t, b, r, i)
  <2>1. i \in Nat /\ i >= 1 /\ w[i] # Hole
    OBVIOUS
  <2>2. CASE Covers(r, i) \/ Covers(b, i)
    BY <2>2 DEF Layered
  <2>3. CASE ~Covers(r, i) /\ ~Covers(b, i) /\ o + k < i /\ i <= o + Len(d)
    <3>1. i - (o + k) \in 1 .. Len(d) - k /\ k + (i - (o + k)) = i - o
      BY <1>1, <2>1, <2>3
    <3>2. Covers(t2, i) /\ Covers(t, i)
      BY <1>1, <1>4, <2>1, <2>3
    <3>3. Byte(t2, i) = Byte(t, i)
      BY <1>3, <1>5, <2>1, <3>1
    <3>4. QED
      BY <2>3, <3>2, <3>3 DEF Layered
  <2>4. CASE ~Covers(r, i) /\ ~Covers(b, i) /\ o < i /\ i <= o + k
    <3>1. i - o \in 1 .. k /\ o + (i - o) = i
      BY <1>1, <2>1, <2>4
    <3>2. ~Covers(t2, i) /\ Covers(t, i) /\ i <= n2
      BY <1>1, <1>4, <2>1, <2>4
    <3>3. v[i] = Byte(t, i)
      BY <1>3, <1>5, <2>1, <3>1
    <3>4. QED
      BY <2>4, <3>2, <3>3 DEF Layered
  <2>5. CASE ~Covers(r, i) /\ ~Covers(b, i) /\ ~(o < i /\ i <= o + Len(d))
    <3>1. ~Covers(t2, i) /\ ~Covers(t, i)
      BY <1>1, <1>4, <2>1, <2>5
    <3>2. i <= n
      BY <1>6, <2>1, <2>5, <3>1 DEF Layered
    <3>3. i <= n2 /\ i \in 1 .. Len(s) /\ ~(o < i /\ i <= o + k)
      BY <1>1, <1>4, <2>1, <2>5, <3>2
    <3>4. v[i] = s[i]
      BY <1>3, <3>3
    <3>5. QED
      BY <2>5, <3>1, <3>2, <3>3, <3>4 DEF Layered
  <2>6. QED
    BY <1>1, <2>1, <2>2, <2>3, <2>4, <2>5
<1>7. QED
  BY <1>6 DEF ViewOK, t, t2, n2

-----------------------------------------------------------------------------
(***************************************************************************)
(* The inductive invariant.                                                *)
(***************************************************************************)
\* What the callers do that the code is made for: they pass offsets that do not
\* leave a gap inside the buffer's range, and do not open a file again whose
\* buffer could not be written.
Plain == Callers \subseteq {"offsets"}

InCall == pc \in {"loop", "async"}

\* The object is not lost: no write has failed, or it goes on all the same.
Good == pc \in {"idle", "loop", "async", "flush", "trunc", "flushed"} \/ ~failed

Types ==
  /\ stdout \in BOOLEAN
  /\ content \in Seq(Bytes) /\ want \in Seq(Bytes)
  /\ size \in Nat /\ curOff \in Nat /\ prealloc \in Nat /\ pos \in Nat /\ total \in 0 .. MaxBytes
  /\ noPrealloc \in BOOLEAN /\ wWrite \in BOOLEAN /\ continued \in BOOLEAN
  /\ async \in BOOLEAN /\ failed \in BOOLEAN /\ cut \in BOOLEAN
  /\ pc \in Places
  /\ buf \in Chunks /\ wbuf \in Chunks
  /\ call \in [off : Nat \cup {-1}, data : Seq(Bytes)]
  /\ io \in [off : Nat \cup {-1}, data : Seq(Bytes)]
  /\ userData \in Seq(Bytes)
  /\ Len(buf.data) <= Cap

\* What the callers have written has no holes.
Wants ==
  /\ \A i \in 1 .. Len(want) : want[i] \in 1 .. MaxBytes
  /\ Len(want) <= total /\ pos <= Len(want)

\* The three flags that carry file_write() from call to call.
Flags ==
  /\ pc = "async" => async /\ wWrite
  /\ Good /\ wWrite => continued /\ InCall
  /\ Good /\ async => wWrite
  /\ Good /\ continued => InCall /\ buf.data = <<>>
  /\ pc = "loop" /\ wWrite /\ ~async => io.off \in Nat
  /\ InCall /\ wWrite => OutChunk.data # <<>>
  /\ pc = "loop" /\ ~wWrite /\ ~continued => ~InGap(Input.off)
  /\ pc = "error" => failed
  /\ pc = "trunc" => ~stdout
  /\ pc = "closed" => failed \/ (buf = Nothing /\ prealloc = size)

\* file_flush() is at a part of the buffer, and the kernel has what comes before.
Flushing ==
  pc \in InFlush =>
    /\ io.off \in Nat /\ io.off >= buf.off /\ End(io) = End(buf)
    /\ \A i \in 1 .. Len(io.data) : io.data[i] = Byte(buf, io.off + i)
    /\ buf.off < io.off => io.off <= size
    /\ \A i \in buf.off + 1 .. io.off : content[i] = Byte(buf, i)

Sizes ==
  /\ size <= Len(content) /\ size <= prealloc /\ Len(content) <= prealloc
  /\ stdout => noPrealloc /\ Len(content) = size
  /\ Good => /\ size <= Len(want)
             /\ End(buf) <= Len(want) /\ End(InTransit) <= Len(want) /\ End(Rest) <= Len(want)
  /\ Good /\ InCall => End(Input) = pos
  /\ Good /\ ~InCall => curOff = pos

View == Good => ViewOK(want, content, size, InTransit, buf, Rest)

\* A chunk of a stream is a part of what it should give.
Segment(c) == End(c) <= Len(want) /\ \A i \in 1 .. Len(c.data) : c.data[i] = want[c.off + i]

Pipe ==
  stdout =>
    /\ size <= Len(want) /\ pos = Len(want)
    /\ \A i \in 1 .. size : content[i] = want[i]
    /\ Segment(buf) /\ (Good => Segment(InTransit))

FInv == Types /\ Wants /\ Flags /\ Flushing /\ Sizes /\ View /\ Pipe

\* After the n bytes that went down the pipe come those of chunk c, and then e.
Joined(n, c, e) == IF c.data = <<>> THEN e = n ELSE c.off = n /\ End(c) = e

Linked ==
  /\ ~InCall /\ pc \notin InFlush => Joined(size, buf, pos)
  /\ InCall /\ ~wWrite => Joined(size, buf, Input.off)
  /\ InCall /\ wWrite => OutChunk.off = size /\ End(OutChunk) = Input.off
  /\ pc \in InFlush => Joined(size, io, pos)

\* A flush was cut short: the buffer begins before the end of the stream, and nothing
\* but another flush comes to it.
Broken ==
  /\ pc \in {"flush", "flushed", "closing"}
  /\ buf.data # <<>> /\ buf.off < size
  /\ pc # "flushed" => io = buf

Chain == stdout /\ Good => IF cut THEN Broken ELSE Linked

LEMMA NotCut ==
  ASSUME Chain, stdout, Good, cut \in BOOLEAN,
         ~(pc \in {"flush", "flushed", "closing"} /\ (pc # "flushed" => io = buf /\ buf.data # <<>> /\ buf.off < size))
  PROVE  cut = FALSE /\ Linked
BY DEF Chain, Broken

LEMMA NothingIs == Nothing \in Chunks /\ Nothing.off = 0 /\ Nothing.data = <<>> /\ End(Nothing) = 0
BY DEF Nothing, Chunk, Chunks, End

LEMMA InitOK == ASSUME Plain, Init PROVE FInv /\ Chain
<1>1. Types
  <2>1. stdout \in BOOLEAN /\ noPrealloc \in BOOLEAN /\ 0 \in 0 .. MaxBytes /\ Cap >= 0
    <3>1. stdout \in Stdouts /\ noPrealloc \in IF stdout THEN {TRUE} ELSE BOOLEAN
      BY DEF Init
    <3>2. stdout \in BOOLEAN
      BY <3>1, FileAssumption
    <3>3. noPrealloc \in BOOLEAN
      BY <3>1
    <3>4. 0 \in 0 .. MaxBytes /\ Cap >= 0
      BY FileAssumption
    <3>5. QED
      BY <3>2, <3>3, <3>4
  <2>2. Nothing \in [off : Nat \cup {-1}, data : Seq(Bytes)] /\ Len(Nothing.data) = 0
    BY DEF Nothing, Chunk
  <2>3. pc \in Places
    BY DEF Init, Places
  <2>4. QED
    BY <2>1, <2>2, <2>3, NothingIs DEF Init, Types
<1>2. Wants
  BY DEF Init, Wants
<1>3. InTransit = Nothing /\ Rest = Nothing /\ ~InCall /\ Good
  BY DEF Init, InTransit, Rest, InCall, Good
<1>4. Flags
  BY <1>3, NothingIs DEF Init, Flags, InCall
<1>5. Flushing
  BY DEF Init, Flushing, InFlush
<1>6. Sizes
  <2>1. size = 0 /\ prealloc = 0 /\ content = <<>> /\ want = <<>> /\ curOff = 0 /\ pos = 0 /\ buf = Nothing
        /\ (stdout => noPrealloc)
    BY DEF Init
  <2>2. Len(content) = 0 /\ Len(want) = 0
    BY <2>1
  <2>3. QED
    BY <1>3, <2>1, <2>2, NothingIs DEF Sizes
<1>7. View
  BY DEF Init, View, ViewOK
<1>8. Pipe
  BY <1>3, NothingIs DEF Init, Pipe, Segment
<1>9. Chain
  BY <1>3, NothingIs DEF Init, Chain, Linked, Joined, InFlush, InCall
<1>10. QED
  BY <1>1, <1>2, <1>4, <1>5, <1>6, <1>7, <1>8, <1>9 DEF FInv

-----------------------------------------------------------------------------
(***************************************************************************)
(* What the steps find.                                                    *)
(***************************************************************************)
LEMMA Basics ==
  ASSUME Plain, FInv
  PROVE  /\ ~NoCache /\ ~("gaps" \in Callers) /\ ~("reuse" \in Callers)
         /\ Cap \in Nat \ {0} /\ MaxBytes \in Nat
         /\ Len(content) \in Nat /\ Len(want) \in Nat /\ Len(userData) \in Nat
         /\ buf.off \in Nat /\ buf.data \in Seq(Bytes) /\ Len(buf.data) \in Nat
         /\ wbuf.off \in Nat /\ wbuf.data \in Seq(Bytes)
         /\ buf = Chunk(buf.off, buf.data)
         /\ io.data \in Seq(Bytes) /\ call.data \in Seq(Bytes)
<1>1. ~NoCache /\ ~("gaps" \in Callers) /\ ~("reuse" \in Callers)
  BY DEF Plain, NoCache
<1>2. Cap \in Nat \ {0} /\ MaxBytes \in Nat
  BY FileAssumption
<1>3. Types
  BY DEF FInv
<1>4. content \in Seq(Bytes) /\ want \in Seq(Bytes) /\ userData \in Seq(Bytes)
  BY <1>3 DEF Types
<1>5. buf.off \in Nat /\ buf.data \in Seq(Bytes) /\ wbuf.off \in Nat /\ wbuf.data \in Seq(Bytes)
      /\ buf = Chunk(buf.off, buf.data)
  BY <1>3 DEF Types, Chunks, Chunk
<1>6. io.data \in Seq(Bytes) /\ call.data \in Seq(Bytes)
  BY <1>3 DEF Types
<1>7. QED
  BY <1>1, <1>2, <1>4, <1>5, <1>6

LEMMA EndOfBuf ==
  ASSUME Plain, FInv
  PROVE  /\ End(buf) \in Nat /\ End(buf) = buf.off + Len(buf.data)
         /\ \A i \in 1 .. Len(buf.data) : buf.off + i \in 1 .. End(buf)
<1>1. PICK o \in Nat, n \in Nat : o = buf.off /\ n = Len(buf.data)
  BY Basics
<1>2. End(buf) = o + n
  BY <1>1 DEF End
<1>3. o + n \in Nat /\ \A i \in 1 .. n : o + i \in 1 .. o + n
  OBVIOUS
<1>4. QED
  BY <1>1, <1>2, <1>3

\* Where the bytes of a call are.
LEMMA Parts ==
  ASSUME Plain, FInv
  PROVE  /\ ~InCall => InTransit = Nothing /\ Rest = Nothing
         /\ InCall /\ ~wWrite => InTransit = Nothing /\ Rest = Input
         /\ InCall /\ wWrite => InTransit = OutChunk /\ Rest = Input /\ continued /\ Good
                                /\ Input = Chunk(curOff, userData) /\ buf.data = <<>>
         /\ InCall => Good
<1>1. ~NoCache
  BY Basics
<1>2. InCall => Good
  BY DEF InCall, Good
<1>3. InCall /\ wWrite => continued /\ buf.data = <<>>
  BY <1>2 DEF FInv, Flags
<1>4. wWrite \in BOOLEAN /\ continued \in BOOLEAN
  BY DEF FInv, Types
<1>5. QED
  BY <1>1, <1>2, <1>3, <1>4 DEF InTransit, Rest, InCall, Input

\* The next bytes: what fw_cache() and fw_write() work on.
LEMMA Chunks_InCall ==
  ASSUME Plain, FInv, InCall
  PROVE  /\ Input \in Chunks /\ Input = Chunk(Input.off, Input.data)
         /\ Input.off \in Nat /\ Input.data \in Seq(Bytes)
         /\ wWrite => /\ OutChunk \in Chunks /\ OutChunk = Chunk(OutChunk.off, OutChunk.data)
                      /\ OutChunk.off \in Nat /\ OutChunk.data \in Seq(Bytes) /\ OutChunk.data # <<>>
<1>1. io.off \in Nat \cup {-1} /\ io.data \in Seq(Bytes) /\ curOff \in Nat /\ userData \in Seq(Bytes)
      /\ wbuf \in Chunks /\ pc \in Places
      /\ io \in [off : Nat \cup {-1}, data : Seq(Bytes)]
  BY DEF FInv, Types
<1>2. Target(io) \in Nat
  BY <1>1 DEF Target
<1>3. Input \in Chunks /\ Input = Chunk(Input.off, Input.data)
  BY <1>1, <1>2 DEF Input, Chunk, Chunks
<1>4. ASSUME wWrite PROVE OutChunk \in Chunks /\ OutChunk.data # <<>>
  <2>1. OutChunk.data # <<>> /\ (async \/ io.off \in Nat)
    BY <1>4 DEF FInv, Flags, InCall
  <2>2. ASSUME io.off \in Nat PROVE io \in Chunks
    BY <1>1, <2>2 DEF Chunks
  <2>3. QED
    BY <1>1, <2>1, <2>2 DEF OutChunk
<1>5. \A c \in Chunks : c = Chunk(c.off, c.data) /\ c.off \in Nat /\ c.data \in Seq(Bytes)
  BY DEF Chunks, Chunk
<1>6. QED
  BY <1>3, <1>4, <1>5

-----------------------------------------------------------------------------
(***************************************************************************)
(* file_write() is entered.                                                *)
(***************************************************************************)
\* The caller's new call: n bytes at offset at.
LEMMA NewCall ==
  ASSUME Plain, FInv, Write
  PROVE  \E n \in Nat \ {0}, at \in 0 .. Len(want), data \in Seq(Bytes), c \in [off : Nat \cup {-1}, data : Seq(Bytes)] :
           /\ Len(data) = n /\ total' = total + n /\ total + n <= MaxBytes
           /\ \A i \in 1 .. n : data[i] \in 1 .. MaxBytes
           /\ want' = Overlay(want, at, data, Hole) /\ pos' = at + n
           /\ c.data = data /\ at = Target(c) /\ (stdout => at = pos) /\ ~InGap(at)
           /\ io' = c /\ call' = c
<1>1. pc = "idle" /\ Types /\ Wants /\ curOff = pos /\ total \in Nat /\ MaxBytes \in Nat /\ pos \in Nat
  <2>1. pc = "idle"
    BY DEF Write
  <2>2. Types /\ Wants /\ curOff = pos
    BY <2>1 DEF FInv, Sizes, Good, InCall
  <2>3. QED
    BY <2>1, <2>2, FileAssumption DEF Types
<1>2. PICK n \in 1 .. MinOf(MaxLen, MaxBytes - total),
           o \in {-1} \cup (IF "offsets" \in Callers /\ ~stdout THEN 0 .. Len(want) ELSE {}) :
        LET c == Chunk(o, [i \in 1 .. n |-> total + i])
        IN  /\ InGap(Target(c)) => "gaps" \in Callers
            /\ total' = total + n
            /\ LET at == IF o = -1 THEN pos ELSE o
               IN  want' = Overlay(want, at, c.data, Hole) /\ pos' = at + n
            /\ Enter(c)
  BY DEF Write
<1> DEFINE data == [i \in 1 .. n |-> total + i]
           c == Chunk(o, data)
           at == IF o = -1 THEN pos ELSE o
<1>3. n \in Nat \ {0} /\ total + n <= MaxBytes
  BY <1>1, FileAssumption DEF MinOf
<1>4. o = -1 \/ (~stdout /\ o \in 0 .. Len(want))
  OBVIOUS
<1>5. at \in 0 .. Len(want) /\ (stdout => at = pos)
  BY <1>1, <1>4, Basics DEF Wants
<1>6. data \in Seq(Bytes) /\ Len(data) = n /\ \A i \in 1 .. n : data[i] \in 1 .. MaxBytes
  <2>1. \A i \in 1 .. n : total + i \in 1 .. MaxBytes
    BY <1>1, <1>3
  <2>2. \A i \in 1 .. n : total + i \in Bytes
    BY <2>1 DEF Bytes
  <2>3. data \in Seq(Bytes) /\ Len(data) = n
    BY <1>3, <2>2
  <2>4. QED
    BY <2>1, <2>3
<1>7. c.off = o /\ c.data = data
  BY DEF Chunk
<1>8. c \in [off : Nat \cup {-1}, data : Seq(Bytes)]
  <2>1. o \in Nat \cup {-1}
    BY <1>4, Basics
  <2>2. QED
    BY <1>6, <2>1 DEF Chunk
<1>9. Target(c) = at
  BY <1>1, <1>7 DEF Target
<1>10. /\ InGap(Target(c)) => "gaps" \in Callers
       /\ total' = total + n /\ want' = Overlay(want, at, c.data, Hole) /\ pos' = at + n /\ Enter(c)
  BY <1>2
<1> HIDE DEF at, c, data
<1>11. io' = c /\ call' = c
  BY <1>10, Basics DEF Enter
<1>12. ~InGap(at)
  BY <1>9, <1>10, Basics
<1>13. QED
  BY <1>3, <1>5, <1>6, <1>7, <1>8, <1>9, <1>10, <1>11, <1>12

LEMMA WriteOK == ASSUME Plain, FInv, Write PROVE FInv' /\ (Chain => Chain')
<1>1. PICK n \in Nat \ {0}, at \in 0 .. Len(want), data \in Seq(Bytes), c \in [off : Nat \cup {-1}, data : Seq(Bytes)] :
           /\ Len(data) = n /\ total' = total + n /\ total + n <= MaxBytes
           /\ \A i \in 1 .. n : data[i] \in 1 .. MaxBytes
           /\ want' = Overlay(want, at, data, Hole) /\ pos' = at + n
           /\ c.data = data /\ at = Target(c) /\ (stdout => at = pos) /\ ~InGap(at)
           /\ io' = c /\ call' = c
  BY NewCall
<1>2. /\ pc = "idle" /\ pc' = "loop"
      /\ UNCHANGED <<stdout, content, size, prealloc, noPrealloc, curOff, buf, wWrite, continued, userData, async,
                     wbuf, failed, cut>>
  BY Basics DEF Write, Enter, cvars
<1>3. InTransit = Nothing /\ Rest = Nothing /\ Good /\ ~InCall
  BY <1>2, Parts DEF Good, InCall
<1>4. Types /\ Wants /\ Flags /\ Sizes /\ View /\ Pipe
  BY DEF FInv
<1>5. ~wWrite /\ ~continued /\ ~async
  BY <1>3, <1>4 DEF Flags
<1>6. at \in Nat /\ at <= Len(want) /\ Len(want) \in Nat /\ total \in Nat /\ MaxBytes \in Nat /\ size \in Nat
      /\ total' \in 0 .. MaxBytes
  BY <1>1, <1>4, Basics DEF Types
<1>7. Laid(Bytes, want, at, data, Hole, want')
  <2>1. want \in Seq(Bytes) /\ Hole \in Bytes
    BY <1>4 DEF Types, Bytes
  <2>2. PICK w2 : w2 = want' /\ w2 = Overlay(want, at, data, Hole)
    BY <1>1
  <2>3. Laid(Bytes, want, at, data, Hole, Overlay(want, at, data, Hole))
    BY <1>6, <2>1, OverlayIs
  <2>4. QED
    BY <2>2, <2>3
<1>8. /\ want' \in Seq(Bytes) /\ Len(want') \in Nat
      /\ Len(want') = MaxOf(Len(want), at + n)
      /\ Len(want') <= total + n /\ at + n <= Len(want') /\ Len(want) <= Len(want')
  <2>1. data # <<>>
    BY <1>1
  <2>2. want' \in Seq(Bytes) /\ Len(want') = MaxOf(Len(want), at + n)
    BY <1>1, <1>7, <2>1 DEF Laid
  <2>3. Len(want) <= total
    BY <1>4 DEF Wants
  <2>4. QED
    BY <1>6, <2>2, <2>3 DEF MaxOf
<1>9. \A i \in 1 .. Len(want') : want'[i] = IF at < i /\ i <= at + n THEN data[i - at] ELSE want[i]
  <2>1. ASSUME NEW i \in 1 .. Len(want')
        PROVE  want'[i] = IF at < i /\ i <= at + n THEN data[i - at] ELSE want[i]
    <3>1. want'[i] = IF at < i /\ i <= at + n THEN data[i - at] ELSE IF i <= Len(want) THEN want[i] ELSE Hole
      BY <1>1, <1>7, <2>1 DEF Laid
    <3>2. (at < i /\ i <= at + n) \/ i <= Len(want)
      BY <1>6, <1>8 DEF MaxOf
    <3>3. QED
      BY <3>1, <3>2
  <2>2. QED
    BY <2>1
<1>10. InCall' /\ Good' /\ ~wWrite' /\ ~continued' /\ ~async'
  BY <1>2, <1>5 DEF InCall, Good
<1>11. /\ InTransit' = Nothing /\ Rest' = Chunk(at, data) /\ Input' = Chunk(at, data)
       /\ Input'.off = at /\ Input'.data = data /\ Nothing' = Nothing
  <2>1. Input' = Chunk(Target(io)', io'.data)
    BY <1>10 DEF Input
  <2>2. Target(io)' = at
    BY <1>1, <1>2 DEF Target
  <2>3. Input' = Chunk(at, data)
    BY <1>1, <2>1, <2>2
  <2>4. Rest' = Input' /\ InTransit' = Nothing /\ Nothing' = Nothing
    BY <1>2, <1>10, Basics DEF Rest, InTransit, Nothing, Chunk, NoCache
  <2>5. QED
    BY <2>3, <2>4 DEF Chunk
<1>12. Types'
  <2>1. pc' \in Places
    BY <1>2 DEF Places
  <2>2. /\ stdout' \in BOOLEAN /\ content' \in Seq(Bytes)
        /\ size' \in Nat /\ curOff' \in Nat /\ prealloc' \in Nat
        /\ noPrealloc' \in BOOLEAN /\ wWrite' \in BOOLEAN /\ continued' \in BOOLEAN
        /\ async' \in BOOLEAN /\ failed' \in BOOLEAN /\ cut' \in BOOLEAN
        /\ buf' \in Chunks /\ wbuf' \in Chunks /\ userData' \in Seq(Bytes) /\ Len(buf'.data) <= Cap
    BY <1>2, <1>4 DEF Types
  <2>3. pos' \in Nat /\ io' = c /\ call' = c
    BY <1>1, <1>6
  <2>4. QED
    BY <1>6, <1>8, <2>1, <2>2, <2>3 DEF Types
<1>13. Wants'
  <2>1. ASSUME NEW i \in 1 .. Len(want') PROVE want'[i] \in 1 .. MaxBytes
    <3>1. CASE at < i /\ i <= at + n
      <4>1. i - at \in 1 .. n
        BY <1>6, <1>8, <3>1
      <4>2. QED
        BY <1>1, <1>9, <3>1, <4>1
    <3>2. CASE ~(at < i /\ i <= at + n)
      <4>1. i \in 1 .. Len(want)
        BY <1>6, <1>8, <3>2 DEF MaxOf
      <4>2. QED
        BY <1>4, <1>9, <3>2, <4>1 DEF Wants
    <3>3. QED
      BY <3>1, <3>2
  <2>2. QED
    BY <1>1, <1>8, <2>1 DEF Wants
<1>14. Flags'
  <2>1. ~InGap(Input.off)'
    BY <1>1, <1>2, <1>11 DEF InGap
  <2>2. QED
    BY <1>2, <1>10, <2>1 DEF Flags
<1>15. Flushing'
  BY <1>2 DEF Flushing, InFlush
<1>16. End(Chunk(at, data)) = at + n
  BY <1>1 DEF End, Chunk
<1>17. Sizes'
  <2>1. size <= Len(want') /\ End(buf) <= Len(want')
    <3>1. size <= Len(want) /\ End(buf) <= Len(want) /\ End(buf) \in Nat
      BY <1>3, <1>4, EndOfBuf DEF Sizes
    <3>2. QED
      BY <1>6, <1>8, <3>1
  <2>2. End(InTransit') <= Len(want') /\ End(Rest') <= Len(want') /\ End(Input') = pos'
    BY <1>1, <1>8, <1>11, <1>16, NothingIs
  <2>3. QED
    BY <1>2, <1>4, <1>10, <2>1, <2>2 DEF Sizes, End
<1>18. View'
  <2>1. ViewOK(want, content, size, Nothing, buf, Nothing)
    BY <1>3, <1>4 DEF View
  <2>2. ViewOK(Overlay(want, at, data, Hole), content, size, Nothing, buf, Chunk(at, data))
    BY <1>4, <2>1, NothingIs, ViewWrite DEF Types
  <2>3. PICK w2 : w2 = want' /\ w2 = Overlay(want, at, data, Hole)
    BY <1>1
  <2>4. ViewOK(w2, content, size, Nothing, buf, Chunk(at, data))
    BY <2>2, <2>3
  <2>5. QED
    BY <1>2, <1>11, <2>3, <2>4 DEF View, ViewOK, Layered, Covers, Byte, End
<1>19. Pipe'
  <2>1. SUFFICES ASSUME stdout PROVE Pipe'
    BY <1>2 DEF Pipe
  <2>2. at = Len(want) /\ size <= Len(want) /\ pos' = Len(want')
    BY <1>1, <1>4, <1>6, <1>8, <2>1 DEF Pipe, MaxOf
  <2>3. \A i \in 1 .. Len(want) : want'[i] = want[i]
    BY <1>6, <1>8, <1>9, <2>2
  <2>4. \A i \in 1 .. size : content[i] = want'[i]
    BY <1>4, <1>6, <2>1, <2>2, <2>3 DEF Pipe
  <2>5. Segment(buf)'
    <3>1. End(buf) <= Len(want) /\ \A i \in 1 .. Len(buf.data) : buf.data[i] = want[buf.off + i]
      BY <1>4, <2>1 DEF Pipe, Segment
    <3>2. \A i \in 1 .. Len(buf.data) : buf.off + i \in 1 .. Len(want)
      <4>1. \A i \in 1 .. End(buf) : i \in 1 .. Len(want)
        BY <1>6, <3>1, EndOfBuf
      <4>2. QED
        BY <4>1, EndOfBuf
    <3>3. \A i \in 1 .. Len(buf.data) : buf.data[i] = want'[buf.off + i]
      BY <3>1, <3>2, <2>3
    <3>4. End(buf) <= Len(want')
      BY <1>6, <1>8, <3>1, EndOfBuf
    <3>5. QED
      BY <1>2, <3>3, <3>4 DEF Segment, End
  <2>6. Segment(InTransit)'
    BY <1>8, <1>11, NothingIs DEF Segment
  <2>7. size' <= Len(want') /\ \A i \in 1 .. size' : content'[i] = want'[i]
    BY <1>2, <1>6, <1>8, <2>2, <2>4
  <2>8. QED
    BY <2>2, <2>5, <2>6, <2>7 DEF Pipe
<1>20. Chain => Chain'
  <2>1. SUFFICES ASSUME Chain, stdout PROVE Chain'
    BY <1>2 DEF Chain
  <2>2. cut = FALSE /\ Linked
    BY <1>2, <1>3, <1>4, <2>1, NotCut DEF Types
  <2>3. Joined(size, buf, pos) /\ at = pos
    BY <1>1, <1>2, <1>3, <2>1, <2>2 DEF Linked, InFlush
  <2>4. Joined(size, buf, Input'.off)
    BY <1>11, <2>3
  <2>5. Linked'
    BY <1>2, <1>10, <2>4 DEF Linked, Joined, InFlush, End
  <2>6. QED
    BY <1>2, <2>2, <2>5 DEF Chain
<1>21. QED
  BY <1>12, <1>13, <1>14, <1>15, <1>17, <1>18, <1>19, <1>20 DEF FInv

-----------------------------------------------------------------------------
(***************************************************************************)
(* Steps that move no byte.                                                *)
(***************************************************************************)
\* What lies beyond the file's size may change, and the buffer may be emptied when
\* the kernel has its bytes.
LEMMA TailOK ==
  ASSUME FInv, UNCHANGED <<stdout, size, curOff, want, pos, total>>,
         size <= Len(content'), size <= prealloc', Len(content') <= prealloc',
         stdout => noPrealloc' /\ Len(content') = size,
         \A i \in 1 .. size : content'[i] = content[i],
         \/ buf' = buf
         \/ buf' = Nothing /\ (Good => ViewOK(want, content, size, InTransit, Nothing, Rest)),
         Good' => Good,
         Good' => InTransit' = InTransit /\ Rest' = Rest,
         Good' /\ InCall' => InCall /\ Input' = Input,
         Good' /\ ~InCall' => ~InCall
  PROVE  Wants' /\ Sizes' /\ View' /\ Pipe'
<1>1. Types /\ Wants /\ Sizes /\ View /\ Pipe
  BY DEF FInv
<1>2. Wants'
  BY <1>1 DEF Wants
<1>3. Len(want) \in Nat /\ size \in Nat /\ End(Nothing) <= Len(want)
  BY <1>1, NothingIs DEF Types
<1>4. Sizes'
  <2>1. Good => End(buf') <= Len(want)
    BY <1>1, <1>3 DEF Sizes
  <2>2. Good' => End(InTransit)' = End(InTransit) /\ End(Rest)' = End(Rest)
    BY DEF End
  <2>3. Good' /\ InCall' => End(Input)' = End(Input)
    BY DEF End
  <2>4. End(buf)' = End(buf')
    BY DEF End
  <2>5. QED
    BY <1>1, <2>1, <2>2, <2>3, <2>4 DEF Sizes
<1>5. View'
  <2>1. SUFFICES ASSUME Good' PROVE ViewOK(want, content, size, InTransit, buf, Rest)'
    BY DEF View
  <2>2. ViewOK(want, content, size, InTransit, buf', Rest)
    BY <1>1, <2>1 DEF View
  <2>3. PICK t, b, r : t = InTransit /\ b = buf' /\ r = Rest /\ t = InTransit' /\ r = Rest'
    BY <2>1
  <2>4. ViewOK(want, content, size, t, b, r)
    BY <2>2, <2>3
  <2>5. ASSUME NEW i \in 1 .. Len(want)
        PROVE  Layered(content', size, t, b, r, i) = Layered(content, size, t, b, r, i)
    <3>1. i <= size => content'[i] = content[i]
      BY <1>3
    <3>2. QED
      BY <3>1 DEF Layered
  <2>6. ViewOK(want, content', size, t, b, r)
    BY <2>4, <2>5 DEF ViewOK
  <2>7. QED
    BY <2>3, <2>6 DEF ViewOK, Layered, Covers, Byte, End
<1>6. Pipe'
  <2>1. Segment(buf) => Segment(buf)'
    <3>1. CASE buf' = buf
      BY <3>1 DEF Segment, End
    <3>2. CASE buf' = Nothing
      BY <1>3, <3>2, NothingIs DEF Segment, End
    <3>3. QED
      BY <3>1, <3>2
  <2>2. Good' /\ Segment(InTransit) => Segment(InTransit)'
    BY DEF Segment, End
  <2>3. stdout => \A i \in 1 .. size : content'[i] = want[i]
    BY <1>1 DEF Pipe
  <2>4. QED
    BY <1>1, <2>1, <2>2, <2>3 DEF Pipe
<1>7. QED
  BY <1>2, <1>4, <1>5, <1>6

LEMMA QuietOK ==
  ASSUME FInv, UNCHANGED <<stdout, content, fvars, buf, want, pos, total>>,
         Good' => Good,
         Good' => InTransit' = InTransit /\ Rest' = Rest,
         Good' /\ InCall' => InCall /\ Input' = Input,
         Good' /\ ~InCall' => ~InCall
  PROVE  Wants' /\ Sizes' /\ View' /\ Pipe'
<1>1. UNCHANGED <<stdout, content, size, prealloc, noPrealloc, curOff, buf, want, pos, total>>
  BY DEF fvars
<1>2. Sizes
  BY DEF FInv
<1>3. /\ size <= Len(content') /\ size <= prealloc' /\ Len(content') <= prealloc'
      /\ stdout => noPrealloc' /\ Len(content') = size
  BY <1>1, <1>2 DEF Sizes
<1>4. QED
  BY <1>1, <1>3, TailOK

LEMMA RetryOK == ASSUME Plain, FInv, Retry PROVE FInv' /\ (Chain => Chain')
<1>1. /\ pc = "async" /\ pc' = "loop" /\ io' = call /\ call' = call
      /\ UNCHANGED <<stdout, content, fvars, cvars, total, want, pos, failed, cut>>
  BY Basics DEF Retry, Enter, fvars
<1>2. Types /\ Flags
  BY DEF FInv
<1>3. InCall /\ InCall' /\ Good /\ Good' /\ wWrite /\ async /\ continued
  BY <1>1, <1>2 DEF InCall, Good, Flags
<1>4. UNCHANGED <<size, prealloc, noPrealloc, curOff, buf, wWrite, continued, userData, async, wbuf>>
  BY <1>1 DEF fvars, cvars
<1>5. InTransit' = InTransit /\ Rest' = Rest /\ Input' = Input /\ OutChunk' = OutChunk
  BY <1>1, <1>3, <1>4 DEF InTransit, Rest, Input, OutChunk, InCall
<1>6. Types'
  BY <1>1, <1>2, <1>4 DEF Types, Places
<1>7. Flags'
  BY <1>1, <1>2, <1>3, <1>4, <1>5 DEF Flags
<1>8. Flushing'
  BY <1>1 DEF Flushing, InFlush
<1>9. Wants' /\ Sizes' /\ View' /\ Pipe'
  BY <1>1, <1>3, <1>4, <1>5, QuietOK
<1>10. Chain => Chain'
  <2>1. End(OutChunk)' = End(OutChunk) /\ Input'.off = Input.off
    BY <1>5 DEF End
  <2>2. SUFFICES ASSUME Chain, stdout PROVE Chain'
    BY <1>1 DEF Chain
  <2>3. cut = FALSE /\ Linked
    BY <1>1, <1>2, <1>3, <2>2, NotCut DEF Types
  <2>4. Linked'
    BY <1>1, <1>3, <1>4, <1>5, <2>1, <2>3 DEF Linked, InFlush
  <2>5. QED
    BY <1>1, <2>3, <2>4 DEF Chain, hvars
<1>11. QED
  BY <1>6, <1>7, <1>8, <1>9, <1>10 DEF FInv

\* file_flush() by the user, by behaviour() and by close()
LEMMA CalledOK ==
  ASSUME Plain, FInv, NEW place \in InFlush, Called(place),
         \/ pc \in {"idle", "flushed"} /\ failed' = failed
         \/ place = "closing" /\ pc \in {"async", "error"} /\ failed',
         stdout => place # "trunc"
  PROVE  FInv' /\ (Chain => Chain')
<1>1. /\ pc' = place /\ io' = buf
      /\ UNCHANGED <<stdout, content, fvars, cvars, call, total, want, pos, cut>>
  BY DEF Called
<1>2. Types /\ Flags /\ Sizes
  BY DEF FInv
<1>3. UNCHANGED <<size, prealloc, noPrealloc, curOff, buf, wWrite, continued, userData, async, wbuf>>
  BY <1>1 DEF fvars, cvars
<1>4. ~InCall' /\ pc' \in InFlush
  BY <1>1 DEF InCall, InFlush
<1>5. Good' => Good /\ ~InCall /\ pc \in {"idle", "flushed"}
  BY <1>1 DEF Good, InCall
<1>6. pc \in {"idle", "flushed"} => ~InCall /\ pc \notin InFlush
  BY DEF InCall, InFlush
<1>7. Good' => InTransit' = InTransit /\ Rest' = Rest
  BY <1>4, <1>5, Basics DEF InTransit, Rest, InCall, Nothing, NoCache, Chunk
<1>8. Types'
  <2>1. io' \in [off : Nat \cup {-1}, data : Seq(Bytes)]
    BY <1>1, <1>2 DEF Types, Chunks
  <2>2. failed' \in BOOLEAN /\ pc' \in Places
    BY <1>1, <1>2 DEF Types, Places
  <2>3. QED
    BY <1>1, <1>2, <1>3, <2>1, <2>2 DEF Types
<1>9. Flags'
  BY <1>1, <1>2, <1>3, <1>4, <1>5 DEF Flags, InCall, InFlush
<1>10. Flushing'
  <2>1. PICK b \in Chunks : b = buf /\ b = buf' /\ b = io'
    BY <1>1, <1>2, <1>3 DEF Types
  <2>2. /\ b.off \in Nat /\ b.off >= b.off /\ ~(b.off < b.off)
        /\ \A i : ~(i \in b.off + 1 .. b.off)
    BY DEF Chunks
  <2>3. \A i \in 1 .. Len(b.data) : b.data[i] = Byte(b, b.off + i)
    <3>1. ASSUME NEW i \in 1 .. Len(b.data) PROVE (b.off + i) - b.off = i
      BY <2>2
    <3>2. QED
      BY <3>1 DEF Byte
  <2>4. End(io)' = End(buf)'
    BY <2>1 DEF End
  <2>5. \A i \in 1 .. Len(io'.data) : io'.data[i] = Byte(buf', io'.off + i)
    BY <2>1, <2>3
  <2>6. /\ io'.off \in Nat /\ io'.off >= buf'.off /\ ~(buf'.off < io'.off)
        /\ \A i \in buf'.off + 1 .. io'.off : content'[i] = Byte(buf', i)
    BY <2>1, <2>2
  <2>7. QED
    BY <2>4, <2>5, <2>6 DEF Flushing, Byte
<1>11. Wants' /\ Sizes' /\ View' /\ Pipe'
  BY <1>1, <1>3, <1>4, <1>5, <1>7, QuietOK
<1>12. Chain => Chain'
  <2>1. SUFFICES ASSUME Chain, stdout, Good' PROVE Chain'
    BY <1>1 DEF Chain
  <2>2. io' = buf' /\ pc' \in {"flush", "closing"}
    BY <1>1, <1>3, <2>1 DEF InFlush
  <2>3. CASE cut
    BY <1>1, <1>3, <1>5, <2>1, <2>2, <2>3 DEF Chain, Broken
  <2>4. CASE cut = FALSE
    <3>1. Joined(size, buf, pos)
      BY <1>5, <1>6, <2>1, <2>4 DEF Chain, Linked
    <3>2. Joined(size, io, pos)'
      BY <1>1, <1>3, <3>1 DEF Joined, End
    <3>3. Linked'
      BY <1>4, <3>2 DEF Linked
    <3>4. QED
      BY <1>1, <2>4, <3>3 DEF Chain
  <2>5. QED
    BY <1>2, <2>3, <2>4 DEF Types
<1>13. QED
  BY <1>8, <1>9, <1>10, <1>11, <1>12 DEF FInv

LEMMA FlushCallsOK == ASSUME Plain, FInv, Flush \/ Behaviour \/ Close PROVE FInv' /\ (Chain => Chain')
<1>1. failed \in BOOLEAN /\ (pc = "error" => failed)
  BY DEF FInv, Types, Flags
<1>2. CASE Flush
  BY <1>2, CalledOK DEF Flush, InFlush
<1>3. CASE Behaviour
  BY <1>3, CalledOK DEF Behaviour, InFlush
<1>4. CASE Close
  BY <1>1, <1>4, CalledOK DEF Close, InFlush
<1>5. QED
  BY <1>2, <1>3, <1>4

\* A full pipe: the chunk waits.
LEMMA FwWriteAgainOK == ASSUME Plain, FInv, FwWriteAgain PROVE FInv' /\ (Chain => Chain')
<1>1. /\ pc = "loop" /\ wWrite /\ pc' = "async" /\ async' /\ async' = TRUE /\ wbuf' = OutChunk /\ io' = Nothing
      /\ UNCHANGED <<stdout, content, fvars, buf, wWrite, continued, userData, call, hvars>>
  BY Basics DEF FwWriteAgain, InFwWrite
<1>2. Types /\ Flags
  BY DEF FInv
<1>3. InCall /\ InCall' /\ Good /\ Good' /\ continued
  BY <1>1, <1>2 DEF InCall, Good, Flags
<1>4. UNCHANGED <<size, prealloc, noPrealloc, curOff, buf, wWrite, continued, userData, call, total, want, pos, failed, cut>>
  BY <1>1 DEF fvars, hvars
<1>5. OutChunk' = OutChunk /\ Input' = Input
  BY <1>1, <1>3, <1>4 DEF OutChunk, Input
<1>6. InTransit' = InTransit /\ Rest' = Rest
  BY <1>1, <1>3, <1>4, <1>5 DEF InTransit, Rest, InCall
<1>7. OutChunk \in Chunks
  BY <1>1, <1>3, Chunks_InCall
<1>8. Types'
  <2>1. io' \in [off : Nat \cup {-1}, data : Seq(Bytes)]
    BY <1>1 DEF Nothing, Chunk
  <2>2. pc' \in Places
    BY <1>1 DEF Places
  <2>3. QED
    BY <1>1, <1>2, <1>4, <1>7, <2>1, <2>2 DEF Types
<1>9. Flags'
  BY <1>1, <1>2, <1>3, <1>4, <1>5 DEF Flags
<1>10. Flushing'
  BY <1>1 DEF Flushing, InFlush
<1>11. Wants' /\ Sizes' /\ View' /\ Pipe'
  BY <1>1, <1>3, <1>4, <1>5, <1>6, QuietOK
<1>12. Chain => Chain'
  <2>1. End(OutChunk)' = End(OutChunk) /\ Input'.off = Input.off
    BY <1>5 DEF End
  <2>2. SUFFICES ASSUME Chain, stdout PROVE Chain'
    BY <1>1 DEF Chain
  <2>3. cut = FALSE /\ Linked
    BY <1>1, <1>2, <1>3, <2>2, NotCut DEF Types
  <2>4. Linked'
    BY <1>1, <1>3, <1>4, <1>5, <2>1, <2>3 DEF Linked, InFlush
  <2>5. QED
    BY <1>1, <2>3, <2>4 DEF Chain, hvars
<1>13. QED
  BY <1>8, <1>9, <1>10, <1>11, <1>12 DEF FInv

LEMMA FwWriteFailsOK == ASSUME Plain, FInv, FwWriteFails PROVE FInv' /\ (Chain => Chain')
<1>1. /\ pc' = "error" /\ failed' = TRUE /\ io' = Nothing /\ call' = Nothing /\ async' = FALSE
      /\ wbuf' = [wbuf EXCEPT !.data = IF async THEN <<>> ELSE @]
      /\ UNCHANGED <<stdout, content, fvars, buf, wWrite, continued, userData, total, want, pos, cut>>
  BY DEF FwWriteFails
<1>2. Types
  BY DEF FInv
<1>3. UNCHANGED <<size, prealloc, noPrealloc, curOff, buf, wWrite, continued, userData, total, want, pos>>
  BY <1>1 DEF fvars
<1>4. ~Good' /\ ~InCall' /\ pc' \notin InFlush
  BY <1>1 DEF Good, InCall, InFlush
<1>5. Types'
  <2>1. Nothing \in [off : Nat \cup {-1}, data : Seq(Bytes)]
    BY DEF Nothing, Chunk
  <2>2. wbuf' \in Chunks /\ pc' \in Places
    <3>1. wbuf \in Chunks
      BY <1>2 DEF Types
    <3>2. <<>> \in Seq(Bytes) /\ wbuf.data \in Seq(Bytes)
      BY Basics
    <3>3. wbuf' \in Chunks
      <4>1. CASE async
        BY <1>1, <3>1, <3>2, <4>1 DEF Chunks
      <4>2. CASE ~async
        BY <1>1, <3>1, <3>2, <4>2 DEF Chunks
      <4>3. QED
        BY <4>1, <4>2
    <3>4. QED
      BY <1>1, <3>3 DEF Places
  <2>3. QED
    BY <1>1, <1>2, <1>3, <2>1, <2>2 DEF Types
<1>6. Flags' /\ Flushing' /\ Chain'
  BY <1>1, <1>4 DEF Flags, Flushing, Chain
<1>7. Wants' /\ Sizes' /\ View' /\ Pipe'
  BY <1>1, <1>3, <1>4, QuietOK
<1>8. QED
  BY <1>5, <1>6, <1>7 DEF FInv

-----------------------------------------------------------------------------
(***************************************************************************)
(* fw_cache()                                                              *)
(***************************************************************************)
LEMMA FromEnds ==
  ASSUME NEW S, NEW s \in Seq(S)
  PROVE  From(s, 0) = s /\ From(s, Len(s)) = <<>>
BY DEF From

\* What fw_cache() finds.
LEMMA AtCache ==
  ASSUME Plain, FInv, pc = "loop", ~wWrite
  PROVE  /\ InCall /\ Good /\ ~async /\ pc \notin InFlush
         /\ End(Input) = pos /\ End(Input) <= Len(want) /\ End(Input) = Input.off + Len(Input.data)
         /\ ViewOK(want, content, size, Nothing, buf, Input)
         /\ Len(want) \in Nat /\ Len(Input.data) \in Nat /\ size \in Nat /\ size <= Len(want)
         /\ Len(buf.data) <= Cap /\ End(buf) = buf.off + Len(buf.data) /\ End(buf) <= Len(want)
         /\ stdout => Segment(Input) /\ Segment(buf)
<1>1. Types /\ Flags /\ Sizes /\ View /\ Pipe
  BY DEF FInv
<1>2. InCall /\ Good
  BY DEF InCall, Good
<1>3. ~async /\ pc \notin InFlush
  BY <1>1, <1>2 DEF Flags, Types, InFlush
<1>4. InTransit = Nothing /\ Rest = Input
  BY <1>2, Parts
<1>5. End(Input) = pos /\ End(Input) <= Len(want) /\ End(buf) <= Len(want) /\ size <= Len(want)
  BY <1>1, <1>2, <1>4 DEF Sizes
<1>6. ViewOK(want, content, size, Nothing, buf, Input)
  BY <1>1, <1>2, <1>4 DEF View
<1>7. Len(want) \in Nat /\ Len(Input.data) \in Nat /\ size \in Nat /\ Len(buf.data) <= Cap /\ Input.off \in Nat
  BY <1>1, <1>2, Basics, Chunks_InCall DEF Types
<1>8. ASSUME NEW j \in 1 .. Len(Input.data) PROVE Input.data[j] = want[Input.off + j]
  <2>1. Input.off + j \in 1 .. Len(want) /\ (Input.off + j) - Input.off = j
    BY <1>5, <1>7 DEF End
  <2>2. Covers(Input, Input.off + j) /\ Byte(Input, Input.off + j) = Input.data[j]
    BY <1>7, <2>1 DEF Covers, End, Byte
  <2>3. QED
    BY <1>6, <2>1, <2>2 DEF ViewOK, Layered
<1>9. stdout => Segment(Input) /\ Segment(buf)
  BY <1>1, <1>5, <1>8 DEF Segment, Pipe
<1>10. QED
  BY <1>2, <1>3, <1>5, <1>6, <1>7, <1>9 DEF End

LEMMA KeepOK ==
  ASSUME Plain, FInv, pc = "loop", ~wWrite, NEW b \in Chunks, Keep(Input, b),
         Len(b.data) <= Cap, End(b) <= Len(want),
         ViewOK(want, content, size, Nothing, b, Nothing),
         stdout => Segment(b)
  PROVE  /\ FInv'
         /\ (stdout => cut = FALSE /\ Joined(size, b, pos)) => Chain'
<1>1. /\ buf' = b /\ curOff' = Input.off + Len(Input.data) /\ continued' = FALSE /\ userData' = <<>>
      /\ pc' = "idle" /\ call' = Nothing /\ io' = Nothing
      /\ UNCHANGED <<stdout, content, size, prealloc, noPrealloc, wWrite, async, wbuf, total, want, pos, failed, cut>>
  BY DEF Keep, hvars
<1>2. Types /\ Wants /\ Sizes /\ Pipe
  BY DEF FInv
<1>3. ~async /\ curOff' = pos /\ pos \in Nat /\ size <= Len(want)
  BY <1>1, <1>2, AtCache DEF Types
<1>4. ~InCall' /\ Good' /\ pc' \notin InFlush
  BY <1>1 DEF InCall, Good, InFlush
<1>5. InTransit' = Nothing /\ Rest' = Nothing /\ Nothing' = Nothing
  BY <1>4, Basics DEF InTransit, Rest, InCall, Nothing, Chunk, NoCache
<1>6. Types'
  <2>1. Nothing \in [off : Nat \cup {-1}, data : Seq(Bytes)]
    BY DEF Nothing, Chunk
  <2>2. pc' \in Places /\ userData' \in Seq(Bytes)
    BY <1>1 DEF Places
  <2>3. QED
    BY <1>1, <1>2, <1>3, <2>1, <2>2 DEF Types
<1>7. Wants' /\ Flags' /\ Flushing'
  BY <1>1, <1>2, <1>3, <1>4 DEF Wants, Flags, Flushing
<1>8. Sizes'
  <2>1. End(buf') <= Len(want') /\ End(InTransit') <= Len(want') /\ End(Rest') <= Len(want')
    BY <1>1, <1>5, Basics, NothingIs
  <2>2. QED
    BY <1>1, <1>2, <1>3, <1>4, <2>1 DEF Sizes, End
<1>9. View'
  BY <1>1, <1>5 DEF View, ViewOK, Layered, Covers, Byte, End
<1>10. Pipe'
  <2>1. Segment(b) => Segment(buf)'
    BY <1>1 DEF Segment, End
  <2>2. Segment(InTransit)'
    BY <1>1, <1>5, NothingIs, Basics DEF Segment
  <2>3. QED
    BY <1>1, <1>2, <2>1, <2>2 DEF Pipe
<1>11. ASSUME stdout => cut = FALSE /\ Joined(size, b, pos) PROVE Chain'
  BY <1>1, <1>4, <1>11 DEF Chain, Linked, Joined, End
<1>12. QED
  BY <1>6, <1>7, <1>8, <1>9, <1>10, <1>11 DEF FInv

LEMMA GiveOK ==
  ASSUME Plain, FInv, pc = "loop", ~wWrite, NEW k \in 0 .. Len(Input.data), NEW out \in Chunks,
         Give(Input, k, out), out.data # <<>>, End(out) <= Len(want),
         ViewOK(want, content, size, out, Nothing, Chunk(Input.off + k, From(Input.data, k))),
         stdout => Segment(out)
  PROVE  /\ FInv'
         /\ (stdout => cut = FALSE /\ out.off = size /\ End(out) = Input.off + k) => Chain'
<1>1. /\ buf' = Nothing /\ curOff' = Input.off + k
      /\ continued' = TRUE /\ userData' = From(Input.data, k) /\ io' = out /\ wWrite' = TRUE
      /\ UNCHANGED <<stdout, content, size, prealloc, noPrealloc, async, wbuf, pc, call, total, want, pos, failed, cut>>
  BY DEF Give, hvars
<1>2. Types /\ Wants /\ Sizes /\ Pipe
  BY DEF FInv
<1>3. /\ ~async /\ pos \in Nat /\ size <= Len(want) /\ k \in Nat /\ k <= Len(Input.data) /\ Input.off \in Nat
      /\ Len(Input.data) \in Nat /\ pos = Input.off + Len(Input.data) /\ pos <= Len(want)
  BY <1>2, AtCache, Chunks_InCall DEF Types
<1>4. InCall' /\ Good' /\ pc' \notin InFlush
  BY <1>1 DEF InCall, Good, InFlush
<1>5. From(Input.data, k) \in Seq(Bytes) /\ Len(From(Input.data, k)) = Len(Input.data) - k
  BY AtCache, Chunks_InCall, FromIs
<1>6. PICK u \in Seq(Bytes) : u = From(Input.data, k) /\ Len(u) = Len(Input.data) - k
  BY <1>5
<1>7. curOff' = Input.off + k /\ userData' = u
  BY <1>1, <1>6
<1>8. OutChunk' = out /\ InTransit' = out
  BY <1>1, <1>3, <1>4, Basics DEF OutChunk, InTransit, InCall
<1>9. Input' = Chunk(Input.off + k, u) /\ Rest' = Input'
  BY <1>1, <1>4, <1>7 DEF Input, Rest, InCall
<1>10. End(Input') = pos /\ Input'.off = Input.off + k
  BY <1>3, <1>6, <1>9 DEF End, Chunk
<1>11. Types'
  <2>1. io' \in [off : Nat \cup {-1}, data : Seq(Bytes)]
    BY <1>1 DEF Chunks
  <2>2. buf' \in Chunks /\ Len(buf'.data) <= Cap
    BY <1>1, NothingIs, FileAssumption
  <2>3. curOff' \in Nat
    BY <1>3, <1>7
  <2>4. QED
    BY <1>1, <1>2, <1>7, <2>1, <2>2, <2>3 DEF Types
<1>12. Wants'
  BY <1>1, <1>2 DEF Wants
<1>13. Flags'
  <2>1. buf'.data = <<>> /\ out.off \in Nat
    BY <1>1, NothingIs DEF Chunks
  <2>2. QED
    BY <1>1, <1>3, <1>4, <1>8, <2>1 DEF Flags
<1>14. Flushing'
  BY <1>4 DEF Flushing
<1>15. Sizes'
  <2>1. End(buf') <= Len(want') /\ End(InTransit') <= Len(want') /\ End(Rest') <= Len(want')
    BY <1>1, <1>3, <1>8, <1>9, <1>10, Basics, NothingIs
  <2>2. QED
    BY <1>1, <1>2, <1>3, <1>4, <1>10, <2>1 DEF Sizes, End
<1>16. View'
  <2>1. ViewOK(want, content, size, out, Nothing, Chunk(Input.off + k, u))
    BY <1>6
  <2>2. PICK r : r = Rest' /\ r = Chunk(Input.off + k, u)
    BY <1>9
  <2>3. ViewOK(want, content, size, out, Nothing, r)
    BY <2>1, <2>2
  <2>4. QED
    BY <1>1, <1>8, <2>2, <2>3 DEF View, ViewOK, Layered, Covers, Byte, End
<1>17. Pipe'
  <2>1. Segment(buf)'
    BY <1>1, NothingIs, Basics DEF Segment
  <2>2. Segment(out) => Segment(InTransit)'
    BY <1>1, <1>8 DEF Segment, End
  <2>3. QED
    BY <1>1, <1>2, <2>1, <2>2 DEF Pipe
<1>18. ASSUME stdout => cut = FALSE /\ out.off = size /\ End(out) = Input.off + k PROVE Chain'
  <2>1. stdout' = stdout /\ size' = size /\ OutChunk'.off = out.off /\ End(OutChunk)' = End(out) /\ cut' = cut
    BY <1>1, <1>8 DEF End
  <2>2. wWrite'
    BY <1>1
  <2>3. QED
    BY <1>4, <1>10, <1>18, <2>1, <2>2 DEF Chain, Linked
<1>19. QED
  BY <1>11, <1>12, <1>13, <1>14, <1>15, <1>16, <1>17, <1>18 DEF FInv

\* The range of the buffer is hit.
LEMMA MergeOK ==
  ASSUME Plain, FInv, pc = "loop", ~wWrite, Hits(Input), Input.data # <<>>, Merge(Input)
  PROVE  FInv' /\ (Chain => Chain')
<1>1. /\ InCall /\ Good /\ End(Input) = pos /\ pos <= Len(want) /\ pos = Input.off + Len(Input.data)
      /\ ViewOK(want, content, size, Nothing, buf, Input)
      /\ Len(want) \in Nat /\ size \in Nat
      /\ Len(buf.data) <= Cap /\ End(buf) = buf.off + Len(buf.data) /\ End(buf) <= Len(want)
      /\ stdout => Segment(Input) /\ Segment(buf)
  BY AtCache
<1>2. PICK bd \in Seq(Bytes), rd \in Seq(Bytes), bo \in Nat, ro \in Nat :
        bd = buf.data /\ rd = Input.data /\ bo = buf.off /\ ro = Input.off
  BY <1>1, Basics, Chunks_InCall
<1>3. /\ buf = Chunk(bo, bd) /\ Input = Chunk(ro, rd)
      /\ Len(bd) \in Nat /\ Len(rd) \in Nat /\ bd # <<>> /\ rd # <<>> /\ Len(bd) > 0 /\ Len(rd) > 0
      /\ bo <= ro /\ ro < bo + Cap /\ Cap \in Nat \ {0} /\ Len(bd) <= Cap
      /\ pos = ro + Len(rd) /\ bo + Len(bd) <= Len(want)
  <2>1. buf = Chunk(bo, bd) /\ Input = Chunk(ro, rd)
    BY <1>1, <1>2, Basics, Chunks_InCall
  <2>2. bd # <<>> /\ rd # <<>> /\ bo <= ro /\ ro < bo + Cap
    BY <1>2 DEF Hits
  <2>3. Len(bd) > 0 /\ Len(rd) > 0
    BY <2>2
  <2>4. QED
    BY <1>1, <1>2, <2>1, <2>2, <2>3, FileAssumption
<1>4. ~continued /\ ro <= bo + Len(bd)
  <2>1. Flags
    BY DEF FInv
  <2>2. ~continued
    BY <1>1, <1>2, <1>3, <2>1 DEF Flags
  <2>3. ~InGap(ro)
    BY <1>2, <2>1, <2>2 DEF Flags
  <2>4. QED
    BY <1>2, <1>3, <2>2, <2>3 DEF InGap
<1>5. PICK o \in 0 .. Len(bd) : ro = bo + o /\ o = ro - bo
  <2>1. ro - bo \in 0 .. Len(bd) /\ ro = bo + (ro - bo)
    BY <1>3, <1>4
  <2>2. QED
    BY <2>1
<1>6. PICK k \in 0 .. Len(rd) : k = Room(Input) /\ k = MinOf(Len(rd), bo + Cap - ro) /\ k > 0
  <2>1. MinOf(Len(rd), bo + Cap - ro) \in 0 .. Len(rd) /\ MinOf(Len(rd), bo + Cap - ro) > 0
    BY <1>3 DEF MinOf
  <2>2. Room(Input) = MinOf(Len(rd), bo + Cap - ro)
    BY <1>2 DEF Room
  <2>3. QED
    BY <2>1, <2>2
<1>7. k \in Nat /\ o \in Nat /\ (k = Len(rd) \/ o + k = Cap) /\ o + k <= Cap /\ k <= Len(rd) /\ o <= Len(bd)
  BY <1>3, <1>5, <1>6 DEF MinOf
<1>8. PICK v, u : v = Overlay(bd, o, SubSeq(rd, 1, k), Stale) /\ u = From(rd, k)
  OBVIOUS
<1>9. Merged(bd, rd, o, k, v, u)
  <2>1. Merged(bd, rd, o, k, Overlay(bd, o, SubSeq(rd, 1, k), Stale), From(rd, k))
    <3>1. Stale \in Bytes
      BY DEF Bytes
    <3>2. QED
      BY <1>7, <3>1, MergeBytes
  <2>2. QED
    BY <1>8, <2>1
<1>10. Filled(Input, Room(Input)) = Chunk(bo, v) /\ From(Input.data, k) = u
  BY <1>2, <1>5, <1>6, <1>8 DEF Filled
<1>11. /\ v \in Seq(Bytes) /\ Len(v) \in Nat /\ Len(v) = MaxOf(Len(bd), o + k) /\ Len(v) > 0 /\ Len(v) <= Cap
       /\ Len(u) = Len(rd) - k /\ u \in Seq(Bytes)
       /\ bo + Len(v) <= Len(want)
  <2>1. v \in Seq(Bytes) /\ Len(v) = MaxOf(Len(bd), o + k) /\ Len(u) = Len(rd) - k /\ u \in Seq(Bytes)
    BY <1>9 DEF Merged
  <2>2. bo + (o + k) <= Len(want)
    BY <1>1, <1>3, <1>5, <1>7
  <2>3. QED
    BY <1>1, <1>3, <1>7, <2>1, <2>2 DEF MaxOf
<1>12. ViewOK(want, content, size, Nothing, Chunk(bo, v), Chunk(ro + k, u))
  <2>1. ViewOK(want, content, size, Nothing, Chunk(bo, bd), Chunk(ro, rd))
    BY <1>1, <1>3
  <2>2. QED
    BY <1>1, <1>5, <1>9, <2>1, ViewMerge
<1>13. PICK b \in Chunks : b = Chunk(bo, v) /\ b.data = v /\ b.off = bo /\ End(b) = bo + Len(v)
  <2>1. Chunk(bo, v) \in Chunks /\ Chunk(bo, v).data = v /\ Chunk(bo, v).off = bo
    BY <1>11 DEF Chunk, Chunks
  <2>2. QED
    BY <2>1 DEF End
<1>14. PICK r \in Chunks : r = Chunk(ro + k, u) /\ r.data = u
  <2>1. Chunk(ro + k, u) \in Chunks /\ Chunk(ro + k, u).data = u
    BY <1>3, <1>7, <1>11 DEF Chunk, Chunks
  <2>2. QED
    BY <2>1
<1>15. ViewOK(want, content, size, Nothing, b, r)
  BY <1>12, <1>13, <1>14
<1>16. stdout => Segment(b)
  <2>1. SUFFICES ASSUME stdout PROVE Segment(b)
    OBVIOUS
  <2>2. \A j \in 1 .. Len(bd) : bd[j] = want[bo + j]
    BY <1>1, <1>2, <2>1 DEF Segment
  <2>3. \A j \in 1 .. Len(rd) : rd[j] = want[ro + j]
    BY <1>1, <1>2, <2>1 DEF Segment
  <2>4. ASSUME NEW j \in 1 .. Len(v) PROVE v[j] = want[bo + j]
    <3>1. CASE o < j /\ j <= o + k
      <4>1. j - o \in 1 .. k /\ j - o \in 1 .. Len(rd) /\ o + (j - o) = j /\ ro + (j - o) = bo + j
        BY <1>3, <1>5, <1>7, <1>11, <3>1
      <4>2. v[o + (j - o)] = rd[j - o]
        BY <1>9, <4>1 DEF Merged
      <4>3. QED
        BY <2>3, <4>1, <4>2
    <3>2. CASE ~(o < j /\ j <= o + k)
      <4>1. j \in 1 .. Len(bd)
        BY <1>3, <1>7, <1>11, <3>2 DEF MaxOf
      <4>2. v[j] = bd[j]
        BY <1>9, <3>2, <4>1 DEF Merged
      <4>3. QED
        BY <2>2, <4>1, <4>2
    <3>3. QED
      BY <3>1, <3>2
  <2>5. QED
    BY <1>11, <1>13, <2>4 DEF Segment
\* A stream is only continued.
<1>17. ASSUME Chain, stdout PROVE cut = FALSE /\ b.off = size /\ End(b) = ro + k
  <2>0. cut = FALSE /\ Linked
    BY <1>1, <1>17, NotCut DEF FInv, Types
  <2>1. Joined(size, buf, ro)
    BY <1>1, <1>2, <2>0 DEF Linked
  <2>2. bo = size /\ bo + Len(bd) = ro
    BY <1>1, <1>2, <1>3, <2>1 DEF Joined
  <2>3. o = Len(bd) /\ Len(v) = o + k
    BY <1>3, <1>5, <1>7, <1>11, <2>2 DEF MaxOf
  <2>4. QED
    BY <1>3, <1>5, <1>7, <1>13, <2>0, <2>2, <2>3
<1>18. CASE Len(v) > Len(bd) /\ Len(v) # Cap
  <2>1. Keep(Input, b)
    BY <1>2, <1>10, <1>13, <1>18 DEF Merge
  <2>2. k = Len(rd) /\ u = <<>>
    <3>1. k = Len(rd)
      BY <1>3, <1>7, <1>11, <1>18 DEF MaxOf
    <3>2. Len(u) = 0
      BY <1>3, <1>11, <3>1
    <3>3. QED
      BY <1>11, <3>1, <3>2
  <2>3. ViewOK(want, content, size, Nothing, b, Nothing)
    BY <1>1, <1>14, <1>15, <2>2, NothingIs, ViewMove
  <2>4. Len(b.data) <= Cap /\ End(b) <= Len(want)
    BY <1>11, <1>13
  <2>5. ASSUME Chain, stdout PROVE cut = FALSE /\ Joined(size, b, pos)
    BY <1>3, <1>11, <1>13, <1>17, <2>2, <2>5 DEF Joined
  <2>6. QED
    BY <1>16, <2>1, <2>3, <2>4, <2>5, KeepOK
<1>19. CASE ~(Len(v) > Len(bd) /\ Len(v) # Cap)
  <2>1. Give(Input, k, b)
    BY <1>2, <1>6, <1>10, <1>13, <1>19 DEF Merge
  <2>2. ViewOK(want, content, size, b, Nothing, r)
    BY <1>1, <1>15, NothingIs, ViewMove
  <2>3. r = Chunk(Input.off + k, From(Input.data, k))
    BY <1>2, <1>10, <1>14
  <2>4. b.data # <<>> /\ End(b) <= Len(want) /\ k \in 0 .. Len(Input.data)
    BY <1>2, <1>11, <1>13
  <2>5. ViewOK(want, content, size, b, Nothing, Chunk(Input.off + k, From(Input.data, k)))
    BY <2>2, <2>3
  <2>6. FInv' /\ ((stdout => cut = FALSE /\ b.off = size /\ End(b) = Input.off + k) => Chain')
    BY <1>16, <2>1, <2>4, <2>5, GiveOK
  <2>7. QED
    BY <1>2, <1>17, <2>6
<1>20. QED
  BY <1>18, <1>19

LEMMA FwCacheOK == ASSUME Plain, FInv, FwCache PROVE FInv' /\ (Chain => Chain')
<1>1. pc = "loop" /\ ~wWrite
  BY DEF FwCache
<1>2. /\ InCall /\ Good /\ End(Input) = pos /\ pos <= Len(want) /\ pos = Input.off + Len(Input.data)
      /\ ViewOK(want, content, size, Nothing, buf, Input)
      /\ Len(want) \in Nat /\ size \in Nat /\ Len(Input.data) \in Nat
      /\ Len(buf.data) <= Cap /\ End(buf) <= Len(want)
      /\ stdout => Segment(Input) /\ Segment(buf)
  BY <1>1, AtCache
<1>3. /\ Input \in Chunks /\ buf \in Chunks /\ Input.off \in Nat /\ Input.data \in Seq(Bytes)
      /\ Cap \in Nat \ {0} /\ Input = Chunk(Input.off, Input.data)
  BY <1>2, Basics, Chunks_InCall DEF FInv, Types
<1>4. \/ Input.data = <<>> /\ Keep(Input, buf)
      \/ Bypasses(Input) /\ Give(Input, Len(Input.data), Input)
      \/ Input.data # <<>> /\ ~Bypasses(Input) /\ buf.data = <<>> /\ Keep(Input, Input)
      \/ Input.data # <<>> /\ Hits(Input) /\ Merge(Input)
      \/ buf.data # <<>> /\ Give(Input, 0, buf)
  BY DEF FwCache
<1>5. ASSUME Chain, stdout PROVE cut = FALSE /\ Joined(size, buf, Input.off)
  <2>1. cut = FALSE /\ Linked
    BY <1>1, <1>2, <1>5, NotCut DEF FInv, Types
  <2>2. QED
    BY <1>1, <1>2, <2>1 DEF Linked
<1>6. CASE Input.data = <<>> /\ Keep(Input, buf)
  <2>1. ViewOK(want, content, size, Nothing, buf, Nothing)
    BY <1>2, <1>3, <1>6, NothingIs, ViewMove
  <2>2. pos = Input.off
    BY <1>2, <1>3, <1>6
  <2>3. QED
    BY <1>1, <1>2, <1>3, <1>5, <1>6, <2>1, <2>2, KeepOK
<1>7. CASE Bypasses(Input) /\ Give(Input, Len(Input.data), Input)
  <2>1. Len(Input.data) >= Cap /\ buf.data = <<>>
    BY <1>7 DEF Bypasses
  <2>2. Input.data # <<>>
    BY <1>3, <2>1
  <2>3. ViewOK(want, content, size, Nothing, Input, Nothing)
    BY <1>2, <1>3, <2>1, NothingIs, ViewMove
  <2>4. ViewOK(want, content, size, Input, Nothing, Nothing)
    BY <1>2, <2>3, NothingIs, ViewMove
  <2>5. PICK r \in Chunks : r.data = <<>> /\ r = Chunk(Input.off + Len(Input.data), From(Input.data, Len(Input.data)))
    <3>1. From(Input.data, Len(Input.data)) = <<>>
      BY <1>3, FromEnds
    <3>2. PICK x \in Nat : x = Input.off + Len(Input.data)
      BY <1>2, <1>3
    <3>3. Chunk(x, <<>>) \in Chunks /\ Chunk(x, <<>>).data = <<>>
      BY DEF Chunk, Chunks
    <3>4. QED
      BY <3>1, <3>2, <3>3
  <2>6. ViewOK(want, content, size, Input, Nothing, r)
    <3>1. r.data = <<>> /\ Len(want) \in Nat
      BY <1>2, <2>5
    <3>2. ViewOK(want, content, size, Input, Nothing, Nothing) => ViewOK(want, content, size, Input, Nothing, r)
      BY <3>1, NothingIs, ViewMove
    <3>3. QED
      BY <2>4, <3>2
  <2>7. ViewOK(want, content, size, Input, Nothing,
               Chunk(Input.off + Len(Input.data), From(Input.data, Len(Input.data))))
    BY <2>5, <2>6
  <2>8. ASSUME Chain, stdout PROVE cut = FALSE /\ Input.off = size /\ End(Input) = Input.off + Len(Input.data)
    BY <1>2, <1>5, <2>1, <2>8 DEF Joined
  <2>9. End(Input) <= Len(want) /\ Len(Input.data) \in 0 .. Len(Input.data)
    BY <1>2
  <2>10. /\ FInv'
         /\ (stdout => cut = FALSE /\ Input.off = size /\ End(Input) = Input.off + Len(Input.data)) => Chain'
    BY <1>1, <1>2, <1>3, <1>7, <2>2, <2>7, <2>9, GiveOK
  <2>11. QED
    BY <2>8, <2>10
<1>8. CASE Input.data # <<>> /\ ~Bypasses(Input) /\ buf.data = <<>> /\ Keep(Input, Input)
  <2>1. Len(Input.data) <= Cap
    BY <1>2, <1>3, <1>8 DEF Bypasses
  <2>2. ViewOK(want, content, size, Nothing, Input, Nothing)
    BY <1>2, <1>3, <1>8, NothingIs, ViewMove
  <2>3. ASSUME Chain, stdout PROVE cut = FALSE /\ Joined(size, Input, pos)
    BY <1>2, <1>5, <1>8, <2>3 DEF Joined
  <2>4. QED
    BY <1>1, <1>2, <1>3, <1>8, <2>1, <2>2, <2>3, KeepOK
<1>9. CASE Input.data # <<>> /\ Hits(Input) /\ Merge(Input)
  BY <1>1, <1>9, MergeOK
<1>10. CASE buf.data # <<>> /\ Give(Input, 0, buf)
  <2>1. ViewOK(want, content, size, buf, Nothing, Input)
    BY <1>2, <1>3, NothingIs, ViewMove
  <2>2. Chunk(Input.off + 0, From(Input.data, 0)) = Input
    <3>1. From(Input.data, 0) = Input.data /\ Input.off + 0 = Input.off
      BY <1>3, FromEnds
    <3>2. QED
      BY <1>3, <3>1
  <2>3. ViewOK(want, content, size, buf, Nothing, Chunk(Input.off + 0, From(Input.data, 0)))
    BY <2>1, <2>2
  <2>4. ASSUME Chain, stdout PROVE cut = FALSE /\ buf.off = size /\ End(buf) = Input.off + 0
    BY <1>3, <1>5, <1>10, <2>4 DEF Joined
  <2>5. 0 \in 0 .. Len(Input.data)
    BY <1>2
  <2>6. FInv' /\ ((stdout => cut = FALSE /\ buf.off = size /\ End(buf) = Input.off + 0) => Chain')
    BY <1>1, <1>2, <1>3, <1>10, <2>3, <2>5, GiveOK
  <2>7. QED
    BY <2>4, <2>6
<1>11. QED
  BY <1>4, <1>6, <1>7, <1>8, <1>9, <1>10

-----------------------------------------------------------------------------
(***************************************************************************)
(* fw_write()                                                              *)
(***************************************************************************)
LEMMA PreallocateOK == ASSUME Plain, FInv, Preallocate PROVE FInv' /\ (Chain => Chain')
<1>1. PICK p : p = AlignPower2(OutChunk.off + Len(OutChunk.data))
  OBVIOUS
<1>2. /\ pc = "loop" /\ wWrite /\ ~noPrealloc /\ prealloc < OutChunk.off + Len(OutChunk.data) /\ prealloc' = p
      /\ \/ content' = Resize(content, p) /\ UNCHANGED noPrealloc
         \/ noPrealloc' = TRUE /\ UNCHANGED content
      /\ UNCHANGED <<stdout, size, curOff, cvars, pc, call, io, hvars>>
  BY <1>1, Basics DEF Preallocate, InFwWrite, Unallocated
<1>3. Types /\ Wants /\ Flags /\ Sizes
  BY DEF FInv
<1>4. InCall /\ InCall' /\ Good /\ Good' /\ continued
  BY <1>2, <1>3 DEF InCall, Good, Flags, hvars
<1>5. UNCHANGED <<buf, wWrite, continued, userData, async, wbuf, total, want, pos, failed, cut>>
  BY <1>2 DEF cvars, hvars
<1>6. OutChunk' = OutChunk /\ Input' = Input
  BY <1>2, <1>4, <1>5 DEF OutChunk, Input
<1>7. InTransit' = InTransit /\ Rest' = Rest
  BY <1>2, <1>4, <1>5, <1>6 DEF InTransit, Rest, InCall
\* The chunk's end is one of a file that the instance's callers can write.
<1>8. p \in Nat /\ prealloc < p /\ size <= Len(content) /\ size <= prealloc /\ Len(content) <= prealloc
      /\ size \in Nat /\ prealloc \in Nat
  <2>1. PICK e : e = OutChunk.off + Len(OutChunk.data)
    OBVIOUS
  <2>2. End(OutChunk) = e /\ End(OutChunk) <= Len(want) /\ Len(want) <= total
    BY <1>2, <1>3, <1>4, <2>1, Parts DEF Sizes, Wants, End
  <2>3. e \in Nat
    <3>1. OutChunk.off \in Nat /\ OutChunk.data \in Seq(Bytes)
      BY <1>2, <1>4, Chunks_InCall
    <3>2. QED
      BY <2>1, <3>1
  <2>4. prealloc < e /\ total \in Nat /\ total <= MaxBytes /\ prealloc \in Nat /\ size \in Nat
        /\ Len(want) \in Nat /\ MaxBytes \in Nat
    BY <1>2, <1>3, <2>1, Basics DEF Types
  <2>5. e \in 1 .. MaxBytes
    BY <2>2, <2>3, <2>4
  <2>6. AlignPower2(e) \in Nat /\ AlignPower2(e) >= e
    BY <2>5, FileAssumption
  <2>7. p \in Nat /\ p >= e
    BY <1>1, <2>1, <2>6
  <2>8. QED
    BY <1>3, <2>3, <2>4, <2>7 DEF Sizes
<1>9. ~stdout
  BY <1>2, <1>3 DEF Sizes
<1>10. /\ content' \in Seq(Bytes) /\ size <= Len(content') /\ Len(content') <= p
       /\ \A i \in 1 .. size : content'[i] = content[i]
  <2>1. content \in Seq(Bytes) /\ Hole \in Bytes
    BY <1>3 DEF Types, Bytes
  <2>2. CASE content' = Resize(content, p)
    <3>1. /\ Resize(content, p) \in Seq(Bytes) /\ Len(Resize(content, p)) = p
          /\ \A i \in 1 .. p : Resize(content, p)[i] = IF i <= Len(content) THEN content[i] ELSE Hole
      BY <1>8, <2>1, ResizeIs
    <3>2. \A i \in 1 .. size : i \in 1 .. p /\ i <= Len(content)
      BY <1>8, <2>1
    <3>3. QED
      BY <1>8, <2>2, <3>1, <3>2
  <2>3. CASE content' = content
    BY <1>8, <2>1, <2>3
  <2>4. QED
    BY <1>2, <2>2, <2>3
<1>11. Types'
  <2>1. noPrealloc' \in BOOLEAN /\ prealloc' \in Nat
    BY <1>2, <1>3, <1>8 DEF Types
  <2>2. QED
    BY <1>2, <1>3, <1>5, <1>10, <2>1 DEF Types
<1>12. Flags'
  BY <1>2, <1>3, <1>4, <1>5, <1>6 DEF Flags
<1>13. Flushing' /\ Chain'
  BY <1>2, <1>9 DEF Flushing, InFlush, Chain
<1>14. Wants' /\ Sizes' /\ View' /\ Pipe'
  <2>1. size <= prealloc' /\ Len(content') <= prealloc'
    BY <1>2, <1>8, <1>10
  <2>2. QED
    BY <1>2, <1>4, <1>5, <1>6, <1>7, <1>9, <1>10, <2>1, TailOK
<1>15. QED
  BY <1>11, <1>12, <1>13, <1>14 DEF FInv

\* The kernel takes the first k bytes of a chunk d at o: what a write does to the file.
LEMMA AcceptIs ==
  ASSUME Plain, FInv, NEW d \in Seq(Bytes), NEW o \in Nat, NEW k \in 1 .. Len(d), NEW c, c.off = o, c.data = d,
         Accept(c, k)
  PROVE  /\ content' \in Seq(Bytes) /\ size' \in Nat /\ prealloc' \in Nat
         /\ Merged(content, d, o, k, content', From(d, k))
         /\ size' = MaxOf(size, o + k)
         /\ size' <= Len(content') /\ size' <= prealloc' /\ Len(content') <= prealloc'
         /\ stdout => Len(content') = size'
<1>1. content \in Seq(Bytes) /\ size \in Nat /\ prealloc \in Nat /\ stdout \in BOOLEAN
  BY DEF FInv, Types
<1>2. size <= Len(content) /\ size <= prealloc /\ Len(content) <= prealloc /\ (stdout => Len(content) = size)
  BY DEF FInv, Sizes
<1>3. Merged(content, d, o, k, content', From(d, k))
  <2>1. Hole \in Bytes /\ k \in 0 .. Len(d) /\ k > 0
    BY DEF Bytes
  <2>2. PICK v : v = Overlay(content, o, SubSeq(d, 1, k), Hole)
    OBVIOUS
  <2>3. Merged(content, d, o, k, Overlay(content, o, SubSeq(d, 1, k), Hole), From(d, k))
    BY <1>1, <2>1, MergeBytes
  <2>4. content' = v
    BY <2>2 DEF Accept
  <2>5. QED
    BY <2>2, <2>3, <2>4
<1>4. content' \in Seq(Bytes) /\ Len(content') = MaxOf(Len(content), o + k)
  BY <1>3 DEF Merged
<1>5. size' = MaxOf(size, o + k)
  BY DEF Accept
<1>6. prealloc' = MaxOf(prealloc, o + (IF stdout THEN k ELSE Len(d)))
  BY DEF Accept
<1>7. CASE stdout
  <2>1. prealloc' = MaxOf(prealloc, o + k)
    BY <1>6, <1>7
  <2>2. Len(content) \in Nat /\ k \in Nat /\ Len(content) = size /\ size <= prealloc /\ size <= Len(content) /\ Len(content) <= prealloc
    BY <1>1, <1>2, <1>7
  <2>3. QED
    BY <1>1, <1>3, <1>4, <1>5, <2>1, <2>2 DEF MaxOf
<1>8. CASE ~stdout
  <2>1. prealloc' = MaxOf(prealloc, o + Len(d))
    BY <1>6, <1>8
  <2>2. Len(content) \in Nat /\ k \in Nat /\ Len(d) \in Nat /\ k <= Len(d)
    BY <1>1
  <2>3. QED
    BY <1>1, <1>2, <1>3, <1>4, <1>5, <1>8, <2>1, <2>2 DEF MaxOf
<1>9. QED
  BY <1>7, <1>8

\* The first n bytes of s are those of w from o on.
Agree(s, n, w, o) == \A i \in 1 .. n : s[i] = w[o + i]

\* A stream has its bytes in order after a write at its end.
LEMMA StreamOK ==
  ASSUME NEW w, NEW s, NEW n \in Nat, NEW d \in Seq(Bytes), NEW k \in 1 .. Len(d), NEW v, NEW u,
         Len(s) \in Nat, n <= Len(s), Merged(s, d, n, k, v, u),
         Agree(s, n, w, 0), Agree(d, Len(d), w, n)
  PROVE  Agree(v, n + k, w, 0) /\ Agree(u, Len(u), w, n + k)
<1>1. k \in Nat /\ k <= Len(d) /\ Len(d) \in Nat
  OBVIOUS
<1>2. /\ Len(u) = Len(d) - k
      /\ \A i \in 1 .. Len(d) - k : u[i] = d[k + i]
      /\ \A i \in 1 .. k : v[n + i] = d[i]
      /\ \A i \in 1 .. Len(s) : ~(n < i /\ i <= n + k) => v[i] = s[i]
  BY DEF Merged
<1>3. ASSUME NEW i \in 1 .. n + k PROVE v[i] = w[i]
  <2>1. CASE i <= n
    <3>1. i \in 1 .. n /\ i \in 1 .. Len(s) /\ ~(n < i /\ i <= n + k)
      BY <1>1, <2>1
    <3>2. v[i] = s[i] /\ s[i] = w[i]
      BY <1>2, <3>1 DEF Agree
    <3>3. QED
      BY <3>2
  <2>2. CASE n < i
    <3>1. i - n \in 1 .. k /\ i - n \in 1 .. Len(d) /\ n + (i - n) = i
      BY <1>1, <2>2
    <3>2. v[n + (i - n)] = d[i - n] /\ d[i - n] = w[n + (i - n)]
      BY <1>2, <3>1 DEF Agree
    <3>3. QED
      BY <3>1, <3>2
  <2>3. QED
    BY <1>1, <2>1, <2>2
<1>4. ASSUME NEW i \in 1 .. Len(u) PROVE u[i] = w[(n + k) + i]
  <2>1. i \in 1 .. Len(d) - k /\ k + i \in 1 .. Len(d) /\ n + (k + i) = (n + k) + i
    BY <1>1, <1>2
  <2>2. u[i] = d[k + i] /\ d[k + i] = w[n + (k + i)]
    BY <1>2, <2>1 DEF Agree
  <2>3. QED
    BY <2>1, <2>2
<1>5. QED
  BY <1>3, <1>4 DEF Agree

\* The kernel takes some or all bytes of the chunk.
LEMMA FwWriteAcceptedOK == ASSUME Plain, FInv, FwWriteAccepted PROVE FInv' /\ (Chain => Chain')
<1>1. PICK k \in 1 .. Len(OutChunk.data) :
        /\ pc = "loop" /\ wWrite /\ ~SeekError(OutChunk) /\ Accept(OutChunk, k)
        /\ IF k = Len(OutChunk.data) THEN TookAll(OutChunk) ELSE TookPart(OutChunk, k)
        /\ io' = Nothing
        /\ UNCHANGED <<stdout, noPrealloc, curOff, buf, continued, userData, hvars>>
  BY Basics DEF FwWriteAccepted, InFwWrite
<1>2. Types /\ Wants /\ Flags /\ Sizes /\ View /\ Pipe
  BY DEF FInv
<1>3. InCall /\ Good /\ continued /\ InTransit = OutChunk /\ Rest = Input /\ Input = Chunk(curOff, userData)
      /\ buf.data = <<>>
  BY <1>1, Parts DEF InCall
<1>4. UNCHANGED <<total, want, pos, failed, cut>>
  BY <1>1 DEF hvars
<1>5. PICK d \in Seq(Bytes), o \in Nat : d = OutChunk.data /\ o = OutChunk.off /\ OutChunk = Chunk(o, d)
  BY <1>1, <1>3, Chunks_InCall
<1>6. k \in 1 .. Len(d) /\ k \in Nat /\ Len(d) \in Nat /\ k <= Len(d) /\ End(OutChunk) = o + Len(d)
  BY <1>1, <1>5 DEF End
<1>7. /\ content' \in Seq(Bytes) /\ size' \in Nat /\ prealloc' \in Nat
      /\ Merged(content, d, o, k, content', From(d, k))
      /\ size' = MaxOf(size, o + k)
      /\ size' <= Len(content') /\ size' <= prealloc' /\ Len(content') <= prealloc'
      /\ stdout => Len(content') = size'
  <2>1. PICK c : c = OutChunk /\ c.off = o /\ c.data = d /\ Accept(c, k)
    BY <1>1, <1>5
  <2>2. QED
    BY <1>6, <2>1, AcceptIs
<1>8. PICK u \in Seq(Bytes) : u = From(d, k) /\ Len(u) = Len(d) - k /\ Merged(content, d, o, k, content', u)
  <2>1. From(d, k) \in Seq(Bytes) /\ Len(From(d, k)) = Len(d) - k
    BY <1>6, FromIs
  <2>2. QED
    BY <1>7, <2>1
<1>9. size \in Nat /\ Len(want) \in Nat /\ size <= Len(want) /\ o + Len(d) <= Len(want) /\ pos \in Nat
  BY <1>2, <1>3, <1>6, Basics DEF Sizes, Types
<1>10. size' <= Len(want)
  BY <1>6, <1>7, <1>9 DEF MaxOf
<1>11. ViewOK(want, content', size', Chunk(o + k, u), buf, Input)
  <2>1. ViewOK(want, content, size, Chunk(o, d), buf, Input)
    BY <1>2, <1>3, <1>5 DEF View
  <2>2. \A i \in 1 .. Len(want) : want[i] # Hole
    BY <1>2, FileAssumption DEF Wants, Hole
  <2>3. content \in Seq(Bytes) /\ want \in Seq(Bytes) /\ size \in 0 .. Len(content)
    BY <1>2, <1>9 DEF Types, Sizes
  <2>4. ViewOK(want, content', MaxOf(size, o + k), Chunk(o + k, u), buf, Input)
    BY <1>6, <1>8, <2>1, <2>2, <2>3, ViewAccept
  <2>5. QED
    BY <1>7, <2>4
<1>12. PICK t \in Chunks : t = Chunk(o + k, u) /\ t.off = o + k /\ t.data = u /\ End(t) = o + Len(d)
  <2>1. Chunk(o + k, u) \in Chunks /\ Chunk(o + k, u).off = o + k /\ Chunk(o + k, u).data = u
    BY <1>6 DEF Chunk, Chunks
  <2>2. (o + k) + Len(u) = o + Len(d)
    BY <1>6, <1>8
  <2>3. QED
    BY <2>1, <2>2 DEF End
<1>13. ViewOK(want, content', size', t, buf, Input)
  BY <1>11, <1>12
<1>14. /\ InCall' /\ Good' /\ pc' \notin InFlush /\ pc' \in {"loop", "async"}
       /\ async' \in BOOLEAN /\ wWrite' \in BOOLEAN /\ call' = call /\ wbuf' = t
       /\ k = Len(d) => ~async' /\ ~wWrite' /\ pc' = "loop"
       /\ k # Len(d) => async' /\ wWrite' /\ pc' = "async"
  <2>1. CASE k = Len(d)
    <3>1. TookAll(OutChunk)
      BY <1>1, <1>5, <2>1
    <3>2. o + Len(d) = o + k /\ u = <<>>
      BY <1>6, <1>8, <2>1
    <3>3. wbuf' = t
      BY <1>5, <1>12, <3>1, <3>2 DEF TookAll
    <3>4. async' = FALSE /\ wWrite' = FALSE /\ pc' = "loop" /\ call' = call
      BY <1>1, <3>1, Basics DEF TookAll
    <3>5. QED
      BY <2>1, <3>3, <3>4 DEF InCall, Good, InFlush
  <2>2. CASE k # Len(d)
    <3>1. TookPart(OutChunk, k)
      BY <1>1, <1>5, <2>2
    <3>2. wbuf' = t
      BY <1>5, <1>8, <1>12, <3>1 DEF TookPart
    <3>3. async' = TRUE /\ wWrite' = wWrite /\ pc' = "async" /\ call' = call
      BY <3>1 DEF TookPart
    <3>4. QED
      BY <1>1, <2>2, <3>2, <3>3 DEF InCall, Good, InFlush
  <2>3. QED
    BY <2>1, <2>2
<1>15. Input' = Input /\ Rest' = Input /\ (k # Len(d) => OutChunk' = t) /\ Nothing' = Nothing
       /\ InTransit' = IF k = Len(d) THEN Nothing ELSE t
  <2>1. Input' = Input /\ Rest' = Input'
    BY <1>1, <1>3, <1>14 DEF Input, Rest, InCall
  <2>2. k # Len(d) => OutChunk' = t
    BY <1>14 DEF OutChunk
  <2>3. Nothing' = Nothing
    BY DEF Nothing, Chunk
  <2>4. InTransit' = IF k = Len(d) THEN Nothing ELSE t
    BY <1>14, <2>2, <2>3, Basics DEF InTransit, InCall, NoCache
  <2>5. QED
    BY <2>1, <2>2, <2>3, <2>4
<1>16. k = Len(d) <=> t.data = <<>>
  BY <1>6, <1>8, <1>12
<1>17. Types'
  <2>1. Nothing \in [off : Nat \cup {-1}, data : Seq(Bytes)]
    BY DEF Nothing, Chunk
  <2>2. pc' \in Places
    BY <1>14 DEF Places
  <2>3. QED
    BY <1>1, <1>2, <1>4, <1>7, <1>14, <2>1, <2>2 DEF Types
<1>18. Wants'
  BY <1>2, <1>4 DEF Wants
<1>19. Flags'
  BY <1>1, <1>3, <1>14, <1>15, <1>16 DEF Flags, InGap
<1>20. Flushing'
  BY <1>14 DEF Flushing
<1>21. Sizes'
  <2>1. End(InTransit') <= Len(want')
    BY <1>4, <1>9, <1>12, <1>15, NothingIs
  <2>2. End(buf') <= Len(want') /\ End(Rest') <= Len(want') /\ End(Input') = pos'
    BY <1>1, <1>2, <1>3, <1>4, <1>15 DEF Sizes
  <2>3. size' <= Len(want') /\ (stdout' => noPrealloc' /\ Len(content') = size')
    BY <1>1, <1>2, <1>4, <1>7, <1>10 DEF Sizes
  <2>4. QED
    BY <1>7, <1>14, <2>1, <2>2, <2>3 DEF Sizes, End
<1>22. View'
  <2>1. ViewOK(want, content', size', InTransit', buf, Input)
    <3>1. CASE k = Len(d)
      <4>1. ViewOK(want, content', size', Nothing, buf, Input)
        BY <1>9, <1>13, <1>16, <3>1, NothingIs, ViewMove
      <4>2. QED
        BY <1>15, <3>1, <4>1
    <3>2. CASE k # Len(d)
      BY <1>13, <1>15, <3>2
    <3>3. QED
      BY <3>1, <3>2
  <2>2. PICK w, x, b, r : w = want' /\ x = InTransit' /\ b = buf' /\ r = Rest' /\ w = want /\ b = buf /\ r = Input
    BY <1>1, <1>4, <1>15
  <2>3. ViewOK(w, content', size', x, b, r)
    BY <2>1, <2>2
  <2>4. QED
    BY <2>2, <2>3 DEF View, ViewOK, Layered, Covers, Byte, End
<1>23. Pipe'
  <2>1. SUFFICES ASSUME stdout PROVE Pipe'
    BY <1>1 DEF Pipe
  <2>2. o = size
    BY <1>1, <1>5, <2>1 DEF SeekError
  <2>3. Agree(content, size, want, 0)
    BY <1>2, <1>9, <2>1 DEF Pipe, Agree
  <2>4. Agree(d, Len(d), want, size)
    <3>1. Segment(OutChunk)
      BY <1>2, <1>3, <2>1 DEF Pipe
    <3>2. \A i \in 1 .. Len(d) : d[i] = want[o + i]
      BY <1>5, <3>1 DEF Segment
    <3>3. QED
      BY <2>2, <3>2 DEF Agree
  <2>5. Agree(content', size + k, want, 0) /\ Agree(u, Len(u), want, size + k)
    <3>1. Len(content) \in Nat /\ size <= Len(content)
      BY <1>2, Basics DEF Sizes
    <3>2. Merged(content, d, size, k, content', u)
      BY <1>8, <2>2
    <3>3. QED
      BY <1>6, <1>9, <2>3, <2>4, <3>1, <3>2, StreamOK
  <2>6. size' = size + k
    BY <1>6, <1>7, <1>9, <2>2 DEF MaxOf
  <2>7. Segment(t)
    BY <1>9, <1>12, <2>2, <2>5 DEF Segment, Agree
  <2>8. Segment(InTransit)'
    <3>1. CASE k = Len(d)
      BY <1>4, <1>9, <1>15, <3>1, NothingIs DEF Segment
    <3>2. CASE k # Len(d)
      <4>1. InTransit' = t
        BY <1>15, <3>2
      <4>2. QED
        BY <1>4, <2>7, <4>1 DEF Segment, End
    <3>3. QED
      BY <3>1, <3>2
  <2>9. Segment(buf)'
    BY <1>1, <1>2, <1>4, <2>1 DEF Pipe, Segment, End
  <2>10. size' \in Nat /\ \A i \in 1 .. size' : content'[i] = want[i]
    BY <1>6, <1>9, <2>5, <2>6 DEF Agree
  <2>11. QED
    BY <1>1, <1>2, <1>4, <1>10, <2>1, <2>8, <2>9, <2>10 DEF Pipe
<1>24. Chain => Chain'
  <2>1. SUFFICES ASSUME Chain, stdout PROVE Chain'
    BY <1>1 DEF Chain
  <2>0. cut = FALSE /\ Linked
    BY <1>1, <1>2, <1>3, <2>1, NotCut DEF Types
  <2>2. o = size /\ o + Len(d) = Input.off
    BY <1>1, <1>3, <1>5, <1>6, <2>0 DEF Linked
  <2>3. size' = o + k
    BY <1>6, <1>7, <1>9, <2>2 DEF MaxOf
  <2>4. CASE k = Len(d)
    <3>1. Input'.off = size' /\ buf'.data = <<>> /\ ~wWrite'
      BY <1>1, <1>3, <1>14, <1>15, <2>2, <2>3, <2>4
    <3>2. Joined(size', buf', Input'.off)
      BY <3>1 DEF Joined
    <3>3. QED
      BY <1>4, <1>14, <2>0, <3>1, <3>2 DEF Chain, Linked, Joined, End
  <2>5. CASE k # Len(d)
    <3>1. OutChunk' = t /\ t.off = size' /\ End(t) = Input'.off /\ wWrite'
      BY <1>12, <1>14, <1>15, <2>2, <2>3, <2>5
    <3>2. OutChunk'.off = size' /\ End(OutChunk') = Input'.off
      BY <3>1
    <3>3. QED
      BY <1>4, <1>14, <2>0, <3>1, <3>2 DEF Chain, Linked, End
  <2>6. QED
    BY <2>4, <2>5
<1>25. QED
  BY <1>17, <1>18, <1>19, <1>20, <1>21, <1>22, <1>23, <1>24 DEF FInv

-----------------------------------------------------------------------------
(***************************************************************************)
(* file_flush(), file_behaviour() and file_close()                         *)
(***************************************************************************)
\* What file_flush() works on.
LEMMA AtFlush ==
  ASSUME Plain, FInv, pc \in InFlush
  PROVE  /\ ~InCall /\ InTransit = Nothing /\ Rest = Nothing
         /\ io \in Chunks /\ io = Chunk(io.off, io.data)
         /\ io.off \in Nat /\ io.data \in Seq(Bytes) /\ Len(io.data) \in Nat
         /\ buf.off \in Nat /\ Len(buf.data) \in Nat /\ buf.off <= io.off
         /\ io.off + Len(io.data) = buf.off + Len(buf.data)
         /\ \A i \in 1 .. Len(io.data) : io.data[i] = Byte(buf, io.off + i)
         /\ size \in Nat /\ size <= Len(content) /\ Len(content) \in Nat /\ Len(want) \in Nat
         /\ buf.off < io.off => io.off <= size
         /\ \A i \in buf.off + 1 .. io.off : content[i] = Byte(buf, i)
<1>1. Types /\ Flushing /\ Sizes
  BY DEF FInv
<1>2. ~InCall
  BY DEF InCall, InFlush
<1>3. io.off \in Nat /\ io \in [off : Nat \cup {-1}, data : Seq(Bytes)]
  BY <1>1 DEF Flushing, Types
<1>4. io \in Chunks /\ io = Chunk(io.off, io.data) /\ io.data \in Seq(Bytes) /\ Len(io.data) \in Nat
  BY <1>3 DEF Chunks, Chunk
<1>5. /\ buf.off <= io.off /\ io.off + Len(io.data) = buf.off + Len(buf.data)
      /\ \A i \in 1 .. Len(io.data) : io.data[i] = Byte(buf, io.off + i)
      /\ buf.off < io.off => io.off <= size
      /\ \A i \in buf.off + 1 .. io.off : content[i] = Byte(buf, i)
  BY <1>1, <1>3, Basics DEF Flushing, End
<1>6. size \in Nat /\ size <= Len(content)
  BY <1>1 DEF Types, Sizes
<1>7. QED
  BY <1>2, <1>3, <1>4, <1>5, <1>6, Parts, Basics

\* A layer that lies under another one as a whole is not seen.
LEMMA ViewUnder ==
  ASSUME NEW w, NEW s, NEW n, NEW t, NEW b, NEW r, NEW z \in Chunks, z.data = <<>>, Len(w) \in Nat,
         \A i \in 1 .. Len(w) : Covers(t, i) => Covers(b, i)
  PROVE  ViewOK(w, s, n, t, b, r) <=> ViewOK(w, s, n, z, b, r)
<1>1. \A i \in 1 .. Len(w) : ~Covers(z, i)
  BY CoversIs
<1>2. QED
  BY <1>1 DEF ViewOK, Layered

\* A part of the buffer goes to the kernel; what the callers see stays the same.
LEMMA FlushWritesOK ==
  ASSUME Plain, FInv, FlushWrites
  PROVE  FInv' /\ (Chain => Chain')
<1>1. PICK k \in 1 .. Len(io.data) :
        /\ pc \in InFlush /\ io.data # <<>> /\ ~SeekError(io)
        /\ Accept(io, k) /\ io' = Chunk(io.off + k, From(io.data, k))
        /\ UNCHANGED <<stdout, noPrealloc, curOff, cvars, pc, call, hvars>>
  BY DEF FlushWrites
<1>2. Types /\ Wants /\ Flags /\ Sizes /\ View /\ Pipe
  BY DEF FInv
<1>3. UNCHANGED <<buf, wWrite, continued, userData, async, wbuf, total, want, pos, failed, cut>>
  BY <1>1 DEF cvars, hvars
<1>4. PICK d \in Seq(Bytes), o \in Nat, bo \in Nat, n \in Nat :
        /\ d = io.data /\ o = io.off /\ bo = buf.off /\ n = Len(buf.data)
        /\ io = Chunk(o, d) /\ bo <= o /\ o + Len(d) = bo + n
  BY <1>1, AtFlush
<1>5. k \in 1 .. Len(d) /\ k \in Nat /\ Len(d) \in Nat /\ k <= Len(d) /\ bo <= o /\ o + Len(d) = bo + n
  BY <1>1, <1>4
<1>6. ~InCall /\ ~InCall' /\ InTransit = Nothing /\ Rest = Nothing /\ pc' \in InFlush
      /\ size \in Nat /\ size <= Len(content) /\ Len(content) \in Nat /\ Len(want) \in Nat
  BY <1>1, AtFlush DEF InCall
<1>7. Good' <=> Good
  BY <1>1, <1>3 DEF Good
<1>8. InTransit' = Nothing /\ Rest' = Nothing
  BY <1>6 DEF InTransit, Rest, InCall, Nothing, Chunk
<1>9. /\ content' \in Seq(Bytes) /\ size' \in Nat /\ prealloc' \in Nat
      /\ Merged(content, d, o, k, content', From(d, k))
      /\ size' = MaxOf(size, o + k)
      /\ size' <= Len(content') /\ size' <= prealloc' /\ Len(content') <= prealloc'
      /\ stdout => Len(content') = size'
  <2>1. PICK c : c = io /\ c.off = o /\ c.data = d /\ Accept(c, k)
    BY <1>1, <1>4
  <2>2. QED
    BY <1>5, <2>1, AcceptIs
<1>10. PICK u \in Seq(Bytes) : u = From(d, k) /\ Len(u) = Len(d) - k /\ Merged(content, d, o, k, content', u)
  <2>1. From(d, k) \in Seq(Bytes) /\ Len(From(d, k)) = Len(d) - k
    BY <1>5, FromIs
  <2>2. QED
    BY <1>9, <2>1
<1>11. PICK t \in Chunks : t = Chunk(o + k, u) /\ t.off = o + k /\ t.data = u /\ End(t) = o + Len(d)
  <2>1. Chunk(o + k, u) \in Chunks /\ Chunk(o + k, u).off = o + k /\ Chunk(o + k, u).data = u
    BY <1>5 DEF Chunk, Chunks
  <2>2. (o + k) + Len(u) = o + Len(d)
    BY <1>5, <1>10
  <2>3. QED
    BY <2>1, <2>2 DEF End
<1>12. io' = t
  BY <1>1, <1>4, <1>10, <1>11
<1>13. \A i \in 1 .. Len(d) : d[i] = Byte(buf, o + i)
  BY <1>1, <1>4, AtFlush
<1>14. Types'
  <2>1. t \in [off : Nat \cup {-1}, data : Seq(Bytes)]
    BY DEF Chunks
  <2>2. QED
    BY <1>1, <1>2, <1>3, <1>9, <1>12, <2>1 DEF Types
<1>15. Wants'
  BY <1>2, <1>3 DEF Wants
<1>16. Flags'
  <2>1. pc' = pc /\ pc \notin {"async", "loop", "error", "closed"}
    BY <1>1 DEF InFlush
  <2>2. stdout' = stdout
    BY <1>1
  <2>3. QED
    BY <1>2, <1>3, <1>6, <1>7, <2>1, <2>2 DEF Flags
<1>17. Flushing'
  <2>1. t.off \in Nat /\ t.off >= bo /\ t.off <= size' /\ End(t) = End(buf)
    <3>1. End(buf) = bo + n
      BY <1>4 DEF End
    <3>2. o + k <= size'
      BY <1>5, <1>6, <1>9 DEF MaxOf
    <3>3. QED
      BY <1>5, <1>11, <3>1, <3>2
  <2>2. ASSUME NEW i \in 1 .. Len(t.data) PROVE t.data[i] = Byte(buf, t.off + i)
    <3>1. i \in 1 .. Len(d) - k /\ k + i \in 1 .. Len(d) /\ o + (k + i) = (o + k) + i
      BY <1>5, <1>10, <1>11
    <3>2. u[i] = d[k + i]
      BY <1>10, <3>1 DEF Merged
    <3>3. d[k + i] = Byte(buf, o + (k + i))
      BY <1>13, <3>1
    <3>4. QED
      BY <1>11, <3>1, <3>2, <3>3
  <2>3. ASSUME NEW i \in bo + 1 .. t.off PROVE content'[i] = Byte(buf, i)
    <3>1. CASE i <= o
      <4>1. i \in bo + 1 .. o /\ bo < o
        BY <3>1
      <4>2. content[i] = Byte(buf, i) /\ o <= size
        BY <1>1, <1>4, <4>1, AtFlush
      <4>3. i \in 1 .. Len(content) /\ ~(o < i /\ i <= o + k)
        BY <1>6, <3>1, <4>2
      <4>4. content'[i] = content[i]
        BY <1>10, <4>3 DEF Merged
      <4>5. QED
        BY <4>2, <4>4
    <3>2. CASE o < i
      <4>1. i - o \in 1 .. k /\ i - o \in 1 .. Len(d) /\ o + (i - o) = i
        BY <1>5, <1>11, <3>2
      <4>2. content'[o + (i - o)] = d[i - o]
        BY <1>10, <4>1 DEF Merged
      <4>3. d[i - o] = Byte(buf, o + (i - o))
        BY <1>13, <4>1
      <4>4. QED
        BY <4>1, <4>2, <4>3
    <3>3. QED
      BY <1>5, <1>11, <3>1, <3>2
  <2>4. PICK b : b = buf /\ b = buf' /\ bo = b.off
    BY <1>3, <1>4
  <2>5. End(io)' = End(buf)'
    BY <1>12, <2>1, <2>4 DEF End
  <2>6. \A i \in 1 .. Len(io'.data) : io'.data[i] = Byte(buf', io'.off + i)
    BY <1>12, <2>2, <2>4
  <2>7. \A i \in buf'.off + 1 .. io'.off : content'[i] = Byte(buf', i)
    BY <1>12, <2>3, <2>4
  <2>8. io'.off \in Nat /\ io'.off >= buf'.off /\ io'.off <= size'
    BY <1>12, <2>1, <2>4
  <2>9. QED
    BY <2>5, <2>6, <2>7, <2>8 DEF Flushing, Byte
<1>18. ASSUME Good \/ stdout PROVE End(buf) <= Len(want) /\ size <= Len(want) /\ size' <= Len(want)
  <2>1. End(buf) <= Len(want) /\ size <= Len(want)
    BY <1>2, <1>18 DEF Sizes, Pipe, Segment
  <2>2. End(buf) = bo + n
    BY <1>4 DEF End
  <2>3. o + k <= Len(want)
    BY <1>5, <1>6, <2>1, <2>2
  <2>4. QED
    BY <1>6, <1>9, <2>1, <2>3 DEF MaxOf
<1>19. Sizes'
  <2>1. Good' => End(buf') <= Len(want') /\ End(InTransit') <= Len(want') /\ End(Rest') <= Len(want')
                 /\ size' <= Len(want')
    BY <1>3, <1>6, <1>7, <1>8, <1>18, NothingIs
  <2>2. Good' => curOff' = pos'
    BY <1>1, <1>2, <1>3, <1>6, <1>7 DEF Sizes
  <2>3. stdout' => noPrealloc' /\ Len(content') = size'
    BY <1>1, <1>2, <1>9 DEF Sizes
  <2>4. QED
    BY <1>6, <1>9, <2>1, <2>2, <2>3 DEF Sizes, End
<1>20. View'
  <2>1. SUFFICES ASSUME Good' PROVE View'
    BY DEF View
  <2>2. ViewOK(want, content, size, Nothing, buf, Nothing)
    BY <1>2, <1>6, <1>7, <2>1 DEF View
  <2>3. ASSUME NEW i \in 1 .. Len(want)
        PROVE  /\ Covers(io, i) => Covers(buf, i)
               /\ Covers(t, i) => Covers(buf, i)
    <3>1. End(buf) = bo + n /\ End(io) = bo + n /\ End(t) = bo + n
      <4>1. End(t) = bo + n
        BY <1>4, <1>11
      <4>2. End(buf) = bo + n /\ End(io) = bo + n
        BY <1>4 DEF End
      <4>3. QED
        BY <4>1, <4>2
    <3>2. PICK a, b, c, e : a = io.off /\ b = t.off /\ c = buf.off /\ e = bo + n
      OBVIOUS
    <3>3. a \in Nat /\ b \in Nat /\ c \in Nat /\ c <= a /\ a <= b
      <4>1. a = o /\ b = o + k /\ c = bo
        BY <1>4, <1>11, <3>2
      <4>2. QED
        BY <1>5, <4>1
    <3>4. i \in Int /\ (a < i => c < i) /\ (b < i => c < i)
      BY <3>3
    <3>5. /\ Covers(io, i) <=> a < i /\ i <= e
          /\ Covers(t, i) <=> b < i /\ i <= e
          /\ Covers(buf, i) <=> c < i /\ i <= e
      BY <3>1, <3>2 DEF Covers
    <3>6. QED
      BY <3>4, <3>5
  <2>4. ViewOK(want, content, size, io, buf, Nothing)
    BY <1>6, <2>2, <2>3, NothingIs, ViewUnder
  <2>5. ViewOK(want, content, size, Chunk(o, d), buf, Nothing)
    BY <1>4, <2>4
  <2>6. \A i \in 1 .. Len(want) : want[i] # Hole
    BY <1>2, FileAssumption DEF Wants, Hole
  <2>7. content \in Seq(Bytes) /\ want \in Seq(Bytes) /\ size \in 0 .. Len(content)
    BY <1>2, <1>6 DEF Types
  <2>8. ViewOK(want, content', MaxOf(size, o + k), Chunk(o + k, u), buf, Nothing)
    BY <1>5, <1>10, <2>5, <2>6, <2>7, ViewAccept
  <2>9. ViewOK(want, content', size', t, buf, Nothing)
    BY <1>9, <1>11, <2>8
  <2>10. ViewOK(want, content', size', Nothing, buf, Nothing)
    BY <1>6, <2>3, <2>9, NothingIs, ViewUnder
  <2>11. PICK w, x, b, r : w = want' /\ x = InTransit' /\ b = buf' /\ r = Rest'
                           /\ w = want /\ x = Nothing /\ b = buf /\ r = Nothing
    BY <1>3, <1>8
  <2>12. ViewOK(w, content', size', x, b, r)
    BY <2>10, <2>11
  <2>13. QED
    BY <2>11, <2>12 DEF View, ViewOK, Layered, Covers, Byte, End
<1>21. Pipe'
  <2>1. SUFFICES ASSUME stdout PROVE Pipe'
    BY <1>1 DEF Pipe
  <2>2. o = size
    BY <1>1, <1>4, <2>1 DEF SeekError
  <2>3. Agree(content, size, want, 0)
    BY <1>2, <1>6, <2>1 DEF Pipe, Agree
  <2>4. Agree(d, Len(d), want, size)
    <3>1. \A i \in 1 .. n : buf.data[i] = want[bo + i]
      BY <1>2, <1>4, <2>1 DEF Pipe, Segment
    <3>2. ASSUME NEW i \in 1 .. Len(d) PROVE d[i] = want[size + i]
      <4>1. (o + i) - bo \in 1 .. n /\ bo + ((o + i) - bo) = size + i
        BY <1>5, <2>2
      <4>2. d[i] = buf.data[(o + i) - bo]
        BY <1>4, <1>13 DEF Byte
      <4>3. QED
        BY <3>1, <4>1, <4>2
    <3>3. QED
      BY <3>2 DEF Agree
  <2>5. Agree(content', size + k, want, 0)
    <3>1. Merged(content, d, size, k, content', u)
      BY <1>10, <2>2
    <3>2. QED
      BY <1>5, <1>6, <2>3, <2>4, <3>1, StreamOK
  <2>6. size' = size + k
    BY <1>5, <1>6, <1>9, <2>2 DEF MaxOf
  <2>7. \A i \in 1 .. size' : content'[i] = want[i]
    BY <1>5, <1>6, <2>5, <2>6 DEF Agree
  <2>8. Segment(buf)'
    BY <1>2, <1>3, <2>1 DEF Pipe, Segment, End
  <2>9. Segment(InTransit)'
    BY <1>3, <1>6, <1>8, NothingIs DEF Segment
  <2>10. QED
    BY <1>2, <1>3, <1>18, <2>1, <2>7, <2>8, <2>9 DEF Pipe
<1>22. ASSUME Chain PROVE Chain'
  <2>1. SUFFICES ASSUME stdout, Good PROVE Chain'
    BY <1>1, <1>7 DEF Chain
  <2>2. o = size
    BY <1>1, <1>4, <2>1 DEF SeekError
  <2>3. cut = FALSE /\ Linked
    <3>1. ~(io = buf /\ buf.off < size) /\ pc # "flushed"
      BY <1>1, <1>4, <1>6, <2>2 DEF InFlush
    <3>2. QED
      BY <1>2, <1>22, <2>1, <3>1, NotCut DEF Types
  <2>4. o + Len(d) = pos
    <3>1. Joined(size, io, pos)
      BY <1>1, <2>3 DEF Linked
    <3>2. QED
      BY <1>1, <1>4, <3>1 DEF Joined, End
  <2>5. size' = o + k
    BY <1>5, <1>6, <1>9, <2>2 DEF MaxOf
  <2>6. Joined(size', t, pos')
    <3>1. t.data = <<>> => k = Len(d)
      BY <1>5, <1>10, <1>11
    <3>2. QED
      BY <1>3, <1>11, <2>4, <2>5, <3>1 DEF Joined
  <2>7. Linked'
    BY <1>6, <1>12, <2>6 DEF Linked, Joined, End
  <2>8. QED
    BY <1>3, <2>3, <2>7 DEF Chain
<1>23. QED
  BY <1>14, <1>15, <1>16, <1>17, <1>19, <1>20, <1>21, <1>22 DEF FInv

\* What prealloc_trunc() leaves, and where the callers of file_flush() are then.
LEMMA EndsIs ==
  ASSUME Plain, FInv, pc \in InFlush, NEW ok \in BOOLEAN, FlushEnds(ok), size' = size
  PROVE  /\ content' \in Seq(Bytes) /\ prealloc' \in Nat /\ failed' \in BOOLEAN
         /\ call' \in [off : Nat \cup {-1}, data : Seq(Bytes)] /\ io' = Nothing
         /\ size <= Len(content') /\ size <= prealloc' /\ Len(content') <= prealloc'
         /\ stdout => Len(content') = size
         /\ \A i \in 1 .. size : content'[i] = content[i]
         /\ pc = "flush" => failed' = failed
         /\ pc # "flush" => /\ pc' = IF pc = "trunc" THEN "idle" ELSE "closed"
                            /\ failed' \/ (~failed /\ ok /\ prealloc' = size)
<1>1. /\ content \in Seq(Bytes) /\ size \in Nat /\ prealloc \in Nat /\ failed \in BOOLEAN
      /\ call \in [off : Nat \cup {-1}, data : Seq(Bytes)]
      /\ Nothing \in [off : Nat \cup {-1}, data : Seq(Bytes)] /\ Len(content) \in Nat
  BY DEF FInv, Types, Nothing, Chunk
<1>2. size <= Len(content) /\ size <= prealloc /\ Len(content) <= prealloc /\ (stdout => Len(content) = size)
  BY DEF FInv, Sizes
<1>3. io' = Nothing /\ call' \in {call, Nothing}
      /\ (pc # "flush" => pc' = IF pc = "trunc" THEN "idle" ELSE "closed")
  BY DEF FlushEnds
<1>4. \/ content' = content /\ prealloc' = prealloc
         /\ \/ pc = "flush" /\ failed' = failed
            \/ pc # "flush" /\ ~TailLeft /\ failed' = (failed \/ ~ok)
            \/ pc # "flush" /\ failed' = TRUE
      \/ pc # "flush" /\ content' = Resize(content, size) /\ prealloc' = size /\ failed' = (failed \/ ~ok)
  BY DEF FlushEnds
<1>5. CASE content' = content /\ prealloc' = prealloc
  <2>1. ~TailLeft => prealloc' = size
    BY <1>1, <1>2, <1>5 DEF TailLeft
  <2>2. /\ failed' \in BOOLEAN /\ (pc = "flush" => failed' = failed)
        /\ pc # "flush" => failed' \/ (~failed /\ ok /\ prealloc' = size)
    <3>1. CASE pc = "flush" /\ failed' = failed
      BY <1>1, <3>1
    <3>2. CASE pc # "flush" /\ ~TailLeft /\ failed' = (failed \/ ~ok)
      BY <1>1, <2>1, <3>2
    <3>3. CASE pc # "flush" /\ failed' = TRUE
      BY <3>3
    <3>4. CASE pc # "flush" /\ prealloc' = size /\ failed' = (failed \/ ~ok)
      BY <1>1, <3>4
    <3>5. QED
      BY <1>4, <3>1, <3>2, <3>3, <3>4
  <2>3. QED
    BY <1>1, <1>2, <1>3, <1>5, <2>2
<1>6. CASE pc # "flush" /\ content' = Resize(content, size) /\ prealloc' = size /\ failed' = (failed \/ ~ok)
  <2>1. /\ content' \in Seq(Bytes) /\ Len(content') = size
        /\ \A i \in 1 .. size : content'[i] = IF i <= Len(content) THEN content[i] ELSE Hole
    <3>1. Hole \in Bytes
      BY DEF Bytes
    <3>2. /\ Resize(content, size) \in Seq(Bytes) /\ Len(Resize(content, size)) = size
          /\ \A i \in 1 .. size : Resize(content, size)[i] = IF i <= Len(content) THEN content[i] ELSE Hole
      BY <1>1, <3>1, ResizeIs
    <3>3. QED
      BY <1>6, <3>2
  <2>2. \A i \in 1 .. size : content'[i] = content[i]
    BY <1>1, <1>2, <2>1
  <2>3. failed' \in BOOLEAN /\ (failed' \/ (~failed /\ ok))
    BY <1>1, <1>6
  <2>4. QED
    BY <1>1, <1>2, <1>3, <1>6, <2>1, <2>2, <2>3
<1>7. QED
  BY <1>4, <1>5, <1>6

\* When a part of the buffer is written, the buffer begins before what is left.
LEMMA PartIsBehind ==
  ASSUME Plain, FInv, pc \in InFlush, io.data # <<>>, io # buf
  PROVE  buf.data # <<>> /\ buf.off < io.off
<1>1. PICK d \in Seq(Bytes), o \in Nat, e \in Seq(Bytes), bo \in Nat :
        /\ d = io.data /\ o = io.off /\ io = Chunk(o, d)
        /\ e = buf.data /\ bo = buf.off /\ buf = Chunk(bo, e)
        /\ bo <= o /\ o + Len(d) = bo + Len(e)
  BY AtFlush, Basics
<1>2. \A i \in 1 .. Len(d) : d[i] = e[(o + i) - bo]
  BY <1>1, AtFlush DEF Byte
<1>3. Len(d) \in Nat \ {0} /\ Len(e) \in Nat
  BY <1>1
<1>4. Len(e) >= Len(d) /\ (o = bo => Len(e) = Len(d))
  <2>1. bo \in Nat /\ o \in Nat /\ bo <= o /\ o + Len(d) = bo + Len(e)
    BY <1>1
  <2>2. QED
    BY <1>3, <2>1
<1>5. ASSUME o = bo PROVE FALSE
  <2>1. \A i \in 1 .. Len(d) : (o + i) - bo = i
    BY <1>1, <1>3, <1>5
  <2>2. Len(e) = Len(d) /\ \A i \in 1 .. Len(d) : d[i] = e[i]
    BY <1>2, <1>4, <1>5, <2>1
  <2>3. d = e
    BY <2>2
  <2>4. QED
    BY <1>1, <1>5, <2>3
<1>6. QED
  BY <1>1, <1>3, <1>4, <1>5

\* file_flush() returns with bytes left in the buffer: ASYNC or ERR.
LEMMA FlushStopsOK ==
  ASSUME Plain, FInv, FlushAgain \/ FlushFails
  PROVE  FInv' /\ (Chain => Chain')
<1>1. pc \in InFlush /\ io.data # <<>>
  BY DEF FlushAgain, FlushFails
<1>2. UNCHANGED <<stdout, size, curOff, noPrealloc, cvars, total, want, pos>>
  BY DEF FlushAgain, FlushFails
<1>3. Types /\ Wants /\ Flags /\ Sizes
  BY DEF FInv
<1>4. ~InCall /\ InTransit = Nothing /\ Rest = Nothing
  BY <1>1, AtFlush
<1>5. /\ content' \in Seq(Bytes) /\ prealloc' \in Nat /\ failed' \in BOOLEAN
      /\ call' \in [off : Nat \cup {-1}, data : Seq(Bytes)] /\ io' = Nothing
      /\ size <= Len(content') /\ size <= prealloc' /\ Len(content') <= prealloc'
      /\ stdout => Len(content') = size
      /\ \A i \in 1 .. size : content'[i] = content[i]
      /\ \/ pc = "flush" /\ pc' = "flushed" /\ failed' = failed
         \/ pc = "flush" /\ pc' = "error" /\ failed'
         \/ pc = "trunc" /\ pc' = "idle"
         \/ pc' = "closed" /\ failed'
  <2>1. CASE FlushFails /\ pc = "flush"
    <3>1. /\ pc' = "error" /\ io' = Nothing /\ failed' = TRUE
          /\ content' = content /\ prealloc' = prealloc /\ call' = call
      BY <2>1 DEF FlushFails
    <3>2. content' \in Seq(Bytes) /\ prealloc' \in Nat /\ call' \in [off : Nat \cup {-1}, data : Seq(Bytes)]
      BY <1>3, <3>1 DEF Types
    <3>3. /\ size <= Len(content') /\ size <= prealloc' /\ Len(content') <= prealloc'
          /\ stdout => Len(content') = size
      BY <1>3, <3>1 DEF Sizes
    <3>4. QED
      BY <2>1, <3>1, <3>2, <3>3
  <2>2. CASE FlushEnds(FALSE) /\ (pc = "flush" => pc' = "flushed")
    <3>1. size' = size
      BY <1>2
    <3>2. /\ content' \in Seq(Bytes) /\ prealloc' \in Nat /\ failed' \in BOOLEAN
          /\ call' \in [off : Nat \cup {-1}, data : Seq(Bytes)] /\ io' = Nothing
          /\ size <= Len(content') /\ size <= prealloc' /\ Len(content') <= prealloc'
          /\ stdout => Len(content') = size
          /\ \A i \in 1 .. size : content'[i] = content[i]
          /\ pc = "flush" => failed' = failed
          /\ pc # "flush" => /\ pc' = IF pc = "trunc" THEN "idle" ELSE "closed"
                             /\ failed'
      BY <1>1, <2>2, <3>1, EndsIs
    <3>3. \/ pc = "flush" /\ pc' = "flushed" /\ failed' = failed
          \/ pc = "trunc" /\ pc' = "idle"
          \/ pc' = "closed" /\ failed'
      BY <2>2, <3>2
    <3>4. QED
      BY <3>2, <3>3
  <2>3. QED
    BY <2>1, <2>2 DEF FlushAgain, FlushFails
<1>6. UNCHANGED <<buf, wWrite, continued, userData, async, wbuf>>
  BY <1>2 DEF cvars
<1>7. ~InCall' /\ pc' \notin InFlush /\ pc' \in Places
  BY <1>5 DEF InCall, InFlush, Places
<1>8. Good' => pc' \in {"flushed", "idle"} /\ Good
  BY <1>5 DEF Good
<1>9. InTransit' = InTransit /\ Rest' = Rest
  BY <1>4, <1>7 DEF InTransit, Rest, InCall, Nothing, Chunk
<1>10. Types'
  <2>1. Nothing \in [off : Nat \cup {-1}, data : Seq(Bytes)]
    BY DEF Nothing, Chunk
  <2>2. cut' \in BOOLEAN
    BY <1>2, <1>3 DEF FlushAgain, FlushFails, Types
  <2>3. QED
    BY <1>2, <1>3, <1>5, <1>6, <1>7, <2>1, <2>2 DEF Types
<1>11. Flags'
  <2>1. pc' # "async" /\ pc' # "loop" /\ pc' # "trunc" /\ (pc' \in {"error", "closed"} => failed')
    BY <1>5, <1>7 DEF InCall, InFlush
  <2>2. QED
    BY <1>3, <1>4, <1>6, <1>7, <1>8, <2>1 DEF Flags
<1>12. Flushing'
  BY <1>7 DEF Flushing
<1>13. Wants' /\ Sizes' /\ View' /\ Pipe'
  <2>1. stdout => noPrealloc' /\ Len(content') = size
    BY <1>2, <1>3, <1>5 DEF Sizes
  <2>2. QED
    BY <1>2, <1>4, <1>5, <1>6, <1>7, <1>8, <1>9, <2>1, TailOK
<1>14. Chain => Chain'
  <2>1. SUFFICES ASSUME Chain, stdout, Good' PROVE Chain'
    BY <1>2 DEF Chain
  <2>2. /\ FlushAgain /\ pc = "flush" /\ pc' = "flushed" /\ Good
        /\ io.off = size /\ cut' = (cut \/ io # buf)
    <3>1. pc' = "flushed" /\ pc = "flush"
      BY <1>1, <1>3, <1>5, <1>8, <2>1 DEF Flags, InFlush
    <3>2. FlushAgain
      BY <3>1 DEF FlushFails
    <3>3. QED
      BY <1>8, <2>1, <3>1, <3>2 DEF FlushAgain, SeekError
  <2>3. cut = FALSE /\ Linked
    <3>1. ~(io = buf /\ buf.off < size) /\ size \in Nat
      BY <1>3, <2>2 DEF Types
    <3>2. QED
      BY <1>3, <2>1, <2>2, <3>1, NotCut DEF Types
  <2>4. Joined(size, io, pos)
    BY <1>1, <2>3 DEF Linked
  <2>5. CASE io = buf
    <3>1. Joined(size, buf, pos)'
      BY <1>2, <1>6, <2>4, <2>5 DEF Joined, End
    <3>2. Linked'
      BY <1>7, <3>1 DEF Linked
    <3>3. QED
      BY <2>2, <2>3, <2>5, <3>2 DEF Chain
  <2>6. CASE io # buf
    <3>1. buf.off < size /\ buf.data # <<>>
      BY <1>1, <2>2, <2>6, PartIsBehind
    <3>2. QED
      BY <1>2, <1>6, <2>2, <2>6, <3>1 DEF Chain, Broken
  <2>7. QED
    BY <2>5, <2>6
<1>15. QED
  BY <1>10, <1>11, <1>12, <1>13, <1>14 DEF FInv

\* All of the buffer is written.
LEMMA FlushDoneOK == ASSUME Plain, FInv, FlushDone PROVE FInv' /\ (Chain => Chain')
<1>1. /\ pc \in InFlush /\ io.data = <<>> /\ buf' = Nothing /\ FlushEnds(TRUE)
      /\ (pc = "flush" => pc' = "idle")
      /\ UNCHANGED <<stdout, size, curOff, noPrealloc, wWrite, continued, userData, async, wbuf, total, want, pos, cut>>
  BY DEF FlushDone
<1>2. Types /\ Wants /\ Flags /\ Sizes /\ View
  BY DEF FInv
<1>3. ~InCall /\ InTransit = Nothing /\ Rest = Nothing
  BY <1>1, AtFlush
<1>4. /\ content' \in Seq(Bytes) /\ prealloc' \in Nat /\ failed' \in BOOLEAN
      /\ call' \in [off : Nat \cup {-1}, data : Seq(Bytes)] /\ io' = Nothing
      /\ size <= Len(content') /\ size <= prealloc' /\ Len(content') <= prealloc'
      /\ stdout => Len(content') = size
      /\ \A i \in 1 .. size : content'[i] = content[i]
      /\ pc = "flush" => failed' = failed
      /\ pc # "flush" => /\ pc' = IF pc = "trunc" THEN "idle" ELSE "closed"
                         /\ failed' \/ (~failed /\ prealloc' = size)
  <2>1. size' = size
    BY <1>1
  <2>2. QED
    BY <1>1, <2>1, EndsIs
<1>5. \/ pc \in {"flush", "trunc"} /\ pc' = "idle"
      \/ pc' = "closed" /\ (failed' \/ (~failed /\ prealloc' = size))
  BY <1>1, <1>4
<1>6. ~InCall' /\ pc' \notin InFlush /\ pc' \in Places
  BY <1>5 DEF InCall, InFlush, Places
<1>7. Good' => Good
  BY <1>5 DEF Good
<1>8. InTransit' = InTransit /\ Rest' = Rest
  BY <1>3, <1>6 DEF InTransit, Rest, InCall, Nothing, Chunk
<1>9. Types'
  <2>1. Nothing \in [off : Nat \cup {-1}, data : Seq(Bytes)]
    BY DEF Nothing, Chunk
  <2>2. buf' \in Chunks /\ Len(buf'.data) <= Cap
    BY <1>1, NothingIs, FileAssumption
  <2>3. QED
    BY <1>1, <1>2, <1>4, <1>6, <2>1, <2>2 DEF Types
<1>10. Flags'
  <2>1. Nothing' = Nothing
    BY DEF Nothing, Chunk
  <2>2. pc' # "async" /\ pc' # "loop" /\ pc' # "error" /\ (pc' = "closed" => failed' \/ (buf' = Nothing' /\ prealloc' = size'))
    BY <1>1, <1>5, <2>1
  <2>3. pc' # "trunc"
    BY <1>6 DEF InFlush
  <2>4. QED
    BY <1>1, <1>2, <1>3, <1>6, <1>7, <2>2, <2>3 DEF Flags
<1>11. Flushing'
  BY <1>6 DEF Flushing
\* The kernel has what the buffer held.
<1>12. Good => ViewOK(want, content, size, Nothing, Nothing, Nothing)
  <2>1. SUFFICES ASSUME Good PROVE ViewOK(want, content, size, Nothing, Nothing, Nothing)
    OBVIOUS
  <2>2. ViewOK(want, content, size, Nothing, buf, Nothing)
    BY <1>2, <1>3, <2>1 DEF View
  <2>3. PICK bo \in Nat, o \in Nat : bo = buf.off /\ o = io.off /\ End(buf) = o /\ (bo < o => o <= size)
    <3>1. Len(io.data) = 0
      BY <1>1
    <3>2. QED
      BY <1>1, <3>1, AtFlush DEF End
  <2>4. \A i \in bo + 1 .. o : content[i] = Byte(buf, i)
    BY <1>1, <2>3, AtFlush
  <2>5. ASSUME NEW i \in 1 .. Len(want)
        PROVE  Layered(content, size, Nothing, Nothing, Nothing, i) = Layered(content, size, Nothing, buf, Nothing, i)
    <3>1. ~Covers(Nothing, i)
      BY NothingIs, CoversIs
    <3>2. CASE Covers(buf, i)
      <4>1. i \in bo + 1 .. o /\ bo < o
        BY <2>3, <3>2 DEF Covers
      <4>2. size \in Nat
        BY <1>2 DEF Types
      <4>3. i <= size
        BY <2>3, <4>1, <4>2
      <4>4. content[i] = Byte(buf, i)
        BY <2>4, <4>1
      <4>5. QED
        BY <3>1, <3>2, <4>3, <4>4 DEF Layered
    <3>3. CASE ~Covers(buf, i)
      BY <3>1, <3>3 DEF Layered
    <3>4. QED
      BY <3>2, <3>3
  <2>6. QED
    BY <2>2, <2>5 DEF ViewOK
<1>13. Wants' /\ Sizes' /\ View' /\ Pipe'
  <2>1. stdout => noPrealloc' /\ Len(content') = size
    BY <1>1, <1>2, <1>4 DEF Sizes
  <2>2. buf' = Nothing /\ (Good => ViewOK(want, content, size, InTransit, Nothing, Rest))
    BY <1>1, <1>3, <1>12
  <2>3. QED
    BY <1>1, <1>3, <1>4, <1>6, <1>7, <1>8, <2>1, <2>2, TailOK
<1>14. Chain => Chain'
  <2>1. SUFFICES ASSUME Chain, stdout, Good' PROVE Chain'
    BY <1>1 DEF Chain
  <2>2. cut = FALSE /\ Linked
    <3>1. ~(io = buf /\ buf.data # <<>>) /\ pc # "flushed"
      BY <1>1 DEF InFlush
    <3>2. QED
      BY <1>2, <1>7, <2>1, <3>1, NotCut DEF Types
  <2>3. pos = size
    BY <1>1, <2>2 DEF Linked, Joined
  <2>4. Joined(size, buf, pos)'
    BY <1>1, <2>3, NothingIs DEF Joined
  <2>5. Linked'
    BY <1>6, <2>4 DEF Linked
  <2>6. QED
    BY <1>1, <2>2, <2>5 DEF Chain
<1>15. QED
  BY <1>9, <1>10, <1>11, <1>13, <1>14 DEF FInv

-----------------------------------------------------------------------------
(***************************************************************************)
(* The next file, and the invariant of all steps.                          *)
(***************************************************************************)
\* file_trunc() of a file that nothing was written to.
LEMMA TruncOK == ASSUME Plain, FInv, Trunc PROVE FInv' /\ (Chain => Chain')
<1>1. PICK n \in 0 .. MaxBytes :
        /\ pc = "idle" /\ want = <<>> /\ prealloc = 0 /\ prealloc' = n
        /\ \/ ~stdout /\ content' = Resize(content, n) /\ noPrealloc' = noPrealloc
           \/ noPrealloc' = TRUE /\ content' = content
        /\ UNCHANGED <<stdout, size, curOff, cvars, pc, call, io, hvars>>
  BY DEF Trunc
<1>2. Types /\ Flags /\ Sizes
  BY DEF FInv
<1>3. UNCHANGED <<buf, wWrite, continued, userData, async, wbuf, total, want, pos, failed, cut>>
  BY <1>1 DEF cvars, hvars
<1>4. Good /\ Good' /\ ~InCall /\ ~InCall' /\ pc' \notin InFlush
  BY <1>1 DEF Good, InCall, InFlush
<1>5. InTransit' = InTransit /\ Rest' = Rest
  BY <1>1, <1>4, Parts DEF InTransit, Rest, InCall, Nothing, Chunk
<1>6. n \in Nat /\ MaxBytes \in Nat /\ size = 0 /\ Len(content) = 0
  <2>1. n \in Nat /\ MaxBytes \in Nat
    BY <1>1, Basics
  <2>2. size \in Nat /\ Len(content) \in Nat /\ Len(content) <= 0 /\ size <= Len(content)
    BY <1>1, <1>2, Basics DEF Types, Sizes
  <2>3. QED
    BY <2>1, <2>2
<1>7. content' \in Seq(Bytes) /\ Len(content') <= n /\ (stdout => Len(content') = size)
  <2>1. content \in Seq(Bytes) /\ Hole \in Bytes
    BY <1>2 DEF Types, Bytes
  <2>2. Resize(content, n) \in Seq(Bytes) /\ Len(Resize(content, n)) = n
    BY <1>6, <2>1, ResizeIs
  <2>3. CASE content' = content
    BY <1>6, <2>1, <2>3
  <2>4. CASE ~stdout /\ content' = Resize(content, n)
    BY <1>6, <2>2, <2>4
  <2>5. QED
    BY <1>1, <2>3, <2>4
<1>8. Types'
  <2>1. noPrealloc' \in BOOLEAN /\ prealloc' \in Nat
    BY <1>1, <1>2, <1>6 DEF Types
  <2>2. QED
    BY <1>1, <1>2, <1>3, <1>7, <2>1 DEF Types
<1>9. Flags' /\ Flushing'
  BY <1>1, <1>2, <1>3, <1>4 DEF Flags, Flushing
<1>10. Wants' /\ Sizes' /\ View' /\ Pipe'
  <2>1. size <= Len(content') /\ size <= prealloc' /\ Len(content') <= prealloc'
    <3>1. Len(content') \in Nat
      BY <1>7
    <3>2. QED
      BY <1>1, <1>6, <1>7, <3>1
  <2>2. stdout => noPrealloc' /\ Len(content') = size
    BY <1>1, <1>2, <1>7 DEF Sizes
  <2>3. \A i \in 1 .. size : content'[i] = content[i]
    BY <1>6
  <2>4. QED
    BY <1>1, <1>3, <1>4, <1>5, <2>1, <2>2, <2>3, TailOK
<1>11. Chain => Chain'
  <2>1. SUFFICES ASSUME Chain, stdout PROVE Chain'
    BY <1>1 DEF Chain
  <2>2. cut = FALSE /\ Linked
    BY <1>1, <1>2, <1>4, <2>1, NotCut DEF Types
  <2>3. Linked'
    BY <1>1, <1>3, <1>4, <2>2 DEF Linked, Joined, End, InFlush
  <2>4. QED
    BY <1>3, <2>2, <2>3 DEF Chain
<1>12. QED
  BY <1>8, <1>9, <1>10, <1>11 DEF FInv

LEMMA OpenOK == ASSUME Plain, FInv, Open PROVE FInv' /\ (Chain => Chain')
<1>1. /\ pc = "closed" /\ ~stdout /\ ~failed
      /\ content' = <<>> /\ size' = 0 /\ prealloc' = 0 /\ curOff' = 0 /\ noPrealloc' \in BOOLEAN
      /\ pc' = "idle" /\ want' = <<>> /\ pos' = 0 /\ failed' = FALSE /\ cut' = FALSE
      /\ UNCHANGED <<stdout, cvars, call, io, total>>
  BY Basics DEF Open
<1>2. Types /\ Flags
  BY DEF FInv
<1>3. UNCHANGED <<buf, wWrite, continued, userData, async, wbuf>>
  BY <1>1 DEF cvars
<1>4. ~InCall /\ Good /\ ~InCall' /\ Good' /\ pc' \notin InFlush /\ pc' \in Places
  BY <1>1 DEF InCall, Good, InFlush, Places
<1>5. ~wWrite /\ ~continued /\ ~async /\ buf = Nothing
  BY <1>1, <1>2, <1>4 DEF Flags
<1>6. InTransit' = Nothing /\ Rest' = Nothing /\ Nothing' = Nothing
  BY <1>4 DEF InTransit, Rest, InCall, Nothing, Chunk
<1>7. Types'
  <2>1. content' \in Seq(Bytes) /\ want' \in Seq(Bytes)
    <3>1. <<>> \in Seq(Bytes)
      OBVIOUS
    <3>2. QED
      BY <1>1, <3>1
  <2>2. size' \in Nat /\ prealloc' \in Nat /\ curOff' \in Nat /\ pos' \in Nat
    BY <1>1
  <2>3. noPrealloc' \in BOOLEAN /\ failed' \in BOOLEAN /\ cut' \in BOOLEAN
    BY <1>1
  <2>4. QED
    BY <1>1, <1>2, <1>3, <1>4, <2>1, <2>2, <2>3 DEF Types
<1>8. total' \in Nat /\ Len(content') = 0 /\ Len(want') = 0
  BY <1>1, <1>2 DEF Types
<1>9. Wants' /\ Flags' /\ Flushing' /\ Chain'
  BY <1>1, <1>3, <1>4, <1>5, <1>8 DEF Wants, Flags, Flushing, Chain
<1>10. Sizes'
  <2>1. End(buf') <= 0 /\ End(InTransit') <= 0 /\ End(Rest') <= 0
    BY <1>3, <1>5, <1>6, NothingIs
  <2>2. QED
    BY <1>1, <1>4, <1>8, <2>1 DEF Sizes, End
<1>11. View' /\ Pipe'
  BY <1>1, <1>8 DEF View, ViewOK, Pipe
<1>12. QED
  BY <1>7, <1>9, <1>10, <1>11 DEF FInv

LEMMA StutterOK == ASSUME Plain, FInv, UNCHANGED vars PROVE FInv' /\ (Chain => Chain')
<1>1. UNCHANGED <<stdout, content, size, curOff, prealloc, noPrealloc, buf, wWrite, continued, userData, async,
                  wbuf, pc, call, io, total, want, pos, failed, cut>>
  BY DEF vars, fvars, cvars, hvars
<1>2. Types /\ Flags /\ Flushing
  BY DEF FInv
<1>3. (InCall' <=> InCall) /\ (Good' <=> Good) /\ Nothing' = Nothing
  BY <1>1 DEF InCall, Good, Nothing, Chunk
<1>4. Input' = Input /\ OutChunk' = OutChunk
  BY <1>1 DEF Input, OutChunk, Target
<1>5. InTransit' = InTransit /\ Rest' = Rest
  BY <1>1, <1>3, <1>4 DEF InTransit, Rest, NoCache
<1>6. Types'
  BY <1>1, <1>2 DEF Types
<1>7. Flags'
  BY <1>1, <1>2, <1>3, <1>4 DEF Flags, InGap
<1>8. Flushing'
  BY <1>1, <1>2 DEF Flushing, End, Byte
<1>9. Wants' /\ Sizes' /\ View' /\ Pipe'
  BY <1>1, <1>3, <1>4, <1>5, QuietOK DEF fvars
<1>10. Chain => Chain'
  BY <1>1, <1>3, <1>4 DEF Chain, Linked, Broken, Joined, End
<1>11. QED
  BY <1>6, <1>7, <1>8, <1>9, <1>10 DEF FInv

LEMMA NextOK ==
  ASSUME Plain, FInv, [Next]_vars
  PROVE  FInv' /\ (Chain => Chain')
<1>1. CASE Write
  BY <1>1, WriteOK
<1>2. CASE Flush \/ Behaviour \/ Close
  BY <1>2, FlushCallsOK
<1>3. CASE Open
  BY <1>3, OpenOK
<1>4. CASE Retry
  BY <1>4, RetryOK
<1>5. CASE FwWriteAgain
  BY <1>5, FwWriteAgainOK
<1>6. CASE FwWriteFails
  BY <1>6, FwWriteFailsOK
<1>7. CASE FlushAgain \/ FlushFails
  BY <1>7, FlushStopsOK
<1>8. CASE FwCache
  BY <1>8, FwCacheOK
<1>9. CASE Preallocate
  BY <1>9, PreallocateOK
<1>10. CASE FwWriteAccepted
  BY <1>10, FwWriteAcceptedOK
<1>11. CASE FlushWrites
  BY <1>11, FlushWritesOK
<1>12. CASE FlushDone
  BY <1>12, FlushDoneOK
<1>13. CASE UNCHANGED vars
  BY <1>13, StutterOK
<1>14. CASE Trunc
  BY <1>14, TruncOK
<1>15. QED
  BY <1>1, <1>2, <1>3, <1>4, <1>5, <1>6, <1>7, <1>8, <1>9, <1>10, <1>11, <1>12, <1>13, <1>14
     DEF Next, Caller, Kernel, Work

-----------------------------------------------------------------------------
(***************************************************************************)
(* What every caller can rely on.                                          *)
(***************************************************************************)
LEMMA FileInv == ASSUME Plain PROVE Spec => []FInv
<1>1. Init => FInv
  BY InitOK
<1>2. FInv /\ [Next]_vars => FInv'
  BY NextOK
<1>3. QED
  BY <1>1, <1>2, PTL DEF Spec

LEMMA TypesOK == ASSUME FInv PROVE TypeOK
<1>1. Types
  BY DEF FInv
<1>2. \A c : c \in [off : Nat \cup {-1}, data : Seq(Bytes)] => IsChunk(c)
  BY DEF IsChunk
<1>3. buf \in [off : Nat \cup {-1}, data : Seq(Bytes)] /\ wbuf \in [off : Nat \cup {-1}, data : Seq(Bytes)]
      /\ call \in [off : Nat \cup {-1}, data : Seq(Bytes)] /\ io \in [off : Nat \cup {-1}, data : Seq(Bytes)]
  BY <1>1 DEF Types, Chunks
<1>4. IsChunk(buf) /\ IsChunk(wbuf) /\ IsChunk(call) /\ IsChunk(io)
  BY <1>2, <1>3
<1>5. /\ {size, curOff, prealloc, total, pos} \subseteq Nat
      /\ {noPrealloc, wWrite, continued, async, failed, cut} \subseteq BOOLEAN
      /\ pc \in Places /\ Len(buf.data) <= Cap
  <2>1. size \in Nat /\ curOff \in Nat /\ prealloc \in Nat /\ pos \in Nat /\ total \in Nat
    BY <1>1 DEF Types
  <2>2. noPrealloc \in BOOLEAN /\ wWrite \in BOOLEAN /\ continued \in BOOLEAN /\ async \in BOOLEAN /\ failed \in BOOLEAN /\ cut \in BOOLEAN
    BY <1>1 DEF Types
  <2>3. pc \in Places /\ Len(buf.data) <= Cap
    BY <1>1 DEF Types
  <2>4. QED
    BY <2>1, <2>2, <2>3
<1>6. QED
  BY <1>4, <1>5 DEF TypeOK

\* v is what is seen of s under chunk c.
Shows(v, s, c) ==
  /\ v \in Seq(Bytes) /\ Len(v) >= Len(s)
  /\ \A i \in Nat \ {0} :
       /\ Covers(c, i) => i <= Len(v) /\ v[i] = Byte(c, i)
       /\ ~Covers(c, i) /\ i <= Len(s) => v[i] = s[i]

LEMMA OverIs == ASSUME NEW s \in Seq(Bytes), NEW c \in Chunks PROVE Shows(Over(s, c), s, c)
<1>1. PICK o \in Nat, d \in Seq(Bytes) : o = c.off /\ d = c.data
  BY DEF Chunks
<1>2. PICK v : v = Over(s, c) /\ Laid(Bytes, s, o, d, Hole, v)
  <2>1. Hole \in Bytes
    BY DEF Bytes
  <2>2. Laid(Bytes, s, o, d, Hole, Overlay(s, o, d, Hole))
    BY <2>1, OverlayIs
  <2>3. QED
    BY <1>1, <2>2 DEF Over
<1>3. /\ v \in Seq(Bytes)
      /\ Len(v) = IF d = <<>> THEN Len(s) ELSE MaxOf(Len(s), o + Len(d))
      /\ \A j \in 1 .. Len(v) :
           v[j] = IF o < j /\ j <= o + Len(d) THEN d[j - o]
                  ELSE IF j <= Len(s) THEN s[j] ELSE Hole
  BY <1>2 DEF Laid
<1>4. Len(v) \in Nat /\ Len(s) \in Nat /\ Len(d) \in Nat /\ Len(v) >= Len(s) /\ (Len(d) > 0 => Len(v) >= o + Len(d))
  <2>1. d = <<>> => Len(d) = 0
    OBVIOUS
  <2>2. QED
    BY <1>3, <2>1 DEF MaxOf
<1>5. \A i : (Covers(c, i) <=> o < i /\ i <= o + Len(d)) /\ Byte(c, i) = d[i - o]
  BY <1>1 DEF Covers, End, Byte
<1>6. ASSUME NEW i \in Nat \ {0}, Covers(c, i) PROVE i <= Len(v) /\ v[i] = Byte(c, i)
  <2>1. i \in 1 .. Len(v)
    BY <1>4, <1>5, <1>6
  <2>2. QED
    BY <1>3, <1>5, <1>6, <2>1
<1>7. ASSUME NEW i \in Nat \ {0}, ~Covers(c, i), i <= Len(s) PROVE v[i] = s[i]
  <2>1. i \in 1 .. Len(v)
    BY <1>4, <1>7
  <2>2. QED
    BY <1>3, <1>5, <1>7, <2>1
<1>8. Shows(v, s, c)
  BY <1>3, <1>4, <1>6, <1>7 DEF Shows
<1>9. QED
  BY <1>2, <1>8

LEMMA ShowsByte ==
  ASSUME NEW v, NEW s, NEW c, Shows(v, s, c), NEW i \in Nat \ {0}
  PROVE  /\ Covers(c, i) => i <= Len(v) /\ v[i] = Byte(c, i)
         /\ ~Covers(c, i) /\ i <= Len(s) => v[i] = s[i]
BY DEF Shows

\* The invariant's layers are the parts of Visible.
LEMMA SeesAll == ASSUME Plain, FInv PROVE NothingLost
<1>1. SUFFICES ASSUME ~failed PROVE IsPrefix(want, Visible)
  BY DEF NothingLost
<1>2. Types /\ Wants /\ Sizes /\ View /\ Good
  BY <1>1 DEF FInv, Good
<1>3. InTransit \in Chunks /\ Rest \in Chunks /\ buf \in Chunks
  <2>1. CASE InCall
    <3>1. Rest = Input /\ (wWrite => InTransit = OutChunk) /\ (~wWrite => InTransit = Nothing)
      BY <2>1, Parts DEF FInv, Types
    <3>2. QED
      BY <1>2, <2>1, <3>1, NothingIs, Chunks_InCall DEF Types
  <2>2. CASE ~InCall
    BY <1>2, <2>2, NothingIs, Parts DEF Types
  <2>3. QED
    BY <2>1, <2>2
<1>4. PICK t \in Chunks, b \in Chunks, r \in Chunks :
        t = InTransit /\ b = buf /\ r = Rest /\ ViewOK(want, content, size, t, b, r)
  BY <1>2, <1>3 DEF View
<1>5. PICK s1, s2, s3 : /\ s3 = Visible
                       /\ Shows(s1, content, t) /\ Shows(s2, s1, b) /\ Shows(s3, s2, r)
  <2>1. PICK s1 : s1 = Over(content, t) /\ Shows(s1, content, t)
    BY <1>2, OverIs DEF Types
  <2>2. PICK s2 : s2 = Over(s1, b) /\ Shows(s2, s1, b)
    <3>1. s1 \in Seq(Bytes)
      BY <2>1 DEF Shows
    <3>2. Shows(Over(s1, b), s1, b)
      BY <3>1, OverIs
    <3>3. QED
      BY <3>2
  <2>3. PICK s3 : s3 = Over(s2, r) /\ Shows(s3, s2, r)
    <3>1. s2 \in Seq(Bytes)
      BY <2>2 DEF Shows
    <3>2. Shows(Over(s2, r), s2, r)
      BY <3>1, OverIs
    <3>3. QED
      BY <3>2
  <2>4. s3 = Visible
    BY <1>4, <2>1, <2>2, <2>3 DEF Visible
  <2>5. QED
    BY <2>1, <2>2, <2>3, <2>4
<1>6. content \in Seq(Bytes) /\ want \in Seq(Bytes) /\ size \in Nat /\ size <= Len(content) /\ Len(content) \in Nat
      /\ Len(want) \in Nat
  BY <1>2, Basics DEF Types, Sizes
<1>7. s1 \in Seq(Bytes) /\ s2 \in Seq(Bytes) /\ s3 \in Seq(Bytes)
      /\ Len(s1) >= Len(content) /\ Len(s2) >= Len(s1) /\ Len(s3) >= Len(s2)
  BY <1>5 DEF Shows
<1>8. Len(s1) \in Nat /\ Len(s2) \in Nat /\ Len(s3) \in Nat
  BY <1>7
<1>9. ASSUME NEW i \in 1 .. Len(want) PROVE i <= Len(s3) /\ s3[i] = want[i]
  <2>1. i \in Nat \ {0} /\ want[i] = Layered(content, size, t, b, r, i)
    BY <1>4 DEF ViewOK
  <2>2. want[i] # Hole
    BY <1>2, FileAssumption DEF Wants, Hole
  <2>3. /\ Covers(t, i) => i <= Len(s1) /\ s1[i] = Byte(t, i)
        /\ ~Covers(t, i) /\ i <= Len(content) => s1[i] = content[i]
    BY <1>5, <2>1, ShowsByte
  <2>4. /\ Covers(b, i) => i <= Len(s2) /\ s2[i] = Byte(b, i)
        /\ ~Covers(b, i) /\ i <= Len(s1) => s2[i] = s1[i]
    BY <1>5, <2>1, ShowsByte
  <2>5. /\ Covers(r, i) => i <= Len(s3) /\ s3[i] = Byte(r, i)
        /\ ~Covers(r, i) /\ i <= Len(s2) => s3[i] = s2[i]
    BY <1>5, <2>1, ShowsByte
  <2>6. CASE Covers(r, i)
    BY <2>1, <2>5, <2>6 DEF Layered
  <2>7. CASE ~Covers(r, i) /\ Covers(b, i)
    <3>1. want[i] = Byte(b, i)
      BY <2>1, <2>7 DEF Layered
    <3>2. i <= Len(s3)
      BY <1>7, <1>8, <2>1, <2>4, <2>7
    <3>3. QED
      BY <2>4, <2>5, <2>7, <3>1, <3>2
  <2>8. CASE ~Covers(r, i) /\ ~Covers(b, i) /\ Covers(t, i)
    <3>1. want[i] = Byte(t, i)
      BY <2>1, <2>8 DEF Layered
    <3>2. i <= Len(s1) /\ i <= Len(s2) /\ i <= Len(s3)
      BY <1>7, <1>8, <2>1, <2>3, <2>8
    <3>3. QED
      BY <2>3, <2>4, <2>5, <2>8, <3>1, <3>2
  <2>9. CASE ~Covers(r, i) /\ ~Covers(b, i) /\ ~Covers(t, i)
    <3>1. i <= size /\ want[i] = content[i]
      BY <2>1, <2>2, <2>9 DEF Layered
    <3>2. i <= Len(content) /\ i <= Len(s1) /\ i <= Len(s2) /\ i <= Len(s3)
      BY <1>6, <1>7, <1>8, <2>1, <3>1
    <3>3. QED
      BY <2>3, <2>4, <2>5, <2>9, <3>1, <3>2
  <2>10. QED
    BY <2>6, <2>7, <2>8, <2>9
<1>10. Len(want) <= Len(s3)
  <2>1. CASE Len(want) = 0
    BY <1>8, <2>1
  <2>2. CASE Len(want) > 0
    <3>1. Len(want) \in 1 .. Len(want)
      BY <1>6, <2>2
    <3>2. QED
      BY <1>9, <3>1
  <2>3. QED
    BY <1>6, <2>1, <2>2
<1>11. IsPrefix(want, s3)
  BY <1>6, <1>8, <1>9, <1>10 DEF IsPrefix
<1>12. QED
  BY <1>5, <1>11

\* file_write(), file_flush() and file_close() keep the buffer in its bounds and lose,
\* double and misplace no byte: at every point, also between a call that returned ASYNC
\* and its repetition, what the kernel has, the chunk on its way, the buffer and the
\* rest of the call show all that the callers wrote, as long as nothing failed.  This
\* is for callers that leave no gap inside the range of a buffer in use, and open no
\* object again whose buffer could not be written.
THEOREM FileWriteSafe == ASSUME Plain PROVE Spec => []FileWriteInv
<1>1. FInv => FileWriteInv
  BY TypesOK, SeesAll DEF FileWriteInv
<1>2. Spec => []FInv
  BY FileInv
<1>3. QED
  BY <1>1, <1>2, PTL

\* When file_close() has met no error, the file has exactly the bytes written to it:
\* the buffer is flushed and prealloc_trunc() has cut what was preallocated.
THEOREM FileCloseIsExact == ASSUME Plain PROVE Spec => []CloseIsExact
<1>1. FInv => CloseIsExact
  <2>1. SUFFICES ASSUME FInv, pc = "closed", ~failed PROVE content = want
    BY DEF CloseIsExact
  <2>2. Types /\ Wants /\ Flags /\ Sizes /\ View /\ Good /\ ~InCall
    BY <2>1 DEF FInv, Good, InCall
  <2>3. prealloc = size /\ buf = Nothing /\ InTransit = Nothing /\ Rest = Nothing
    BY <2>1, <2>2, Parts DEF Flags
  <2>4. content \in Seq(Bytes) /\ want \in Seq(Bytes) /\ size \in Nat /\ Len(content) \in Nat /\ Len(want) \in Nat
    BY <2>1, <2>2, Basics DEF Types
  <2>5. Len(content) = size /\ size <= Len(want)
    BY <2>2, <2>3, <2>4 DEF Sizes
  <2>6. ASSUME NEW i \in 1 .. Len(want) PROVE i <= size /\ want[i] = content[i]
    <3>1. want[i] = Layered(content, size, Nothing, Nothing, Nothing, i) /\ ~Covers(Nothing, i)
      BY <2>2, <2>3, NothingIs, CoversIs DEF View, ViewOK
    <3>2. want[i] # Hole
      BY <2>2, FileAssumption DEF Wants, Hole
    <3>3. QED
      BY <3>1, <3>2 DEF Layered
  <2>7. Len(want) = size
    <3>1. CASE Len(want) > 0
      <4>1. Len(want) \in 1 .. Len(want)
        BY <2>4, <3>1
      <4>2. QED
        BY <2>4, <2>5, <2>6, <4>1
    <3>2. CASE Len(want) = 0
      BY <2>4, <2>5, <3>2
    <3>3. QED
      BY <2>4, <3>1, <3>2
  <2>8. QED
    BY <2>4, <2>5, <2>6, <2>7
<1>2. Spec => []FInv
  BY FileInv
<1>3. QED
  BY <1>1, <1>2, PTL

\* What fw_write() and file_flush() put down a pipe is a prefix of what the callers
\* wrote, in order and each byte once, whatever fails and whenever a caller gives up.
THEOREM FileInOrder == ASSUME Plain PROVE Spec => []InOrder
<1>1. FInv => InOrder
  <2>1. SUFFICES ASSUME FInv, stdout PROVE IsPrefix(content, want)
    BY DEF InOrder
  <2>2. Types /\ Sizes /\ Pipe
    BY <2>1 DEF FInv
  <2>3. size \in Nat /\ content \in Seq(Bytes) /\ want \in Seq(Bytes) /\ Len(content) \in Nat
    BY <2>2 DEF Types
  <2>4. Len(content) = size
    BY <2>1, <2>2, <2>3 DEF Sizes
  <2>5. size <= Len(want) /\ \A i \in 1 .. size : content[i] = want[i]
    BY <2>1, <2>2 DEF Pipe
  <2>6. Len(content) <= Len(want) /\ \A i \in 1 .. Len(content) : content[i] = want[i]
    BY <2>4, <2>5
  <2>7. content = SubSeq(want, 1, Len(content))
    BY <2>3, <2>6
  <2>8. QED
    BY <2>6, <2>7 DEF IsPrefix
<1>2. Spec => []FInv
  BY FileInv
<1>3. QED
  BY <1>1, <1>2, PTL

\* A stream is not asked to seek by callers that write at the current offset, however
\* often it is full in between and however small the parts are that it takes: no chunk of
\* file_write() is, after whatever flushes, and file_flush() is not until one was ended
\* by ASYNC with a part of the buffer written.  It forgets how far it came, and the flush
\* that follows is the seek that f_write() refuses: see FlushGoesOn.
THEOREM FileNeverSeeks == ASSUME Plain PROVE Spec => []NeverSeeks
<1>1. FInv /\ Chain => NeverSeeks
  <2>1. SUFFICES ASSUME FInv, Chain PROVE NeverSeeks
    OBVIOUS
  <2>2. cut \in BOOLEAN
    BY <2>1 DEF FInv, Types
  <2>3. ASSUME InFwWrite, stdout PROVE ~SeekError(OutChunk)
    <3>1. InCall /\ wWrite /\ Good
      BY <2>1, <2>3, Basics DEF InFwWrite, InCall, Good
    <3>2. Linked
      BY <2>1, <2>2, <2>3, <3>1, NotCut DEF InCall
    <3>3. QED
      BY <3>1, <3>2 DEF Linked, SeekError
  <2>4. ASSUME pc \in InFlush, io.data # <<>>, ~failed, ~cut, stdout PROVE ~SeekError(io)
    <3>1. Linked
      BY <2>1, <2>4 DEF Chain, Good
    <3>2. QED
      BY <2>4, <3>1 DEF Linked, Joined, SeekError
  <2>5. QED
    BY <2>3, <2>4 DEF NeverSeeks, SeekError
<1>2. Init => FInv /\ Chain
  BY InitOK
<1>3. FInv /\ Chain /\ [Next]_vars => (FInv /\ Chain)'
  BY NextOK
<1>4. QED
  BY <1>1, <1>2, <1>3, PTL DEF Spec
=============================================================================
