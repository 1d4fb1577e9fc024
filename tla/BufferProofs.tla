---------------------------- MODULE BufferProofs ----------------------------
(***************************************************************************)
(* Facts about the helpers of Buffer, for every size of window and every   *)
(* sequence space.                                                         *)
(***************************************************************************)
EXTENDS Buffer, TLAPS

-----------------------------------------------------------------------------
(* Arithmetic modulo a number S.  The provers do not reason about products *)
(* of variables unaided, hence the small steps.                            *)

\* Division with remainder.
LEMMA DivMod ==
  ASSUME NEW x \in Int, NEW S \in Nat \ {0}
  PROVE  /\ x % S \in 0..(S - 1)
         /\ x \div S \in Int
         /\ x = S * (x \div S) + (x % S)
  OBVIOUS

\* A positive multiple of S is at least S.
LEMMA MultipleAtLeast ==
  ASSUME NEW q \in Int, NEW S \in Nat \ {0}, q >= 1
  PROVE  S * q >= S
  OBVIOUS

\* Multiplication distributes over a difference.
LEMMA Distr == ASSUME NEW a \in Int, NEW b \in Int, NEW S \in Int
  PROVE S * (a - b) = S * a - S * b
  OBVIOUS

\* Two numbers less than S apart that agree modulo S are equal: why a window
\* of sequence numbers identifies positions of the stream.
LEMMA ModUnique ==
  ASSUME NEW x \in Int, NEW y \in Int, NEW S \in Nat \ {0},
         x < y + S, y < x + S, x % S = y % S
  PROVE  x = y
<1> DEFINE a == y \div S
           b == x \div S
           r == x % S
<1>1. a \in Int /\ b \in Int /\ r \in Int /\ S \in Int
  BY DivMod
<1>2. y = S * a + r /\ x = S * b + r
  BY DivMod
<1> HIDE DEF a, b, r
<1>3. S * (a - b) = S * a - S * b /\ S * (b - a) = S * b - S * a
  BY <1>1, Distr
<1>4. S * a \in Int /\ S * b \in Int
  BY <1>1
<1>5. CASE a - b >= 1
  <2>1. S * (a - b) >= S
    BY <1>1, <1>5, MultipleAtLeast
  <2> QED BY <2>1, <1>1, <1>2, <1>3, <1>4
<1>6. CASE a = b
  BY <1>1, <1>2, <1>6
<1>7. CASE b - a >= 1
  <2>1. S * (b - a) >= S
    BY <1>1, <1>7, MultipleAtLeast
  <2> QED BY <2>1, <1>1, <1>2, <1>3, <1>4
<1> QED BY <1>1, <1>5, <1>6, <1>7

\* Adding a multiple of S changes no remainder.
LEMMA ModAdd ==
  ASSUME NEW q \in Int, NEW r \in Int, NEW S \in Nat \ {0}
  PROVE  (S * q + r) % S = r % S
<1> DEFINE x == S * q + r
           s == r % S
           t == x % S
           c == r \div S
           d == x \div S
<1>1. x \in Int /\ s \in 0..(S-1) /\ t \in 0..(S-1) /\ c \in Int /\ d \in Int
  BY DivMod
<1>2. x = S * d + t /\ r = S * c + s /\ x = S * q + r
  BY <1>1, DivMod
<1> HIDE DEF x, s, t, c, d
<1>3. S * (d - q) = S * d - S * q
  BY <1>1, Distr
<1>4. S * (d - q - c) = S * (d - q) - S * c
  BY <1>1, Distr
<1>5. S * (c - (d - q)) = S * c - S * (d - q)
  BY <1>1, Distr
<1>51. S * d \in Int /\ S * q \in Int /\ S * c \in Int
  BY <1>1
<1>6. s - t = S * (d - q - c) /\ t - s = S * (c - (d - q))
  BY <1>1, <1>2, <1>3, <1>4, <1>5, <1>51
<1>7. ~(d - q - c >= 1)
  <2>1. d - q - c >= 1 => S * (d - q - c) >= S
    BY <1>1, MultipleAtLeast
  <2> QED BY <2>1, <1>1, <1>6
<1>8. ~(c - (d - q) >= 1)
  <2>1. c - (d - q) >= 1 => S * (c - (d - q)) >= S
    BY <1>1, MultipleAtLeast
  <2> QED BY <2>1, <1>1, <1>6
<1>9. d - q - c = 0
  BY <1>1, <1>7, <1>8
<1>10. S * 0 = 0
  OBVIOUS
<1>11. s - t = 0
  BY <1>6, <1>9, <1>10
<1>12. s = t
  BY <1>1, <1>11
<1> QED BY <1>12 DEF s, t, x

\* Reducing modulo S before adding changes nothing, as window_slide does.
LEMMA ModShift ==
  ASSUME NEW x \in Int, NEW y \in Int, NEW S \in Nat \ {0}
  PROVE  ((x % S) + y) % S = (x + y) % S
<1> DEFINE q == x \div S
           m == x % S
<1>1. q \in Int /\ m \in Int /\ x = S * q + m
  BY DivMod
<1> HIDE DEF q, m
<1>2. S * q \in Int
  BY <1>1
<1>3. x + y = S * q + (m + y)
  BY <1>1, <1>2
<1>5. m + y \in Int
  BY <1>1
<1>4. (S * q + (m + y)) % S = (m + y) % S
  BY <1>1, <1>5, ModAdd
<1> QED BY <1>3, <1>4 DEF m

\* A whole turn of the space leads back to the same number.
LEMMA ModTurn ==
  ASSUME NEW x \in Int, NEW S \in Nat \ {0}
  PROVE  (x + S) % S = x % S
<1>1. S * 1 = S /\ S * 1 + x = x + S
  OBVIOUS
<1>2. 1 \in Int
  OBVIOUS
<1>3. (S * 1 + x) % S = x % S
  BY <1>2, ModAdd
<1> QED BY <1>1, <1>3

\* A number of the space is its own remainder.
LEMMA ModSmall ==
  ASSUME NEW S \in Nat \ {0}, NEW x \in 0..(S - 1)
  PROVE  x % S = x
  BY DivMod

-----------------------------------------------------------------------------
(* The helpers. *)

\* The constants are what the helpers need them to be.
LEMMA SizeFacts ==
  /\ MAX_WINDOW_SIZE \in Nat \ {0} /\ SeqSpace \in Nat \ {0}
  /\ 2 * MAX_WINDOW_SIZE < SeqSpace
  BY WindowAssumption DEF SeqSpace

\* Reduced numbers are sequence numbers and slots.
LEMMA ModFacts ==
  ASSUME NEW x \in Int
  PROVE  x % SeqSpace \in Seqnums /\ x % MAX_WINDOW_SIZE \in Slots
<1>1. Seqnums = 0..(SeqSpace - 1)
  BY WindowAssumption DEF SeqSpace, Seqnums
<1>2. x % SeqSpace \in 0..(SeqSpace - 1)
  BY SizeFacts, DivMod
<1>3. x % MAX_WINDOW_SIZE \in 0..(MAX_WINDOW_SIZE - 1)
  BY SizeFacts, DivMod
<1> QED BY <1>1, <1>2, <1>3 DEF Slots

\* Numbers are integers.
LEMMA SeqnumsAreInts == Seqnums \subseteq Int
  BY DEF Seqnums

\* Membership in Slots as inequalities.
LEMMA SlotBounds ==
  ASSUME NEW i
  PROVE  i \in Slots <=> i \in Int /\ 0 <= i /\ i < MAX_WINDOW_SIZE
  BY SizeFacts DEF Slots

\* The entry of each helper's result at one slot.
LEMMA SlideEntry ==
  ASSUME NEW window, NEW i \in Slots
  PROVE  window_slide(window)[i] = IF i < MAX_WINDOW_SIZE - 1
                                   THEN window[i + 1]
                                   ELSE (window[i] + 1) % SeqSpace
  BY DEF window_slide

\* One slot of a slid window, and of a buffer shifted once and n times.
LEMMA SlidesEntry ==
  ASSUME NEW window, NEW n, NEW i \in Slots
  PROVE  window_slides(window, n)[i] = NumberAt(window, i + n)
  BY DEF window_slides

LEMMA UpdateEntry ==
  ASSUME NEW buf, NEW fill, NEW i \in Slots
  PROVE  update_buf(buf, fill)[i]
           = IF i < MAX_WINDOW_SIZE - 1 THEN buf[i + 1] ELSE fill
  BY DEF update_buf

LEMMA UpdatesEntry ==
  ASSUME NEW buf, NEW fill, NEW n, NEW i \in Slots
  PROVE  update_bufs(buf, fill, n)[i]
           = IF i + n < MAX_WINDOW_SIZE THEN buf[i + n] ELSE fill
  BY DEF update_bufs

-----------------------------------------------------------------------------
\* window_slides is the iteration of window_slide (buffer.c:56-62): no call
\* leaves the window as it is, and one more call slides it once more.
THEOREM WindowSlidesIterates ==
  ASSUME NEW window \in [Slots -> Seqnums], NEW n \in Nat
  PROVE  /\ window_slides(window, 0) = window
         /\ window_slides(window, n + 1)
              = window_slide(window_slides(window, n))
<1>1. ASSUME NEW i \in Slots
      PROVE  window_slides(window, 0)[i] = window[i]
  <2>1. i + 0 = i /\ i < MAX_WINDOW_SIZE
    BY SlotBounds
  <2> QED BY <2>1, SlideEntry, SlidesEntry DEF NumberAt
<1>2. ASSUME NEW i \in Slots
      PROVE  window_slides(window, n + 1)[i]
               = window_slide(window_slides(window, n))[i]
  <2> DEFINE last == MAX_WINDOW_SIZE - 1
  <2>1. i \in Int /\ 0 <= i /\ i <= last /\ last \in Slots
    BY SlotBounds, SizeFacts
  <2>2. CASE i < last
    <3>1. i + 1 \in Slots /\ (i + 1) + n = i + (n + 1)
      BY <2>1, <2>2, SlotBounds, SizeFacts
    <3>2. window_slide(window_slides(window, n))[i]
            = window_slides(window, n)[i + 1]
      BY <2>2, SlideEntry
    <3>3. window_slides(window, n)[i + 1] = NumberAt(window, (i + 1) + n)
      BY <3>1, SlidesEntry
    <3>4. window_slides(window, n + 1)[i] = NumberAt(window, i + (n + 1))
      BY SlidesEntry
    <3> QED BY <3>1, <3>2, <3>3, <3>4, Zenon
  <2>3. CASE i = last /\ n = 0
    <3>1. window_slides(window, n)[i] = window[last]
      BY <1>1, <2>3
    <3>2. ~(i + (n + 1) < MAX_WINDOW_SIZE) /\ i + (n + 1) - last = 1 /\ ~(i < last)
      BY <2>1, <2>3, SizeFacts
    <3> QED BY <2>3, <3>1, <3>2, SlideEntry, SlidesEntry DEF NumberAt
  <2>4. CASE i = last /\ n > 0
    <3>1. window[last] \in Int
      BY <2>1, SeqnumsAreInts
    <3>2. /\ ~(i + n < MAX_WINDOW_SIZE) /\ ~(i + (n + 1) < MAX_WINDOW_SIZE)
          /\ ~(i < last) /\ i + n - last = n /\ i + (n + 1) - last = n + 1
      BY <2>1, <2>4, SizeFacts
    <3>3. window_slide(window_slides(window, n))[i]
            = (((window[last] + n) % SeqSpace) + 1) % SeqSpace
      <4>1. window_slide(window_slides(window, n))[i]
              = (window_slides(window, n)[i] + 1) % SeqSpace
        BY <3>2, SlideEntry
      <4>2. window_slides(window, n)[i] = NumberAt(window, i + n)
        BY SlidesEntry
      <4>3. (i + n) - last = n /\ ~(i + n < MAX_WINDOW_SIZE)
        BY <2>1, <2>4, SizeFacts
      <4>4. NumberAt(window, i + n) = (window[last] + ((i + n) - last)) % SeqSpace
        BY <4>3, Zenon DEF NumberAt
      <4>5. NumberAt(window, i + n) = (window[last] + n) % SeqSpace
        BY <4>3, <4>4, Zenon
      <4> QED BY <4>1, <4>2, <4>5, Zenon
    <3>4. window_slides(window, n + 1)[i] = (window[last] + (n + 1)) % SeqSpace
      BY <2>4, <3>2, SlideEntry, SlidesEntry DEF NumberAt
    <3>5. window[last] + n \in Int /\ window[last] + (n + 1) = (window[last] + n) + 1
      BY <3>1
    <3>6. (((window[last] + n) % SeqSpace) + 1) % SeqSpace
            = ((window[last] + n) + 1) % SeqSpace
      BY <3>5, SizeFacts, ModShift
    <3> QED BY <3>3, <3>4, <3>5, <3>6
  <2>5. i < last \/ (i = last /\ (n = 0 \/ n > 0))
    BY <2>1, SizeFacts
  <2> QED BY <2>2, <2>3, <2>4, <2>5
<1> QED BY <1>1, <1>2 DEF window_slides, window_slide

\* update_bufs is the iteration of update_buf (buffer.c:64-81).
THEOREM UpdateBufsIterates ==
  ASSUME NEW T, NEW buf \in [Slots -> T], NEW fill, NEW n \in Nat
  PROVE  /\ update_bufs(buf, fill, 0) = buf
         /\ update_bufs(buf, fill, n + 1)
              = update_buf(update_bufs(buf, fill, n), fill)
<1>1. ASSUME NEW i \in Slots
      PROVE  update_bufs(buf, fill, 0)[i] = buf[i]
  <2>1. i + 0 = i /\ i < MAX_WINDOW_SIZE
    BY SlotBounds
  <2> QED BY <2>1, UpdateEntry, UpdatesEntry
<1>2. ASSUME NEW i \in Slots
      PROVE  update_bufs(buf, fill, n + 1)[i]
               = update_buf(update_bufs(buf, fill, n), fill)[i]
  <2>1. CASE i < MAX_WINDOW_SIZE - 1
    <3>1. i + 1 \in Slots /\ i + 1 + n = i + (n + 1)
      BY <2>1, SlotBounds, SizeFacts
    <3> QED BY <2>1, <3>1, UpdateEntry, UpdatesEntry
  <2>2. CASE ~(i < MAX_WINDOW_SIZE - 1)
    <3>1. ~(i + (n + 1) < MAX_WINDOW_SIZE)
      BY <2>2, SlotBounds, SizeFacts
    <3> QED BY <2>2, <3>1, UpdateEntry, UpdatesEntry
  <2> QED BY <2>1, <2>2
<1> QED BY <1>1, <1>2 DEF update_bufs, update_buf

-----------------------------------------------------------------------------
\* Sliding a window of sequence numbers gives a window of sequence numbers.
LEMMA WindowSlidesType ==
  ASSUME NEW window \in [Slots -> Seqnums], NEW n \in Nat
  PROVE  window_slides(window, n) \in [Slots -> Seqnums]
<1>1. ASSUME NEW j \in Nat
      PROVE  NumberAt(window, j) \in Seqnums
  <2> DEFINE last == MAX_WINDOW_SIZE - 1
             x == window[last] + (j - last)
  <2>1. last \in Slots /\ last \in Int
    BY SlotBounds, SizeFacts
  <2>2. j < MAX_WINDOW_SIZE => j \in Slots
    BY SlotBounds
  <2>3. window[last] \in Int
    BY <2>1, SeqnumsAreInts
  <2>4. x \in Int
    BY <2>1, <2>3
  <2>5. x % SeqSpace \in Seqnums
    BY <2>4, ModFacts
  <2>6. NumberAt(window, j) = IF j < MAX_WINDOW_SIZE THEN window[j]
                              ELSE x % SeqSpace
    BY DEF NumberAt
  <2> HIDE DEF x
  <2> QED BY <2>2, <2>5, <2>6
<1>2. ASSUME NEW i \in Slots
      PROVE  window_slides(window, n)[i] \in Seqnums
  <2>1. i + n \in Nat
    BY SlotBounds
  <2> QED BY <1>1, <2>1, SlidesEntry
<1> QED BY <1>2 DEF window_slides

\* A window that starts at position p starts at p + n after n slides.
LEMMA WindowSlidesShift ==
  ASSUME NEW p \in Nat, NEW n \in Nat, NEW window,
         \A i \in Slots : window[i] = (p + i) % SeqSpace
  PROVE  \A i \in Slots : window_slides(window, n)[i] = ((p + n) + i) % SeqSpace
<1> SUFFICES ASSUME NEW i \in Slots
             PROVE  window_slides(window, n)[i] = ((p + n) + i) % SeqSpace
  OBVIOUS
<1> DEFINE last == MAX_WINDOW_SIZE - 1
<1>1. i \in Int /\ 0 <= i /\ last \in Slots /\ last \in Int
  BY SlotBounds, SizeFacts
<1>2. CASE i + n < MAX_WINDOW_SIZE
  <2>1. i + n \in Slots /\ p + (i + n) = (p + n) + i
    BY <1>1, <1>2, SlotBounds
  <2> QED BY <1>2, <2>1, SlidesEntry DEF NumberAt
<1>3. CASE ~(i + n < MAX_WINDOW_SIZE)
  <2>1. window_slides(window, n)[i]
          = (((p + last) % SeqSpace) + (i + n - last)) % SeqSpace
    BY <1>1, <1>3, SlidesEntry DEF NumberAt
  <2>2. /\ p + last \in Int /\ i + n - last \in Int
        /\ (p + last) + (i + n - last) = (p + n) + i
    BY <1>1
  <2>3. (((p + last) % SeqSpace) + (i + n - last)) % SeqSpace
          = ((p + last) + (i + n - last)) % SeqSpace
    BY <2>2, SizeFacts, ModShift
  <2> QED BY <2>1, <2>2, <2>3
<1> QED BY <1>2, <1>3

\* find_pkt on a window of consecutive numbers that starts at position p: the
\* number of a position less than the sequence space away from every slot is
\* found exactly when the position is in the window, and then at its place.
LEMMA FindPkt ==
  ASSUME NEW p \in Nat, NEW k \in Nat, NEW window,
         \A i \in Slots : window[i] = (p + i) % SeqSpace,
         p + MAX_WINDOW_SIZE <= k + SeqSpace, k < p + SeqSpace
  PROVE  find_pkt(k % SeqSpace, window)
           = IF p <= k /\ k < p + MAX_WINDOW_SIZE THEN k - p ELSE -1
<1>1. ASSUME NEW i \in Slots, window[i] = k % SeqSpace
      PROVE  i = k - p
  <2>1. /\ i \in Int /\ p + i \in Int /\ k \in Int
        /\ p + i < k + SeqSpace /\ k < (p + i) + SeqSpace
    BY SlotBounds, SizeFacts
  <2>2. (p + i) % SeqSpace = k % SeqSpace /\ SeqSpace \in Nat \ {0}
    BY <1>1, SizeFacts
  <2>3. p + i = k
    BY <2>1, <2>2, ModUnique
  <2> QED BY <2>1, <2>3
<1>2. CASE p <= k /\ k < p + MAX_WINDOW_SIZE
  <2>1. k - p \in Slots /\ p + (k - p) = k
    BY <1>2, SlotBounds, SizeFacts
  <2>2. window[k - p] = k % SeqSpace
    BY <2>1
  <2>3. k - p <= k - p
    OBVIOUS
  <2>4. (k - p \in Slots) /\ window[k - p] = k % SeqSpace
          /\ \A j \in Slots : window[j] = k % SeqSpace => k - p <= j
    BY <1>1, <2>1, <2>2, <2>3
  <2>5. \A i \in Slots : window[i] = k % SeqSpace => i = k - p
    BY <1>1
  <2> HIDE <1>1
  <2> QED BY <1>2, <2>4, <2>5 DEF find_pkt
<1>3. CASE ~(p <= k /\ k < p + MAX_WINDOW_SIZE)
  <2>1. ASSUME NEW i \in Slots, window[i] = k % SeqSpace
        PROVE  FALSE
    <3>1. i = k - p
      BY <1>1, <2>1
    <3> QED BY <3>1, <1>3, SlotBounds, SizeFacts
  <2>2. ~\E i \in Slots : window[i] = k % SeqSpace
    BY <2>1
  <2> QED BY <1>3, <2>2 DEF find_pkt
<1> QED BY <1>2, <1>3
=============================================================================
