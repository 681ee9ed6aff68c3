----------------------------- MODULE LegacyProofs -----------------------------
(***************************************************************************)
(* What the older parts promise: a failed conversion keeps the file, a     *)
(* whole or a torn file reads as what it holds, one trip through a CSV     *)
(* loses all that is lost, and compressed bytes come back.                 *)
(***************************************************************************)
EXTENDS LegacyFile, ByteRle, LoopTheorems

LEMMA RowAndPlace ==
    ASSUME NEW m \in Nat, NEW k \in Nat, NEW a \in 0..(k * m) - 1
    PROVE  m \in Nat \ {0} /\ a \div m \in 0..k-1 /\ a % m \in 0..m-1
<1>1. m # 0
  <2> SUFFICES ASSUME m = 0 PROVE FALSE
    OBVIOUS
  <2>1. k * m = 0
    OBVIOUS
  <2> QED
    BY <2>1
<1>2. PICK d \in Int, s \in 0..m-1 : d = a \div m /\ s = a % m
  BY <1>1
<1>3. a = m * d + s
  BY <1>1, <1>2
<1>4. PICK u \in Int, v \in Nat : u = m * d /\ v = k * m
  OBVIOUS
<1>5. 0 <= u + s /\ u + s < v
  BY <1>3, <1>4
<1>6. ~(d < 0)
  <2> SUFFICES ASSUME d < 0 PROVE FALSE
    OBVIOUS
  <2>1. PICK e \in Nat : d = -1 - e
    <3>1. -1 - d \in Nat /\ d = -1 - (-1 - d)
      OBVIOUS
    <3> QED
      BY <3>1
  <2>2. PICK w \in Nat : w = m * e
    OBVIOUS
  <2>3. u = 0 - m - w
    BY <1>4, <2>1, <2>2
  <2> QED
    BY <1>2, <1>5, <2>3
<1>7. ~(k <= d)
  <2> SUFFICES ASSUME k <= d PROVE FALSE
    OBVIOUS
  <2>1. PICK e \in Nat : d = k + e
    <3>1. d - k \in Nat /\ d = k + (d - k)
      OBVIOUS
    <3> QED
      BY <3>1
  <2>2. PICK w \in Nat : w = m * e
    OBVIOUS
  <2>3. u = v + w
    BY <1>4, <2>1, <2>2
  <2> QED
    BY <1>2, <1>5, <2>3
<1> QED
  BY <1>1, <1>2, <1>6, <1>7

(* The cell that is j-th when k columns of m rows follow each other. *)
LEMMA CellOfPlace ==
    ASSUME NEW m \in Nat, NEW k \in Nat, NEW j \in 1..k * m
    PROVE  \E c \in 1..k, r \in 1..m : c = ((j - 1) \div m) + 1 /\ r = ((j - 1) % m) + 1
<1>1. PICK n \in Nat : n = k * m
  OBVIOUS
<1>2. PICK a \in 0..(k * m) - 1 : a = j - 1
  BY <1>1
<1>3. PICK d \in 0..k-1, s \in 0..m-1 : d = a \div m /\ s = a % m
  BY RowAndPlace
<1> QED
  BY <1>2, <1>3

LEMMA PlaceOfCell ==
    ASSUME NEW m \in Nat, NEW k \in Nat, NEW c \in 1..k, NEW r \in 1..m
    PROVE  \E j \in 1..k * m : /\ j = (c - 1) * m + r /\ (c - 1) * m \in Nat
                               /\ (j - 1) \div m = c - 1 /\ (j - 1) % m = r - 1
<1>1. PICK q \in Nat, s \in 0..m-1 : q = c - 1 /\ s = r - 1 /\ m \in Nat \ {0}
  OBVIOUS
<1>2. PICK u \in Nat : u = q * m
  BY <1>1
<1>3. PICK j \in Nat : j = u + r
  OBVIOUS
<1>4. PICK e \in Nat : k = q + 1 + e
  <2>1. k - q - 1 \in Nat /\ k = q + 1 + (k - q - 1)
    BY <1>1
  <2> QED
    BY <2>1
<1>5. PICK w \in Nat : w = e * m
  BY <1>4
<1>6. k * m = u + m + w
  BY <1>2, <1>4, <1>5
<1>7. j \in 1..k * m
  BY <1>2, <1>3, <1>5, <1>6
<1>8. (q * m + s) \div m = q /\ (q * m + s) % m = s
  <2>1. q \in Int /\ s \in 0..m - 1 /\ m \in Nat \ {0}
    BY <1>1
  <2> QED
    BY <2>1, DivMod
<1>9. j - 1 = q * m + s
  BY <1>1, <1>2, <1>3
<1> QED
  BY <1>1, <1>2, <1>3, <1>7, <1>8, <1>9

-----------------------------------------------------------------------------
(* The items of a file of the rows of a CSV. *)

Table(s, cols, n, m) ==
    /\ m = IF s = <<>> THEN 0 ELSE n
    /\ s \in Seq(Numeric \cup {"String"}) /\ n \in Nat
    /\ cols \in [1..Len(s) -> Seq(Values)]
    /\ \A c \in 1..Len(s) : Len(cols[c]) = n

Joined(all, hd, ty, body, h, k, l) ==
    /\ all \in Seq(Items) /\ Len(all) = (h + k) + l
    /\ \A c \in 1..h : all[c] = hd[c]
    /\ \A c \in 1..k : all[h + c] = ty[c]
    /\ \A j \in 1..l : all[(h + k) + j] = body[j]

LEMMA ThreeParts ==
    ASSUME NEW hd \in Seq(Items), NEW ty \in Seq(Items), NEW body \in Seq(Items),
           NEW h \in Nat, NEW k \in Nat, NEW l \in Nat,
           Len(hd) = h, Len(ty) = k, Len(body) = l
    PROVE  Joined((hd \o ty) \o body, hd, ty, body, h, k, l)
<1>1. PICK front : front = hd \o ty
  OBVIOUS
<1>2. /\ front \in Seq(Items) /\ Len(front) = h + k
      /\ \A i \in 1..h + k : front[i] = IF i <= h THEN hd[i] ELSE ty[i - h]
  <2>1. /\ hd \o ty \in Seq(Items) /\ Len(hd \o ty) = h + k
        /\ \A i \in 1..h + k : (hd \o ty)[i] = IF i <= h THEN hd[i] ELSE ty[i - h]
    BY ConcatProperties
  <2> QED
    BY <1>1, <2>1
<1>3. PICK hk \in Nat : hk = h + k
  OBVIOUS
<1>4. PICK all : all = front \o body
  OBVIOUS
<1>5. /\ all \in Seq(Items) /\ Len(all) = hk + l
      /\ \A i \in 1..hk + l : all[i] = IF i <= hk THEN front[i] ELSE body[i - hk]
  <2>1. front \in Seq(Items) /\ Len(front) = hk
    BY <1>2, <1>3
  <2>2. /\ front \o body \in Seq(Items) /\ Len(front \o body) = hk + l
        /\ \A i \in 1..hk + l : (front \o body)[i] = IF i <= hk THEN front[i] ELSE body[i - hk]
    BY <2>1, ConcatProperties
  <2> QED
    BY <1>4, <2>2
<1>6. ASSUME NEW c \in 1..h PROVE all[c] = hd[c]
  <2>1. c \in 1..h + k /\ c \in 1..hk + l /\ c <= h /\ c <= hk
    BY <1>3
  <2> QED
    BY <1>2, <1>5, <2>1
<1>7. ASSUME NEW c \in 1..k PROVE all[h + c] = ty[c]
  <2>1. h + c \in 1..h + k /\ h + c \in 1..hk + l /\ ~(h + c <= h) /\ (h + c) - h = c /\ h + c <= hk
    BY <1>3
  <2> QED
    BY <1>2, <1>5, <2>1
<1>8. ASSUME NEW j \in 1..l PROVE all[(h + k) + j] = body[j]
  <2>1. hk + j \in 1..hk + l /\ ~(hk + j <= hk) /\ (hk + j) - hk = j
    BY <1>3
  <2> QED
    BY <1>3, <1>5, <2>1
<1> QED
  BY <1>1, <1>3, <1>4, <1>5, <1>6, <1>7, <1>8 DEF Joined

(* The cells of k columns of m rows, column after column. *)
Body(cols, k, m) ==
    [j \in 1..k * m |-> Item("cell", cols[((j - 1) \div m) + 1][((j - 1) % m) + 1])]

LEMMA CellItems ==
    ASSUME NEW k \in Nat, NEW m \in Nat, NEW cols \in [1..k -> Seq(Values)],
           \A c \in 1..k : Len(cols[c]) = m
    PROVE  /\ Body(cols, k, m) \in Seq(Items)
           /\ k * m \in Nat /\ Len(Body(cols, k, m)) = k * m
           /\ \A c \in 1..k, r \in 1..m :
                \E j \in 1..k * m : /\ j = (c - 1) * m + r /\ (c - 1) * m \in Nat
                                    /\ Body(cols, k, m)[j] = Item("cell", cols[c][r])
<1> DEFINE At(j) == cols[((j - 1) \div m) + 1][((j - 1) % m) + 1]
<1>0. PICK body : body = Body(cols, k, m) /\ body = [j \in 1..k * m |-> Item("cell", At(j))]
  BY DEF Body
<1> HIDE DEF At
<1>1. body \in Seq(Items) /\ k * m \in Nat /\ Len(body) = k * m
  <2>1. ASSUME NEW j \in 1..k * m PROVE Item("cell", At(j)) \in Items
    <3>1. PICK c \in 1..k, r \in 1..m : c = ((j - 1) \div m) + 1 /\ r = ((j - 1) % m) + 1
      BY CellOfPlace
    <3>2. cols[c] \in Seq(Values) /\ r \in 1..Len(cols[c])
      BY <3>1
    <3>3. cols[c][r] \in Values
      BY <3>2, ElementOfSeq
    <3>4. At(j) = cols[c][r]
      BY <3>1 DEF At
    <3> QED
      BY <3>3, <3>4 DEF Items, Item
  <2>2. k * m \in Nat
    OBVIOUS
  <2> QED
    BY <1>0, <2>1, <2>2
<1>2. ASSUME NEW c \in 1..k, NEW r \in 1..m
      PROVE  \E j \in 1..k * m : /\ j = (c - 1) * m + r /\ (c - 1) * m \in Nat
                                 /\ body[j] = Item("cell", cols[c][r])
  <2>1. PICK j \in 1..k * m : /\ j = (c - 1) * m + r /\ (c - 1) * m \in Nat
                             /\ (j - 1) \div m = c - 1 /\ (j - 1) % m = r - 1
    BY PlaceOfCell
  <2>2. At(j) = cols[c][r]
    <3>1. (c - 1) + 1 = c /\ (r - 1) + 1 = r
      OBVIOUS
    <3> QED
      BY <2>1, <3>1 DEF At
  <2> QED
    BY <1>0, <2>1, <2>2
<1> QED
  BY <1>0, <1>1, <1>2

(* An image of k columns of m rows. *)
IsImage(img, s, cols, k, m) ==
    /\ k \in Nat /\ k = Len(s) /\ m \in Nat /\ k * m \in Nat
    /\ img \in Seq(Items) /\ Len(img) = 2 + k + k * m
    /\ img[1] = Item("columns", k) /\ img[2] = Item("rows", m)
    /\ \A c \in 1..k : img[2 + c] = Item("type", s[c])
    /\ \A c \in 1..k, r \in 1..m :
         /\ (c - 1) * m \in Nat /\ (c - 1) * m + r \in 1..k * m
         /\ img[2 + k + ((c - 1) * m + r)] = Item("cell", cols[c][r])

LEMMA ImageItems ==
    ASSUME NEW s, NEW cols, NEW n, NEW m, Table(s, cols, n, m)
    PROVE  IsImage(Image(s, cols), s, cols, Len(s), m)
<1>1. PICK k \in Nat : k = Len(s) /\ DOMAIN s = 1..k
  BY LenProperties DEF Table
<1>2. k # 0 => m = n
  BY <1>1, EmptySeq DEF Table
<1>3. k = 0 => m = 0
  BY <1>1, EmptySeq DEF Table
<1>4. m \in Nat
  BY DEF Table
<1>5. m = IF cols = <<>> THEN 0 ELSE Len(cols[1])
  <2>1. CASE k = 0
    BY <1>1, <1>3, <2>1 DEF Table
  <2>2. CASE k # 0
    <3>1. 1 \in 1..k
      BY <2>2
    <3>2. Len(cols[1]) = n /\ cols # <<>> /\ n \in Nat
      BY <1>1, <3>1 DEF Table
    <3> QED
      BY <1>2, <2>2, <3>2
  <2> QED
    BY <2>1, <2>2
<1>6. cols \in [1..k -> Seq(Values)] /\ \A c \in 1..k : Len(cols[c]) = m
  BY <1>1, <1>2 DEF Table
<1>7. \A c \in 1..k : s[c] \in Values
  <2>1. \A c \in 1..k : s[c] \in Numeric \cup {"String"}
    BY <1>1, ElementOfSeq DEF Table
  <2> QED
    BY <2>1 DEF Values
<1>8. PICK hd : hd = <<Item("columns", k), Item("rows", m)>>
  OBVIOUS
<1>9. hd \in Seq(Items) /\ Len(hd) = 2 /\ hd[1] = Item("columns", k) /\ hd[2] = Item("rows", m)
  <2>1. Item("columns", k) \in Items /\ Item("rows", m) \in Items
    BY <1>1, <1>4 DEF Items, Item
  <2> QED
    BY <1>8, <2>1
<1>10. PICK ty : ty = [c \in 1..k |-> Item("type", s[c])]
  OBVIOUS
<1>11. ty \in Seq(Items) /\ Len(ty) = k /\ \A c \in 1..k : ty[c] = Item("type", s[c])
  <2>1. \A c \in 1..k : Item("type", s[c]) \in Items
    BY <1>7 DEF Items, Item
  <2>2. k \in Nat
    BY <1>1
  <2> QED
    BY <1>10, <2>1, <2>2
<1>12. PICK body : body = Body(cols, k, m)
  OBVIOUS
<1>13. /\ body \in Seq(Items) /\ k * m \in Nat /\ Len(body) = k * m
       /\ \A c \in 1..k, r \in 1..m :
            \E j \in 1..k * m : /\ j = (c - 1) * m + r /\ (c - 1) * m \in Nat
                                /\ body[j] = Item("cell", cols[c][r])
  <2>1. k \in Nat
    BY <1>1
  <2>2. /\ Body(cols, k, m) \in Seq(Items)
        /\ k * m \in Nat /\ Len(Body(cols, k, m)) = k * m
        /\ \A c \in 1..k, r \in 1..m :
             \E j \in 1..k * m : /\ j = (c - 1) * m + r /\ (c - 1) * m \in Nat
                                 /\ Body(cols, k, m)[j] = Item("cell", cols[c][r])
    BY <1>4, <1>6, <2>1, CellItems
  <2> QED
    BY <1>12, <2>2
<1>14. PICK h \in Nat, l \in Nat : h = 2 /\ l = k * m
  BY <1>13
<1>15. PICK all : all = (hd \o ty) \o body
  OBVIOUS
<1>16. /\ all \in Seq(Items) /\ Len(all) = (h + k) + l
       /\ \A c \in 1..h : all[c] = hd[c]
       /\ \A c \in 1..k : all[h + c] = ty[c]
       /\ \A j \in 1..l : all[(h + k) + j] = body[j]
  <2>1. Len(hd) = h /\ Len(ty) = k /\ Len(body) = l /\ k \in Nat
    BY <1>1, <1>9, <1>11, <1>13, <1>14
  <2>2. hd \in Seq(Items) /\ ty \in Seq(Items) /\ body \in Seq(Items)
    BY <1>9, <1>11, <1>13
  <2>3. Joined((hd \o ty) \o body, hd, ty, body, h, k, l)
    BY <2>1, <2>2, ThreeParts
  <2> QED
    BY <1>15, <2>3 DEF Joined
<1>17. Image(s, cols) = all
  BY <1>1, <1>5, <1>8, <1>10, <1>12, <1>15 DEF Image, Header, Body
<1>18. all[1] = Item("columns", k) /\ all[2] = Item("rows", m)
  BY <1>9, <1>14, <1>16
<1>19. \A c \in 1..k : all[2 + c] = Item("type", s[c])
  BY <1>11, <1>14, <1>16
<1>20. ASSUME NEW c \in 1..k, NEW r \in 1..m
       PROVE  /\ (c - 1) * m \in Nat /\ (c - 1) * m + r \in 1..k * m
              /\ all[2 + k + ((c - 1) * m + r)] = Item("cell", cols[c][r])
  <2>1. PICK j \in 1..l : /\ j = (c - 1) * m + r /\ (c - 1) * m \in Nat
                         /\ body[j] = Item("cell", cols[c][r])
    BY <1>13, <1>14
  <2> QED
    BY <1>14, <1>16, <2>1
<1>21. k * m \in Nat /\ Len(all) = 2 + k + k * m
  BY <1>13, <1>14, <1>16
<1> QED
  BY <1>1, <1>4, <1>16, <1>17, <1>18, <1>19, <1>20, <1>21 DEF IsImage
-----------------------------------------------------------------------------
(* What a cell is stored as: a text again, and one that is stored as it is. *)
LEMMA StoredText ==
    ASSUME NEW ty \in Numeric \cup {"String"}, NEW text \in Values, Accepted(ty, text)
    PROVE  /\ Stored(ty, text) \in Values
           /\ Accepted(ty, Stored(ty, text))
           /\ Stored(ty, Stored(ty, text)) = Stored(ty, text)
<1>1. CASE ty = "String"
  BY <1>1 DEF Stored, Accepted, Numeric
<1>2. CASE ty \in Numeric
  <2>1. ty # "String"
    BY <1>2 DEF Numeric
  <2>2. Stored(ty, text) \in DOMAIN Printed[ty]
    BY <1>2, <2>1, PrintedAssumption DEF Stored, Accepted
  <2>3. Stored(ty, text) # ""
    BY <1>2, <2>2, PrintedAssumption
  <2>4. Printed[ty][Stored(ty, text)] = Stored(ty, text)
    BY <1>2, <2>1, PrintedAssumption DEF Stored, Accepted
  <2>5. Stored(ty, Stored(ty, text)) = Printed[ty][Stored(ty, text)]
    BY <2>1, <2>3 DEF Stored
  <2> QED
    BY <1>2, <2>2, <2>4, <2>5 DEF Accepted, Values
<1> QED
  BY <1>1, <1>2

LEMMA StoredZero ==
    ASSUME NEW ty \in Numeric \cup {"String"}
    PROVE  Zero[ty] \in Values /\ Stored(ty, Zero[ty]) = Zero[ty]
<1>1. CASE ty = "String"
  BY <1>1, EmptyAssumption DEF Stored, Values
<1>2. CASE ty \in Numeric
  <2>1. ty # "String"
    BY <1>2 DEF Numeric
  <2>2. Zero[ty] \in DOMAIN Printed[ty] /\ Printed[ty][Zero[ty]] = Zero[ty]
    BY <1>2, PrintedAssumption
  <2> QED
    BY <1>2, <2>1, <2>2 DEF Stored, Values
<1> QED
  BY <1>1, <1>2

(* The rows of a CSV, of any length. *)
TextRows == Seq(Seq(Values))

(* The columns of rows that fit. *)
LEMMA ColumnsOfRows ==
    ASSUME LegacyTypeOK, NEW rows \in TextRows, NEW n \in 0..Len(rows),
           \A r \in 1..n : Fits(rows[r])
    PROVE  /\ Table(schema, Columns(rows, n), n, IF schema = <<>> THEN 0 ELSE n)
           /\ \A c \in 1..Len(schema), r \in 1..n :
                Columns(rows, n)[c][r] = Stored(schema[c], rows[r][c])
<1>1. PICK k \in Nat : k = Len(schema) /\ DOMAIN schema = 1..k
  BY LenProperties DEF LegacyTypeOK
<1>2. ASSUME NEW c \in 1..k, NEW r \in 1..n
      PROVE  Stored(schema[c], rows[r][c]) \in Values
  <2>1. rows[r] \in Seq(Values)
    BY ElementOfSeq DEF TextRows
  <2>2. Len(rows[r]) = k /\ DOMAIN rows[r] = 1..k
    BY <1>1, <2>1, LenProperties DEF Fits
  <2>3. rows[r][c] \in Values
    BY <2>1, <2>2, ElementOfSeq
  <2>4. schema[c] \in Numeric \cup {"String"}
    BY <1>1, ElementOfSeq DEF LegacyTypeOK
  <2>5. Accepted(schema[c], rows[r][c])
    BY <2>2 DEF Fits
  <2> QED
    BY <2>3, <2>4, <2>5, StoredText
<1>3. ASSUME NEW c \in 1..k
      PROVE  /\ Columns(rows, n)[c] = [r \in 1..n |-> Stored(schema[c], rows[r][c])]
             /\ Columns(rows, n)[c] \in Seq(Values) /\ Len(Columns(rows, n)[c]) = n
  <2>1. Columns(rows, n)[c] = [r \in 1..n |-> Stored(schema[c], rows[r][c])]
    BY <1>1 DEF Columns
  <2>2. n \in Nat
    OBVIOUS
  <2> QED
    BY <1>2, <2>1, <2>2
<1>4. Columns(rows, n) \in [1..k -> Seq(Values)]
  BY <1>1, <1>3 DEF Columns
<1>5. n \in Nat
  OBVIOUS
<1>6. Table(schema, Columns(rows, n), n, IF schema = <<>> THEN 0 ELSE n)
  BY <1>1, <1>3, <1>4, <1>5 DEF Table, LegacyTypeOK
<1>7. ASSUME NEW c \in 1..k, NEW r \in 1..n
      PROVE  Columns(rows, n)[c][r] = Stored(schema[c], rows[r][c])
  BY <1>3
<1> QED
  BY <1>1, <1>6, <1>7
(* The file of rows that fit: k columns of m rows. *)
Holds(img, rows, k, m) ==
    /\ k # 0 => m = Len(rows)
    /\ \E cols : /\ IsImage(img, schema, cols, k, m)
                 /\ \A c \in 1..k, r \in 1..m : cols[c][r] = Stored(schema[c], rows[r][c])

LEMMA FileOfRows ==
    ASSUME LegacyTypeOK, NEW rows \in TextRows, \A r \in 1..Len(rows) : Fits(rows[r])
    PROVE  \E k, m : Holds(Image(schema, Columns(rows, Len(rows))), rows, k, m)
<1>1. PICK n \in Nat : n = Len(rows)
  BY DEF TextRows
<1>2. PICK m : m = IF schema = <<>> THEN 0 ELSE n
  OBVIOUS
<1>3. PICK cols : cols = Columns(rows, n)
  OBVIOUS
<1>4. /\ Table(schema, Columns(rows, n), n, IF schema = <<>> THEN 0 ELSE n)
      /\ \A c \in 1..Len(schema), r \in 1..n :
           Columns(rows, n)[c][r] = Stored(schema[c], rows[r][c])
  BY <1>1, ColumnsOfRows
<1>5. /\ Table(schema, cols, n, m)
      /\ \A c \in 1..Len(schema), r \in 1..n : cols[c][r] = Stored(schema[c], rows[r][c])
  BY <1>2, <1>3, <1>4
<1>6. PICK img : img = Image(schema, cols)
  OBVIOUS
<1>7. PICK k : k = Len(schema)
  OBVIOUS
<1>8. IsImage(img, schema, cols, k, m)
  BY <1>5, <1>6, <1>7, ImageItems
<1>9. k # 0 => m = n
  BY <1>2, <1>7, EmptySeq DEF LegacyTypeOK
<1>10. \A c \in 1..k, r \in 1..m : cols[c][r] = Stored(schema[c], rows[r][c])
  <2> SUFFICES ASSUME NEW c \in 1..k, NEW r \in 1..m
               PROVE  cols[c][r] = Stored(schema[c], rows[r][c])
    OBVIOUS
  <2>1. k # 0
    BY <1>8 DEF IsImage
  <2> QED
    BY <1>5, <1>7, <1>9, <2>1
<1>11. Holds(img, rows, k, m)
  BY <1>1, <1>8, <1>9, <1>10 DEF Holds
<1> QED
  BY <1>1, <1>3, <1>6, <1>11
-----------------------------------------------------------------------------
(* What is read of a file that was cut off. *)
LEMMA PartIsNoOther ==
    /\ Part \in Items /\ Part.kind = "part"
    /\ \A v : Item("columns", v) # Part /\ Item("rows", v) # Part
             /\ Item("type", v) # Part /\ Item("cell", v) # Part
  BY DEF Part, Item, Items, Values

LEMMA CutOffIsCut ==
    ASSUME NEW items \in Seq(Items), NEW f \in CutOff(items)
    PROVE  IsCut(f, items)
<1>1. PICK n \in 0..Len(items) - 1 : f \in {SubSeq(items, 1, n), Append(SubSeq(items, 1, n), Part)}
  BY DEF CutOff
<1>2. n \in Nat /\ n < Len(items) /\ Len(items) \in Nat
  OBVIOUS
<1>3. PICK g : g = SubSeq(items, 1, n)
  OBVIOUS
<1>4. g \in Seq(Items) /\ Len(g) = n /\ \A i \in 1..n : g[i] = items[i]
  <2>1. \A i \in 1..n : items[i] \in Items
    BY <1>2, ElementOfSeq
  <2> QED
    BY <1>2, <1>3, <2>1
<1>5. CASE f = g
  BY <1>2, <1>4, <1>5 DEF IsCut
<1>6. CASE f = Append(g, Part)
  <2>1. /\ f \in Seq(Items) /\ Len(f) = n + 1 /\ f[n + 1] = Part
        /\ \A i \in 1..n : f[i] = g[i]
    BY <1>2, <1>4, <1>6, PartIsNoOther, AppendProperties
  <2>2. ASSUME NEW i \in 1..n + 1
        PROVE  f[i] = items[i] \/ (i = n + 1 /\ f[i] = Part)
    BY <1>2, <1>4, <2>1
  <2> QED
    BY <1>2, <2>1, <2>2 DEF IsCut
<1> QED
  BY <1>1, <1>3, <1>5, <1>6

LEMMA HeaderOfCut ==
    ASSUME NEW img, NEW cols, NEW k, NEW m, IsImage(img, schema, cols, k, m),
           NEW f, IsCut(f, img), f # NoFile
    PROVE  /\ HeaderRead(f) => /\ f[1].value = k /\ f[2].value = m /\ HeaderLength(f) = 2 + k
                              /\ Len(f) >= 2 + k
                              /\ \A c \in 1..k : f[2 + c].value = schema[c]
           /\ ~HeaderRead(f) => Len(f) <= 2 + k
<1>1. PICK n \in Nat : n = Len(f)
  BY DEF IsCut
<1>2. k \in Nat /\ m \in Nat /\ n <= Len(img) /\ \A i \in 1..n : f[i] = img[i] \/ (i = n /\ f[i] = Part)
  BY <1>1 DEF IsImage, IsCut
<1>3. n >= 2 => f[1] = Item("columns", k) /\ f[1].value = k /\ HeaderLength(f) = 2 + k
  <2>1. n >= 2 => f[1] = img[1]
    BY <1>1, <1>2
  <2> QED
    BY <2>1 DEF IsImage, Item, HeaderLength
<1>4. HeaderRead(f) => n >= 2 /\ n >= 2 + k /\ f[2].value = m
  <2> SUFFICES ASSUME HeaderRead(f) PROVE n >= 2 /\ n >= 2 + k /\ f[2].value = m
    OBVIOUS
  <2>1. n >= 2 /\ f[2].kind = "rows" /\ n >= HeaderLength(f)
    BY <1>1 DEF HeaderRead
  <2>2. f[2] # Part
    BY <2>1, PartIsNoOther
  <2>3. f[2] = Item("rows", m)
    BY <1>2, <2>1, <2>2 DEF IsImage
  <2> QED
    BY <1>3, <2>1, <2>3 DEF Item
<1>5. HeaderRead(f) => \A c \in 1..k : f[2 + c].value = schema[c]
  <2> SUFFICES ASSUME HeaderRead(f), NEW c \in 1..k PROVE f[2 + c].value = schema[c]
    OBVIOUS
  <2>1. 2 + c \in 3..HeaderLength(f) /\ 2 + c \in 1..n
    BY <1>2, <1>3, <1>4
  <2>2. f[2 + c].kind = "type"
    BY <2>1 DEF HeaderRead
  <2>3. f[2 + c] # Part
    BY <2>2, PartIsNoOther
  <2>4. f[2 + c] = Item("type", schema[c])
    BY <1>2, <2>1, <2>3 DEF IsImage
  <2> QED
    BY <2>4 DEF Item
<1>6. ~HeaderRead(f) => n <= 2 + k
  <2> SUFFICES ASSUME ~(n <= 2 + k) PROVE HeaderRead(f)
    OBVIOUS
  <2>1. n >= 2 /\ n >= HeaderLength(f)
    BY <1>2, <1>3
  <2>2. f[2] = Item("rows", m)
    <3>1. 2 \in 1..n /\ 2 # n
      BY <1>2
    <3> QED
      BY <1>2, <3>1 DEF IsImage
  <2>3. ASSUME NEW i \in 3..HeaderLength(f) PROVE f[i].kind = "type"
    <3>1. PICK c \in 1..k : i = 2 + c
      <4>1. i - 2 \in 1..k /\ i = 2 + (i - 2)
        BY <1>2, <1>3, <2>1
      <4> QED
        BY <4>1
    <3>2. i \in 1..n /\ i # n
      BY <1>2, <3>1
    <3>3. f[i] = Item("type", schema[c])
      BY <1>2, <3>1, <3>2 DEF IsImage
    <3> QED
      BY <3>3 DEF Item
  <2> QED
    BY <1>1, <2>1, <2>2, <2>3 DEF HeaderRead, Item
<1> QED
  BY <1>1, <1>3, <1>4, <1>5, <1>6

LEMMA CellOfCut ==
    ASSUME NEW img, NEW cols, NEW k, NEW m, IsImage(img, schema, cols, k, m),
           NEW f, IsCut(f, img), f # NoFile, HeaderRead(f),
           NEW c \in 1..k, NEW r \in 1..m
    PROVE  /\ \/ Cell(f, c, r) = cols[c][r]
              \/ /\ Len(f) <= HeaderLength(f) + (c - 1) * m + r
                 /\ Cell(f, c, r) \in {Torn, Zero[schema[c]]}
           /\ f = img => Cell(f, c, r) = cols[c][r]
<1>1. PICK n \in Nat : n = Len(f)
  BY DEF IsCut
<1>2. /\ k \in Nat /\ m \in Nat /\ k * m \in Nat /\ n <= Len(img) /\ Len(img) = 2 + k + k * m
      /\ \A i \in 1..n : f[i] = img[i] \/ (i = n /\ f[i] = Part)
  BY <1>1 DEF IsImage, IsCut
<1>3. f[2].value = m /\ HeaderLength(f) = 2 + k /\ f[2 + c].value = schema[c]
  BY HeaderOfCut
<1>4. PICK u \in Nat : u = (c - 1) * m /\ u + r \in 1..k * m
  BY DEF IsImage
<1>5. PICK i \in Nat : i = 2 + k + (u + r)
  BY <1>2, <1>4
<1>6. i = HeaderLength(f) + (c - 1) * m + r /\ i >= 1 /\ i <= Len(img)
  <2>1. PICK l \in Nat : l = k * m
    BY <1>2
  <2>2. i >= 1 /\ i <= 2 + k + l
    BY <1>2, <1>4, <1>5, <2>1
  <2>3. i = (2 + k) + u + r
    BY <1>2, <1>5
  <2> QED
    BY <1>2, <1>3, <1>4, <2>1, <2>2, <2>3
<1>7. img[i] = Item("cell", cols[c][r])
  BY <1>4, <1>5 DEF IsImage
<1>8. Cell(f, c, r) = IF i > n THEN Zero[schema[c]] ELSE IF f[i] = Part THEN Torn ELSE f[i].value
  BY <1>1, <1>3, <1>6 DEF Cell
<1>9. CASE i > n
  BY <1>1, <1>6, <1>8, <1>9
<1>10. CASE i <= n /\ f[i] = Part
  <2>1. f[i] # img[i]
    BY <1>7, <1>10, PartIsNoOther
  <2>2. i = n
    BY <1>2, <1>6, <1>10, <2>1
  <2> QED
    BY <1>1, <1>6, <1>8, <1>10, <2>1, <2>2
<1>11. CASE i <= n /\ f[i] # Part
  <2>1. f[i] = Item("cell", cols[c][r])
    BY <1>2, <1>6, <1>7, <1>11
  <2> QED
    BY <1>8, <1>11, <2>1 DEF Item
<1> QED
  BY <1>9, <1>10, <1>11
-----------------------------------------------------------------------------
(* The invariant, step by step. *)
LEMMA InitialRows ==
    ASSUME NEW w \in Nat, NEW n \in Nat, NEW rows \in BoundedSeq(Rows(w), n)
    PROVE  rows \in TextRows
<1>1. PICK l \in 0..n : rows \in [1..l -> Rows(w)]
  BY DEF BoundedSeq, SeqOf
<1>2. Rows(w) \subseteq Seq(Values)
  <2>1. [1..w -> Texts] \subseteq Seq(Values)
    <3> SUFFICES ASSUME NEW f \in [1..w -> Texts] PROVE f \in Seq(Values)
      OBVIOUS
    <3>1. \A c \in 1..w : f[c] \in Values
      BY DEF Values
    <3> QED
      BY <3>1
  <2>2. LongRow(w) \in Seq(Values)
    <3>1. PICK k \in Nat : k = w + 1
      OBVIOUS
    <3>2. PICK e \in Values : e = ""
      BY DEF Values
    <3>3. [c \in 1..k |-> e] \in Seq(Values)
      OBVIOUS
    <3> QED
      BY <3>1, <3>2, <3>3 DEF LongRow
  <2> QED
    BY <2>1, <2>2 DEF Rows
<1>3. l \in Nat /\ \A i \in 1..l : rows[i] \in Seq(Values)
  BY <1>1, <1>2
<1> QED
  BY <1>1, <1>3 DEF TextRows

LEMMA InitHasInv == Init => LegacyInv
<1> SUFFICES ASSUME Init PROVE LegacyInv
  OBVIOUS
<1>1. schema \in Seq(Numeric \cup {"String"})
  BY SchemasAssumption DEF Init
<1>2. csv \in TextRows
  <2>1. Len(schema) \in Nat
    BY <1>1
  <2> QED
    BY <2>1, BoundsAssumption, InitialRows DEF Init
<1>3. <<>> \in TextRows /\ Len(csv) \in Nat
  BY <1>2 DEF TextRows
<1>4. LegacyTypeOK
  BY <1>1, <1>2, <1>3 DEF Init, LegacyTypeOK, TextRows, Nothing
<1>5. ReadSoFar
  <2>1. \A c \in DOMAIN schema : <<>> = [r \in 1..0 |-> Stored(schema[c], csv[r][c])]
    OBVIOUS
  <2>2. columns = Columns(csv, at)
    BY <2>1 DEF Init, Columns
  <2> QED
    BY <2>2 DEF Init, ReadSoFar
<1>6. DiskInv
  BY DEF Init, DiskInv, Nothing
<1>7. RoundInv /\ FailureKeepsTheFile /\ ReadsWhatIsThere
  BY DEF Init, RoundInv, FailureKeepsTheFile, ReadsWhatIsThere
<1> QED
  BY <1>4, <1>5, <1>6, <1>7 DEF LegacyInv

LEMMA ReadRowKeepsInv == LegacyInv /\ ReadRow => LegacyInv'
<1> SUFFICES ASSUME LegacyInv, ReadRow PROVE LegacyInv'
  OBVIOUS
<1>1. LegacyTypeOK /\ ReadSoFar /\ DiskInv /\ RoundInv
  BY DEF LegacyInv
<1>2. /\ pc = "reading" /\ at < Len(csv) /\ Fits(csv[at + 1]) /\ at' = at + 1
      /\ columns' = [c \in DOMAIN columns |-> Append(columns[c], Stored(schema[c], csv[at + 1][c]))]
      /\ UNCHANGED <<schema, csv, bc, buf, disk, pc, back, round, was, from>>
  BY DEF ReadRow, input
<1>3. at \in Nat /\ Len(csv) \in Nat /\ csv \in TextRows /\ at \in 0..Len(csv) /\ at + 1 \in 1..Len(csv)
  BY <1>1, <1>2 DEF LegacyTypeOK, TextRows
<1>4. LegacyTypeOK'
  BY <1>1, <1>2, <1>3 DEF LegacyTypeOK
<1>5. ReadSoFar'
  <2>1. \A r \in 1..at + 1 : Fits(csv[r])
    BY <1>1, <1>2, <1>3 DEF ReadSoFar
  <2>2. \A r \in 1..at' : Fits(csv[r])'
    BY <1>2, <2>1 DEF Fits
  <2>3. DOMAIN columns = DOMAIN schema
    BY <1>1 DEF ReadSoFar, Columns
  <2>4. ASSUME NEW c \in DOMAIN schema
        PROVE  Append(columns[c], Stored(schema[c], csv[at + 1][c]))
                 = [r \in 1..at + 1 |-> Stored(schema[c], csv[r][c])]
    <3>1. columns[c] = [r \in 1..at |-> Stored(schema[c], csv[r][c])]
      BY <1>1 DEF ReadSoFar, Columns
    <3>2. \A r \in 1..at : Stored(schema[c], csv[r][c]) \in {Stored(schema[c], csv[x][c]) : x \in Nat}
      OBVIOUS
    <3>3. columns[c] \in Seq({Stored(schema[c], csv[x][c]) : x \in Nat}) /\ Len(columns[c]) = at
      BY <1>3, <3>1, <3>2
    <3> QED
      BY <1>3, <3>1, <3>3
  <2>5. columns' = Columns(csv, at + 1)
    BY <1>2, <2>3, <2>4 DEF Columns
  <2>6. columns' = Columns(csv, at)'
    BY <1>2, <2>5 DEF Columns, Stored
  <2> QED
    BY <2>2, <2>6 DEF ReadSoFar
<1>6. DiskInv'
  BY <1>1, <1>2 DEF DiskInv, Fits, Columns
<1>7. RoundInv'
  BY <1>1, <1>2 DEF RoundInv, Fits, Settled
<1>8. FailureKeepsTheFile' /\ ReadsWhatIsThere'
  BY <1>2 DEF FailureKeepsTheFile, ReadsWhatIsThere
<1> QED
  BY <1>4, <1>5, <1>6, <1>7, <1>8 DEF LegacyInv

LEMMA RejectRowKeepsInv == LegacyInv /\ RejectRow => LegacyInv'
<1> SUFFICES ASSUME LegacyInv, RejectRow PROVE LegacyInv'
  OBVIOUS
<1>1. LegacyTypeOK /\ ReadSoFar /\ DiskInv /\ RoundInv
  BY DEF LegacyInv
<1>2. /\ pc = "reading" /\ at < Len(csv) /\ pc' = "failed"
      /\ UNCHANGED <<schema, csv, bc, at, columns, buf, disk, back, round, was, from>>
  BY DEF RejectRow, input
<1>3. LegacyTypeOK'
  BY <1>1, <1>2 DEF LegacyTypeOK
<1>4. ReadSoFar'
  BY <1>1, <1>2 DEF ReadSoFar, Columns, Fits
<1>5. at # Len(csv)
  BY <1>1, <1>2 DEF LegacyTypeOK
<1>6. DiskInv'
  BY <1>1, <1>2, <1>5 DEF DiskInv, Fits, Columns
<1>7. RoundInv'
  BY <1>1, <1>2 DEF RoundInv, Fits, Settled
<1>8. FailureKeepsTheFile' /\ ReadsWhatIsThere'
  BY <1>1, <1>2, <1>5 DEF FailureKeepsTheFile, ReadsWhatIsThere, DiskInv
<1> QED
  BY <1>3, <1>4, <1>6, <1>7, <1>8 DEF LegacyInv
LEMMA WriteFileKeepsInv == LegacyInv /\ WriteFile => LegacyInv'
<1> SUFFICES ASSUME LegacyInv, WriteFile PROVE LegacyInv'
  OBVIOUS
<1>1. LegacyTypeOK /\ ReadSoFar /\ DiskInv /\ RoundInv
  BY DEF LegacyInv
<1>2. /\ pc = "reading" /\ at = Len(csv) /\ disk' = Nothing
      /\ bc => pc' = "writing" /\ buf' = Image(schema, columns) /\ from' = csv
      /\ ~bc => pc' = "failed" /\ from' = from
      /\ UNCHANGED <<schema, csv, bc, at, columns, back, round, was>>
  BY DEF WriteFile, input
<1>3. bc \in BOOLEAN
  BY <1>1 DEF LegacyTypeOK
<1>4. LegacyTypeOK'
  BY <1>1, <1>2, <1>3 DEF LegacyTypeOK
<1>5. ReadSoFar'
  BY <1>1, <1>2 DEF ReadSoFar, Columns, Fits
<1>6. DiskInv'
  <2>1. CASE bc
    <3>1. columns = Columns(csv, Len(csv)) /\ \A r \in 1..Len(csv) : Fits(csv[r])
      BY <1>1, <1>2 DEF ReadSoFar
    <3>2. PICK k, m : Holds(Image(schema, columns), csv, k, m)
      BY <1>1, <3>1, FileOfRows DEF LegacyTypeOK, TextRows
    <3>3. Image(schema, columns) \in Seq(Items)
      BY <3>2 DEF Holds, IsImage
    <3>4. IsCut(<<>>, Image(schema, columns))
      BY <3>3 DEF IsCut
    <3>5. Columns(csv, Len(csv)) = Columns(from, Len(from))'
      BY <1>2, <2>1 DEF Columns
    <3>6. Image(schema, columns) = Image(schema, Columns(from, Len(from)))'
      BY <1>2, <3>1, <3>5
    <3>7. \A r \in 1..Len(from') : Fits(from[r])'
      BY <1>2, <2>1, <3>1 DEF Fits
    <3> QED
      BY <1>2, <2>1, <3>4, <3>6, <3>7 DEF DiskInv, Nothing
  <2>2. CASE ~bc
    BY <1>1, <1>2, <2>2 DEF DiskInv, Fits
  <2> QED
    BY <2>1, <2>2
<1>7. RoundInv'
  BY <1>1, <1>2, <1>3 DEF RoundInv, Fits, Settled
<1>8. FailureKeepsTheFile' /\ ReadsWhatIsThere'
  BY <1>2, <1>3 DEF FailureKeepsTheFile, ReadsWhatIsThere
<1> QED
  BY <1>4, <1>5, <1>6, <1>7, <1>8 DEF LegacyInv

LEMMA CloseKeepsInv == LegacyInv /\ (Close \/ CloseShort) => LegacyInv'
<1> SUFFICES ASSUME LegacyInv, Close \/ CloseShort PROVE LegacyInv'
  OBVIOUS
<1>1. LegacyTypeOK /\ ReadSoFar /\ DiskInv /\ RoundInv
  BY DEF LegacyInv
<1>2. /\ pc = "writing" /\ pc' \in {"written", "killed"}
      /\ disk' = buf \/ disk' \in CutOff(buf)
      /\ UNCHANGED <<schema, csv, bc, at, columns, buf, back, round, was, from>>
  BY DEF Close, CloseShort, input
<1>3. LegacyTypeOK'
  BY <1>1, <1>2 DEF LegacyTypeOK
<1>4. ReadSoFar'
  BY <1>1, <1>2 DEF ReadSoFar, Columns, Fits
<1>5. /\ bc /\ buf = Image(schema, Columns(from, Len(from))) /\ at = Len(csv) /\ from = csv
      /\ \A r \in 1..Len(from) : Fits(from[r])
  BY <1>1, <1>2 DEF DiskInv
<1>6. buf \in Seq(Items)
  <2>1. PICK k, m : Holds(buf, from, k, m)
    BY <1>1, <1>5, FileOfRows DEF LegacyTypeOK, TextRows
  <2> QED
    BY <2>1 DEF Holds, IsImage
<1>7. IsCut(disk', buf)
  <2>1. IsCut(buf, buf)
    BY <1>6 DEF IsCut
  <2> QED
    BY <1>2, <1>6, <2>1, CutOffIsCut
<1>8. DiskInv'
  BY <1>1, <1>2, <1>5, <1>7 DEF DiskInv, Fits, Columns
<1>9. RoundInv'
  BY <1>1, <1>2 DEF RoundInv, Fits, Settled
<1>10. FailureKeepsTheFile' /\ ReadsWhatIsThere'
  BY <1>2 DEF FailureKeepsTheFile, ReadsWhatIsThere
<1> QED
  BY <1>3, <1>4, <1>8, <1>9, <1>10 DEF LegacyInv

(* The file that is there to be read: what was written of the rows of from. *)
LEMMA FileToRestore ==
    ASSUME LegacyInv, CanRestore, disk # NoFile
    PROVE  \E k, m, cols :
             LET img == Image(schema, Columns(from, Len(from)))
             IN  /\ IsImage(img, schema, cols, k, m) /\ IsCut(disk, img)
                 /\ k # 0 => m = Len(from)
                 /\ \A c \in 1..k, r \in 1..m : cols[c][r] = Given(r, c)
<1>1. PICK img : img = Image(schema, Columns(from, Len(from)))
  OBVIOUS
<1>2. LegacyTypeOK /\ DiskInv
  BY DEF LegacyInv
<1>3. IsCut(disk, img)
  BY <1>1, <1>2 DEF DiskInv, CanRestore
<1>4. PICK k, m : Holds(img, from, k, m)
  BY <1>1, <1>2, FileOfRows DEF LegacyTypeOK, TextRows, DiskInv
<1> QED
  BY <1>1, <1>3, <1>4 DEF Holds, Given

LEMMA UndefinedKeepsInv == LegacyInv /\ (NoFileToRestore \/ Undefined) => LegacyInv'
<1> SUFFICES ASSUME LegacyInv, NoFileToRestore \/ Undefined PROVE LegacyInv'
  OBVIOUS
<1>1. LegacyTypeOK /\ ReadSoFar /\ DiskInv /\ RoundInv
  BY DEF LegacyInv
<1>2. /\ pc' \in {"no file", "undefined"}
      /\ pc' = "undefined" => Undefined
      /\ UNCHANGED <<schema, csv, bc, at, columns, buf, disk, back, round, was, from>>
  BY DEF NoFileToRestore, Undefined, input
<1>3. LegacyTypeOK'
  BY <1>1, <1>2 DEF LegacyTypeOK
<1>4. ReadSoFar'
  BY <1>1, <1>2 DEF ReadSoFar, Columns, Fits
<1>5. DiskInv'
  BY <1>1, <1>2 DEF DiskInv, Fits, Columns
<1>6. RoundInv'
  BY <1>1, <1>2 DEF RoundInv, Fits, Settled
<1>7. ASSUME Undefined PROVE schema = <<>> \/ Len(disk) <= 2 + Len(schema)
  <2>1. CanRestore /\ disk # NoFile /\ (HeaderRead(disk) => disk[1].value = 0)
    BY <1>7 DEF Undefined
  <2>2. PICK img, k, m, cols : IsImage(img, schema, cols, k, m) /\ IsCut(disk, img)
    BY <2>1, FileToRestore
  <2>3. (HeaderRead(disk) => disk[1].value = k) /\ (~HeaderRead(disk) => Len(disk) <= 2 + k)
    BY <2>1, <2>2, HeaderOfCut
  <2>4. k = Len(schema)
    BY <2>2 DEF IsImage
  <2>5. Len(schema) = 0 => schema = <<>>
    BY <1>1, EmptySeq DEF LegacyTypeOK
  <2> QED
    BY <2>1, <2>3, <2>4, <2>5
<1>8. FailureKeepsTheFile' /\ ReadsWhatIsThere'
  BY <1>2, <1>7 DEF FailureKeepsTheFile, ReadsWhatIsThere
<1> QED
  BY <1>3, <1>4, <1>5, <1>6, <1>8 DEF LegacyInv
(* What a cell of the rows of from was stored as. *)
LEMMA GivenText ==
    ASSUME LegacyTypeOK, DiskInv, NEW r \in 1..Len(from), NEW c \in 1..Len(schema)
    PROVE  Given(r, c) \in Values /\ Stored(schema[c], Given(r, c)) = Given(r, c)
<1>1. from \in TextRows /\ from[r] \in Seq(Values)
  BY ElementOfSeq DEF LegacyTypeOK, TextRows
<1>2. Fits(from[r])
  BY DEF DiskInv
<1>3. Len(from[r]) = Len(schema) /\ DOMAIN from[r] = 1..Len(schema)
  BY <1>1, <1>2, LenProperties DEF Fits
<1>4. from[r][c] \in Values
  BY <1>1, <1>3, ElementOfSeq
<1>5. schema[c] \in Numeric \cup {"String"}
  BY ElementOfSeq DEF LegacyTypeOK
<1>6. Accepted(schema[c], from[r][c])
  BY <1>2, <1>3 DEF Fits
<1> QED
  BY <1>4, <1>5, <1>6, StoredText DEF Given

LEMMA RestoreKeepsInv == LegacyInv /\ Restore => LegacyInv'
<1> SUFFICES ASSUME LegacyInv, Restore PROVE LegacyInv'
  OBVIOUS
<1>1. LegacyTypeOK /\ ReadSoFar /\ DiskInv /\ RoundInv
  BY DEF LegacyInv
<1>2. /\ CanRestore /\ HeaderRead(disk) /\ disk[1].value > 0
      /\ back' = [r \in 1..disk[2].value |-> [c \in 1..disk[1].value |-> Cell(disk, c, r)]]
      /\ pc' = "restored"
      /\ UNCHANGED <<schema, csv, bc, at, columns, buf, disk, round, was, from>>
  BY DEF Restore, input
<1>3. disk # NoFile /\ bc
  BY <1>2 DEF HeaderRead, CanRestore
<1>4. PICK img : img = Image(schema, Columns(from, Len(from)))
  OBVIOUS
<1>5. PICK k, m, cols :
        /\ IsImage(img, schema, cols, k, m) /\ IsCut(disk, img)
        /\ k # 0 => m = Len(from)
        /\ \A c \in 1..k, r \in 1..m : cols[c][r] = Given(r, c)
  BY <1>2, <1>3, <1>4, FileToRestore
<1>6. k \in Nat /\ k = Len(schema) /\ m \in Nat /\ disk[1].value = k /\ disk[2].value = m
  <2>1. disk[1].value = k /\ disk[2].value = m
    BY <1>2, <1>3, <1>5, HeaderOfCut
  <2> QED
    BY <1>5, <2>1 DEF IsImage
<1>7. m = Len(from)
  BY <1>2, <1>5, <1>6
<1>8. ASSUME NEW r \in 1..m, NEW c \in 1..k
      PROVE  /\ \/ Cell(disk, c, r) = Given(r, c)
                \/ /\ Len(disk) <= HeaderLength(disk) + (c - 1) * m + r
                   /\ Cell(disk, c, r) \in {Torn, Zero[schema[c]]}
             /\ disk = img => Cell(disk, c, r) = Given(r, c)
             /\ Cell(disk, c, r) \in Values
  <2>1. cols[c][r] = Given(r, c)
    BY <1>5
  <2>2. /\ \/ Cell(disk, c, r) = cols[c][r]
           \/ /\ Len(disk) <= HeaderLength(disk) + (c - 1) * m + r
              /\ Cell(disk, c, r) \in {Torn, Zero[schema[c]]}
        /\ disk = img => Cell(disk, c, r) = cols[c][r]
    BY <1>2, <1>3, <1>5, CellOfCut
  <2>3. Given(r, c) \in Values
    BY <1>1, <1>6, <1>7, GivenText
  <2>4. Zero[schema[c]] \in Values /\ Torn \in Values
    <3>1. schema[c] \in Numeric \cup {"String"}
      BY <1>1, <1>6, ElementOfSeq DEF LegacyTypeOK
    <3> QED
      BY <3>1, StoredZero DEF Values
  <2> QED
    BY <2>1, <2>2, <2>3, <2>4
<1>9. back' = [r \in 1..m |-> [c \in 1..k |-> Cell(disk, c, r)]]
  BY <1>2, <1>6
<1>10. ASSUME NEW r \in 1..m
       PROVE  back'[r] \in Seq(Values) /\ Len(back'[r]) = k /\ \A c \in 1..k : back'[r][c] = Cell(disk, c, r)
  <2>1. back'[r] = [c \in 1..k |-> Cell(disk, c, r)]
    BY <1>9
  <2> QED
    BY <1>6, <1>8, <2>1
<1>11. back' \in Seq(Seq(Values)) /\ Len(back') = m /\ DOMAIN back' = 1..m
  BY <1>6, <1>9, <1>10
<1>12. LegacyTypeOK'
  BY <1>1, <1>2, <1>11 DEF LegacyTypeOK
<1>13. ReadSoFar'
  BY <1>1, <1>2 DEF ReadSoFar, Columns, Fits
<1>14. DiskInv'
  <2>1. Columns(from, Len(from))' = Columns(from, Len(from))
    BY <1>2 DEF Columns
  <2>2. at = Len(csv) => from = csv
    BY <1>1, <1>2 DEF DiskInv, CanRestore
  <2> QED
    BY <1>1, <1>2, <1>3, <2>1, <2>2 DEF DiskInv, Fits
<1>15. \A r \in 1..m, c \in 1..k : Given(r, c)' = Given(r, c)
  BY <1>2 DEF Given
<1>16. RoundInv'
  <2>1. Whole' => disk = img
    BY <1>2, <1>4 DEF Whole, Columns
  <2>2. ASSUME Whole', NEW r \in 1..m, NEW c \in 1..k PROVE back'[r][c] = Given(r, c)'
    BY <1>8, <1>10, <1>15, <2>1, <2>2
  <2>3. round > 1 => \A r \in 1..Len(csv) : Fits(csv[r])' => Settled(csv[r])'
    BY <1>1, <1>2 DEF RoundInv, Fits, Settled
  <2> QED
    BY <1>2, <1>6, <1>10, <1>11, <2>2, <2>3 DEF RoundInv
<1>17. ReadsWhatIsThere'
  <2>1. ASSUME NEW r \in 1..m, NEW c \in 1..k
        PROVE  \/ back'[r][c] = Given(r, c)'
               \/ /\ Len(disk') <= HeaderLength(disk') + (c - 1) * Len(back') + r
                  /\ back'[r][c] \in {Torn, Zero[schema'[c]]}
    <3>1. disk' = disk /\ schema' = schema /\ Len(back') = m /\ back'[r][c] = Cell(disk, c, r)
      BY <1>2, <1>10, <1>11
    <3>2. \/ Cell(disk, c, r) = Given(r, c)'
          \/ /\ Len(disk) <= HeaderLength(disk) + (c - 1) * m + r
             /\ Cell(disk, c, r) \in {Torn, Zero[schema[c]]}
      BY <1>8, <1>15
    <3> QED
      BY <3>1, <3>2, Zenon
  <2>2. DOMAIN schema' = 1..k
    BY <1>1, <1>2, <1>6, LenProperties DEF LegacyTypeOK
  <2>3. TornCellsReadAsZeroes'
    BY <1>2, <1>7, <1>11, <2>1, <2>2 DEF TornCellsReadAsZeroes
  <2> QED
    BY <1>2, <2>3 DEF ReadsWhatIsThere
<1>18. FailureKeepsTheFile'
  BY <1>2 DEF FailureKeepsTheFile
<1> QED
  BY <1>12, <1>13, <1>14, <1>16, <1>17, <1>18 DEF LegacyInv

LEMMA ConvertAgainKeepsInv == LegacyInv /\ ConvertAgain => LegacyInv'
<1> SUFFICES ASSUME LegacyInv, ConvertAgain PROVE LegacyInv'
  OBVIOUS
<1>1. LegacyTypeOK /\ DiskInv /\ RoundInv /\ ReadsWhatIsThere
  BY DEF LegacyInv
<1>2. /\ pc = "restored" /\ pc' = "reading"
      /\ \A r \in DOMAIN back : \A c \in DOMAIN back[r] : back[r][c] # Torn
      /\ at' = 0 /\ columns' = [c \in DOMAIN schema |-> <<>>]
      /\ back' = <<>> /\ round' = round + 1 /\ was' = disk
      /\ UNCHANGED <<schema, bc, disk, from>>
  BY DEF ConvertAgain
<1>3. PICK bad \in {<<>>, << LongRow(Len(schema)) >>} : csv' = back \o bad
  BY DEF ConvertAgain
<1>4. PICK k \in Nat : k = Len(schema) /\ DOMAIN schema = 1..k
  BY <1>1, LenProperties DEF LegacyTypeOK
<1>5. PICK n \in Nat : n = Len(back) /\ DOMAIN back = 1..n /\ back \in TextRows
  BY <1>1, LenProperties DEF LegacyTypeOK, TextRows
<1>6. LongRow(k) \in Seq(Values) /\ Len(LongRow(k)) = k + 1
  <2>1. PICK j \in Nat : j = k + 1
    OBVIOUS
  <2>2. PICK e \in Values : e = ""
    BY DEF Values
  <2>3. [c \in 1..j |-> e] \in Seq(Values) /\ Len([c \in 1..j |-> e]) = j
    OBVIOUS
  <2> QED
    BY <2>1, <2>2, <2>3 DEF LongRow
<1>7. /\ csv' \in TextRows /\ n <= Len(csv')
      /\ \A r \in 1..Len(csv') : csv'[r] = IF r <= n THEN back[r] ELSE LongRow(k)
  <2>1. CASE bad = <<>>
    <3>1. csv' = back
      BY <1>3, <1>5, <2>1, ConcatEmptySeq DEF TextRows
    <3> QED
      BY <1>5, <3>1
  <2>2. CASE bad = << LongRow(k) >>
    <3>1. csv' = Append(back, LongRow(k))
      BY <1>3, <1>5, <1>6, <2>2, AppendIsConcat DEF TextRows
    <3>2. /\ csv' \in TextRows /\ Len(csv') = n + 1 /\ csv'[n + 1] = LongRow(k)
          /\ \A r \in 1..n : csv'[r] = back[r]
      BY <1>5, <1>6, <3>1, AppendProperties DEF TextRows
    <3> QED
      BY <3>2
  <2> QED
    BY <1>3, <1>4, <2>1, <2>2
<1>8. LegacyTypeOK'
  <2>1. <<>> \in Seq(Seq(Values)) /\ Len(csv') \in Nat
    BY <1>7 DEF TextRows
  <2> QED
    BY <1>1, <1>2, <1>7, <2>1 DEF LegacyTypeOK, TextRows
<1>9. ReadSoFar'
  <2>1. \A c \in DOMAIN schema : <<>> = [r \in 1..0 |-> Stored(schema[c], csv'[r][c])]
    OBVIOUS
  <2>2. columns' = Columns(csv, at)'
    BY <1>2, <2>1 DEF Columns
  <2> QED
    BY <1>2, <2>2 DEF ReadSoFar
<1>10. DiskInv'
  BY <1>1, <1>2 DEF DiskInv, Fits, Columns
<1>11. ASSUME NEW r \in 1..n, NEW c \in 1..k PROVE Stored(schema[c], back[r][c]) = back[r][c]
  <2>1. TornCellsReadAsZeroes /\ n = Len(from)
    BY <1>1, <1>2, <1>5 DEF ReadsWhatIsThere, TornCellsReadAsZeroes
  <2>2. DOMAIN back[r] = 1..k
    <3>1. Len(back[r]) = k
      BY <1>1, <1>2, <1>4, <1>5 DEF RoundInv
    <3>2. back[r] \in Seq(Values)
      BY <1>5, ElementOfSeq DEF TextRows
    <3> QED
      BY <3>1, <3>2, LenProperties
  <2>3. back[r][c] # Torn
    BY <1>2, <1>5, <2>2
  <2>4. back[r][c] = Given(r, c) \/ back[r][c] = Zero[schema[c]]
    BY <1>4, <1>5, <2>1, <2>3 DEF TornCellsReadAsZeroes
  <2>5. Stored(schema[c], Given(r, c)) = Given(r, c)
    BY <1>1, <1>4, <2>1, GivenText
  <2>6. Stored(schema[c], Zero[schema[c]]) = Zero[schema[c]]
    <3>1. schema[c] \in Numeric \cup {"String"}
      BY <1>1, <1>4, ElementOfSeq DEF LegacyTypeOK
    <3> QED
      BY <3>1, StoredZero
  <2> QED
    BY <2>4, <2>5, <2>6
<1>12. ASSUME NEW r \in 1..Len(csv'), Fits(csv[r])' PROVE Settled(csv[r])'
  <2>1. Len(csv'[r]) = k
    BY <1>2, <1>4, <1>12 DEF Fits
  <2>2. r <= n /\ csv'[r] = back[r]
    <3>1. CASE r <= n
      BY <1>7, <3>1
    <3>2. CASE ~(r <= n)
      BY <1>4, <1>6, <1>7, <2>1, <3>2
    <3> QED
      BY <3>1, <3>2
  <2>3. \A c \in 1..k : Stored(schema[c], csv'[r][c]) = csv'[r][c]
    BY <1>11, <2>2
  <2> QED
    BY <1>2, <1>4, <2>3 DEF Settled
<1>13. RoundInv'
  BY <1>2, <1>12 DEF RoundInv
<1>14. FailureKeepsTheFile' /\ ReadsWhatIsThere'
  BY <1>2 DEF FailureKeepsTheFile, ReadsWhatIsThere
<1> QED
  BY <1>8, <1>9, <1>10, <1>13, <1>14 DEF LegacyInv
(* Every state satisfies the invariant.                                     *)
LEMMA InvHolds == Spec => []LegacyInv
<1>1. LegacyInv /\ [Next]_vars => LegacyInv'
  <2> SUFFICES ASSUME LegacyInv, [Next]_vars PROVE LegacyInv'
    OBVIOUS
  <2>1. CASE UNCHANGED vars
    BY <2>1 DEF LegacyInv, vars, input, LegacyTypeOK, ReadSoFar, Columns, Fits, DiskInv, RoundInv,
                Settled, Whole, Given, FailureKeepsTheFile, ReadsWhatIsThere, TornCellsReadAsZeroes
  <2>2. CASE Next
    BY <2>2, ReadRowKeepsInv, RejectRowKeepsInv, WriteFileKeepsInv, CloseKeepsInv,
       UndefinedKeepsInv, RestoreKeepsInv, ConvertAgainKeepsInv DEF Next
  <2> QED
    BY <2>1, <2>2
<1> QED
  BY <1>1, InitHasInv, PTL DEF Spec

(* A conversion that throws leaves the file of an earlier one as it was,    *)
(* unless it is write_file that throws, after it has truncated the file.    *)
THEOREM LegacyFailureKeepsTheFile == Spec => []FailureKeepsTheFile
<1>1. LegacyInv => FailureKeepsTheFile
  BY DEF LegacyInv
<1> QED
  BY <1>1, InvHolds, PTL

(* Whatever the schema, the rows and the place where the file is cut off,   *)
(* columnar_to_csv gives back the cells that are in the file and zeroes for *)
(* the others, and is undefined only on a header that was cut off or a      *)
(* table without columns.                                                   *)
THEOREM LegacyReadsWhatIsThere == Spec => []ReadsWhatIsThere
<1>1. LegacyInv => ReadsWhatIsThere
  BY DEF LegacyInv
<1> QED
  BY <1>1, InvHolds, PTL

(* The CSV that came back comes back the same from another trip.            *)
THEOREM LegacySecondTripIsExact == Spec => []SecondTripIsExact
<1>1. LegacyInv => SecondTripIsExact
  <2> SUFFICES ASSUME LegacyInv, pc = "restored", Whole, round > 1, at = Len(csv)
               PROVE  back = csv
    BY DEF SecondTripIsExact
  <2>1. LegacyTypeOK /\ ReadSoFar /\ DiskInv /\ RoundInv /\ ReadsWhatIsThere
    BY DEF LegacyInv
  <2>2. back \in TextRows /\ csv \in TextRows /\ from = csv
    BY <2>1 DEF LegacyTypeOK, TextRows, DiskInv
  <2>3. PICK n \in Nat : n = Len(csv) /\ n = Len(back)
    BY <2>1, <2>2 DEF ReadsWhatIsThere, TornCellsReadAsZeroes, TextRows
  <2>4. PICK k \in Nat : k = Len(schema)
    BY <2>1 DEF LegacyTypeOK
  <2>5. ASSUME NEW r \in 1..n PROVE back[r] = csv[r]
    <3>1. Fits(csv[r]) /\ Settled(csv[r])
      BY <2>1, <2>3 DEF ReadSoFar, RoundInv
    <3>2. back[r] \in Seq(Values) /\ csv[r] \in Seq(Values)
      BY <2>2, <2>3, ElementOfSeq DEF TextRows
    <3>3. Len(back[r]) = k /\ Len(csv[r]) = k
      BY <2>1, <2>3, <2>4, <3>1 DEF RoundInv, Fits
    <3>4. \A c \in 1..k : back[r][c] = Stored(schema[c], csv[r][c])
      BY <2>1, <2>2, <2>3, <2>4 DEF RoundInv, Given
    <3>5. \A c \in 1..k : back[r][c] = csv[r][c]
      BY <2>4, <3>1, <3>4 DEF Settled
    <3> QED
      BY <3>2, <3>3, <3>5, SeqEqual
  <2> QED
    BY <2>2, <2>3, <2>5, SeqEqual DEF TextRows
<1> QED
  BY <1>1, InvHolds, PTL

-----------------------------------------------------------------------------
(* Bytes as runs: the digits of a count. *)

LEMMA PowerUnfolds ==
    /\ Power[0] = 1
    /\ \A k \in 1..CountBytes : Power[k] = Base * Power[k - 1]
    /\ \A k \in 0..CountBytes : Power[k] \in Nat \ {0}
<1> DEFINE Unfolds(f) == f = [k \in 0..CountBytes |-> IF k = 0 THEN 1 ELSE Base * f[k - 1]]
<1>0. CountBytes \in Nat /\ Base \in Nat \ {0}
  BY BytesAssumption
<1>1. \E f : Unfolds(f)
  <2> DEFINE F == [k \in 1..CountBytes |-> [x \in Nat |-> Base * x]]
  <2>1. F \in [1..CountBytes -> [Nat -> Nat]] /\ 1 \in Nat
    BY <1>0
  <2>2. \A k \in 1..CountBytes : \A x \in Nat : F[k][x] = Base * x
    OBVIOUS
  <2> HIDE DEF F
  <2>3. PICK g \in [0..CountBytes -> Nat] : Rounds(g, CountBytes, 1, F)
    BY <1>0, <2>1, RoundsExist
  <2>4. \A k \in 1..CountBytes : k - 1 \in 0..CountBytes /\ g[k - 1] \in Nat
    BY <1>0
  <2>5. \A k \in 1..CountBytes : g[k] = Base * g[k - 1]
    BY <2>2, <2>3, <2>4 DEF Rounds
  <2>6. \A k \in 0..CountBytes : g[k] = IF k = 0 THEN 1 ELSE Base * g[k - 1]
    BY <2>3, <2>5 DEF Rounds
  <2>7. g = [k \in 0..CountBytes |-> IF k = 0 THEN 1 ELSE Base * g[k - 1]]
    BY <2>6
  <2> QED
    BY <2>7
<1>2. Power = CHOOSE f : Unfolds(f)
  BY DEF Power
<1>3. Unfolds(Power)
  <2> HIDE DEF Unfolds
  <2> QED
    BY <1>1, <1>2
<1>4. Power[0] = 1 /\ \A k \in 1..CountBytes : Power[k] = Base * Power[k - 1]
  BY <1>0, <1>3
<1>5. \A k \in 0..CountBytes : Power[k] \in Nat \ {0}
  <2>1. \A x \in Nat \ {0} : Base * x \in Nat \ {0}
    BY <1>0
  <2>2. \A k \in 1..CountBytes : Power[k - 1] \in Nat \ {0} => Power[k] \in Nat \ {0}
    BY <1>4, <2>1
  <2>3. Power[0] \in Nat \ {0}
    BY <1>4
  <2> QED
    BY <1>0, <2>2, <2>3, EveryRound
<1> QED
  BY <1>4, <1>5

(* At least two: a run of one byte can be counted. *)
LEMMA MaxRunIsPositive == MaxRun \in Nat \ {0}
<1>1. CountBytes \in 1..CountBytes /\ Base \in Nat /\ Base > 1
  BY BytesAssumption
<1>2. PICK p \in Nat \ {0} : p = Power[CountBytes - 1] /\ Power[CountBytes] = Base * p
  <2>1. CountBytes - 1 \in 0..CountBytes
    BY <1>1
  <2> QED
    BY <1>1, <2>1, PowerUnfolds
<1>3. PICK b \in Nat : Base = b + 2
  <2>1. Base - 2 \in Nat /\ Base = (Base - 2) + 2
    BY <1>1
  <2> QED
    BY <2>1
<1>4. PICK w \in Nat : w = b * p
  BY <1>2, <1>3
<1>5. Base * p = w + p + p
  <2>1. Base = b + 1 + 1
    BY <1>3
  <2>2. (b + 1 + 1) * p = w + p + p
    <3>1. b \in Nat /\ b + 1 \in Nat /\ p \in Nat
      BY <1>2, <1>3
    <3>2. (b + 1) * p = b * p + p
      BY <3>1
    <3>3. (b + 1 + 1) * p = (b + 1) * p + p
      BY <3>1
    <3> QED
      BY <1>4, <3>2, <3>3
  <2> QED
    BY <2>1, <2>2
<1> QED
  BY <1>2, <1>4, <1>5 DEF MaxRun

LEMMA QuotientIsNat ==
    ASSUME NEW p \in Nat \ {0}, NEW n \in Nat
    PROVE  \E q \in Nat, r \in 0..p - 1 : q = n \div p /\ r = n % p /\ n = q * p + r
<1>1. PICK q \in Int, r \in 0..p - 1 : q = n \div p /\ r = n % p /\ n = q * p + r
  OBVIOUS
<1>2. q \in Nat
  <2> SUFFICES ASSUME q < 0 PROVE FALSE
    OBVIOUS
  <2>1. PICK e \in Nat : q = -1 - e
    <3>1. -1 - q \in Nat /\ q = -1 - (-1 - q)
      OBVIOUS
    <3> QED
      BY <3>1
  <2>2. PICK u \in Nat : u = e * p
    OBVIOUS
  <2>3. q * p = -p - u
    BY <2>1, <2>2
  <2> QED
    BY <1>1, <2>2, <2>3
<1> QED
  BY <1>1, <1>2

(* A digit more of a number. *)
LEMMA NextDigit ==
    ASSUME NEW p \in Nat \ {0}, NEW n \in Nat
    PROVE  n % (Base * p) = (n % p) + ((n \div p) % Base) * p
<1>0. Base \in Nat \ {0}
  BY BytesAssumption
<1>1. PICK q \in Nat, r \in 0..p - 1 : q = n \div p /\ r = n % p /\ n = q * p + r
  BY QuotientIsNat
<1>2. PICK d \in Nat, b \in 0..Base - 1 : d = q \div Base /\ b = q % Base /\ q = d * Base + b
  BY <1>0, QuotientIsNat
<1>3. PICK m \in Nat \ {0} : m = Base * p
  BY <1>0
<1>4. PICK s \in Nat : s = b * p + r
  BY <1>2
<1>5. s \in 0..m - 1
  <2>1. PICK e \in Nat : Base = b + 1 + e
    <3>1. Base - b - 1 \in Nat /\ Base = b + 1 + (Base - b - 1)
      BY <1>0, <1>2
    <3> QED
      BY <3>1
  <2>2. PICK u \in Nat, w \in Nat : u = b * p /\ w = e * p
    BY <1>2, <2>1
  <2>3. (b + 1 + e) * p = u + p + w
    <3>1. b \in Nat /\ b + 1 \in Nat /\ e \in Nat /\ p \in Nat
      BY <1>0
    <3>2. (b + 1) * p = b * p + p
      BY <3>1
    <3>3. (b + 1 + e) * p = (b + 1) * p + e * p
      BY <3>1
    <3> QED
      BY <2>2, <3>2, <3>3
  <2>4. m = u + p + w
    BY <1>3, <2>1, <2>3
  <2> QED
    BY <1>1, <1>4, <2>2, <2>4
<1>6. n = d * m + s
  <2>1. PICK u \in Nat : u = d * Base
    BY <1>0, <1>2
  <2>2. q * p = u * p + b * p
    <3>1. q = u + b /\ b \in Nat
      BY <1>0, <1>2, <2>1
    <3>2. (u + b) * p = u * p + b * p
      BY <2>1, <3>1
    <3> QED
      BY <3>1, <3>2
  <2>3. u * p = d * m
    BY <1>0, <1>2, <1>3, <2>1
  <2> QED
    BY <1>1, <1>2, <1>4, <2>1, <2>2, <2>3
<1>7. n % m = s
  <2>1. d \in Int /\ s \in 0..m - 1 /\ m \in Nat \ {0}
    BY <1>2, <1>3, <1>5
  <2> QED
    BY <1>6, <2>1, DivMod
<1> QED
  BY <1>1, <1>2, <1>3, <1>4, <1>7

(* get_u32 reads what put_u32 wrote. *)
LEMMA CountsComeBack ==
    ASSUME NEW v \in 0..MaxRun, NEW bytes,
           \A k \in 1..CountBytes : bytes[k] = put_u32(v)[k]
    PROVE  get_u32(bytes) = v
<1> DEFINE Unfolds(f) == f = [k \in 0..CountBytes |->
               IF k = 0 THEN 0 ELSE f[k - 1] + bytes[k] * Power[k - 1]]
<1>0. CountBytes \in Nat /\ Base \in Nat \ {0} /\ MaxRun \in Nat /\ v \in Nat
  BY BytesAssumption, MaxRunIsPositive
<1>1. \A k \in 1..CountBytes : bytes[k] = (v \div Power[k - 1]) % Base
  BY DEF put_u32
<1>2. \A k \in 1..CountBytes : Power[k - 1] \in Nat \ {0} /\ k - 1 \in 0..CountBytes
  BY <1>0, PowerUnfolds
<1>3. \A k \in 1..CountBytes : bytes[k] \in Nat
  <2> TAKE k \in 1..CountBytes
  <2>1. PICK q \in Nat : q = v \div Power[k - 1]
    BY <1>0, <1>2, QuotientIsNat
  <2>2. q % Base \in Nat
    BY <1>0
  <2> QED
    BY <1>1, <2>1, <2>2
<1>4. \E f : Unfolds(f)
  <2> DEFINE F == [k \in 1..CountBytes |-> [x \in Nat |-> x + bytes[k] * Power[k - 1]]]
  <2>1. \A k \in 1..CountBytes : bytes[k] * Power[k - 1] \in Nat
    BY <1>2, <1>3
  <2>2. F \in [1..CountBytes -> [Nat -> Nat]]
    BY <2>1
  <2>3. \A k \in 1..CountBytes : \A x \in Nat : F[k][x] = x + bytes[k] * Power[k - 1]
    OBVIOUS
  <2> HIDE DEF F
  <2>4. PICK g \in [0..CountBytes -> Nat] : Rounds(g, CountBytes, 0, F)
    BY <1>0, <2>2, RoundsExist
  <2>5. \A k \in 1..CountBytes : g[k - 1] \in Nat
    BY <1>0
  <2>6. \A k \in 1..CountBytes : g[k] = g[k - 1] + bytes[k] * Power[k - 1]
    BY <2>3, <2>4, <2>5 DEF Rounds
  <2>7. \A k \in 0..CountBytes : g[k] = IF k = 0 THEN 0 ELSE g[k - 1] + bytes[k] * Power[k - 1]
    BY <2>4, <2>6 DEF Rounds
  <2>8. Unfolds(g)
    BY <2>7
  <2> HIDE DEF Unfolds
  <2> QED
    BY <2>8
<1>5. PICK low : low = (CHOOSE f : Unfolds(f)) /\ get_u32(bytes) = low[CountBytes]
  BY DEF get_u32
<1>6. Unfolds(low)
  <2> HIDE DEF Unfolds
  <2> QED
    BY <1>4, <1>5
<1>7. low[0] = 0 /\ \A k \in 1..CountBytes : low[k] = low[k - 1] + bytes[k] * Power[k - 1]
  BY <1>0, <1>6
<1> HIDE DEF Unfolds
<1> DEFINE P == {k \in 0..CountBytes : low[k] = v % Power[k]}
<1>8. 0 \in P
  BY <1>0, <1>7, PowerUnfolds
<1>9. ASSUME NEW k \in 0..CountBytes, k \in P, k < CountBytes PROVE k + 1 \in P
  <2>1. k + 1 \in 1..CountBytes /\ (k + 1) - 1 = k /\ k + 1 \in 0..CountBytes
    BY <1>0, <1>9
  <2>2. low[k + 1] = (v % Power[k]) + ((v \div Power[k]) % Base) * Power[k]
    BY <1>1, <1>7, <1>9, <2>1
  <2>3. Power[k + 1] = Base * Power[k] /\ Power[k] \in Nat \ {0}
    BY <2>1, PowerUnfolds
  <2>4. v % (Base * Power[k]) = (v % Power[k]) + ((v \div Power[k]) % Base) * Power[k]
    BY <1>0, <2>3, NextDigit
  <2> QED
    BY <2>1, <2>2, <2>3, <2>4
<1>10. 0..CountBytes \subseteq P
  <2> HIDE DEF P
  <2> QED
    BY <1>0, <1>8, <1>9, UpToN
<1>11. low[CountBytes] = v % Power[CountBytes]
  BY <1>0, <1>10
<1>12. v % Power[CountBytes] = v
  <2>1. PICK p \in Nat \ {0} : p = Power[CountBytes]
    BY <1>0, PowerUnfolds
  <2>2. v \in 0..p - 1
    BY <1>0, <2>1 DEF MaxRun
  <2> QED
    BY <2>1, <2>2
<1> QED
  BY <1>5, <1>11, <1>12

(* A run is there, counted by what can count it, and all of one byte. *)
LEMMA RunIs ==
    ASSUME NEW s \in Seq(0..Base - 1), NEW after \in Nat, after < Len(s)
    PROVE  /\ Run(s, after) \in 1..Len(s) - after /\ Run(s, after) <= MaxRun
           /\ \A k \in 1..Run(s, after) : s[after + k] = s[after + 1]
<1> DEFINE same(n) == \A k \in 1..n : s[after + k] = s[after + 1]
           room == Min({MaxRun, Len(s) - after})
           Runs == {n \in 1..room : same(n)}
<1>1. PICK d \in Nat \ {0}, x \in Nat \ {0} : d = Len(s) - after /\ x = MaxRun
  BY MaxRunIsPositive
<1>2. room \in {x, d} /\ room <= x /\ room <= d
  <2>1. PICK hi \in Nat : hi = x + d
    <3>1. x + d \in Nat
      OBVIOUS
    <3> HIDE DEF room, Runs
    <3> QED
      BY <3>1
  <2>2. PICK S \in SUBSET (0..hi) : S = {x, d}
    <3>1. x \in 0..hi /\ d \in 0..hi
      BY <1>1, <2>1
    <3>2. {x, d} \in SUBSET (0..hi)
      BY <3>1
    <3> QED
      BY <3>2
  <2>3. S # {}
    BY <2>2
  <2>4. Min(S) \in S /\ \A v \in S : Min(S) <= v
    <3>1. 0 \in Int /\ hi \in Int
      BY <2>1
    <3> QED
      BY <2>3, <3>1, LeastOf
  <2> QED
    BY <1>1, <2>2, <2>4
<1> HIDE DEF room
<1>3. room \in Nat \ {0}
  BY <1>1, <1>2
<1>4. 1 \in Runs
  <2>1. same(1)
    OBVIOUS
  <2> QED
    BY <1>3, <2>1
<1>5. Runs \subseteq 0..room
  BY <1>3
<1>6. Max(Runs) \in Runs
  <2>1. PICK lo \in Int, hi \in Int : lo = 0 /\ hi = room
    BY <1>3
  <2>2. PICK S \in SUBSET (lo..hi) : S = Runs
    BY <1>5, <2>1
  <2>3. S # {}
    BY <1>4, <2>2
  <2> HIDE DEF Runs
  <2>4. Max(S) \in S
    BY <2>3, GreatestOf
  <2> QED
    BY <2>2, <2>4
<1>7. Run(s, after) = Max(Runs)
  BY DEF Run, room
<1>8. Run(s, after) \in 1..room /\ same(Run(s, after))
  BY <1>6, <1>7
<1>9. room <= Len(s) - after /\ room <= MaxRun /\ Len(s) - after \in Int /\ MaxRun \in Int
  BY <1>1, <1>2
<1> QED
  BY <1>3, <1>8, <1>9

Byte == 0..Base - 1

(* The runs of the bytes d, the k-th of which is there up to ends[k]. *)
Runs(d, m, ends) ==
    /\ m \in Nat /\ ends \in [0..m -> Nat]
    /\ ends[0] = 0 /\ ends[m] <= Len(d)
    /\ \A k \in 0..m : ends[k] <= ends[m]
    /\ \A k \in 1..m :
         /\ ends[k - 1] < ends[k] /\ ends[k] - ends[k - 1] <= MaxRun
         /\ \A j \in ends[k - 1] + 1..ends[k] : d[j] = d[ends[k]]

(* What is written of them, the k-th of which is written up to places[k]. *)
WrittenRuns(d, m, ends, places, text) ==
    /\ places \in [0..m -> Nat] /\ text \in Seq(Byte)
    /\ places[0] = 0 /\ places[m] = Len(text)
    /\ \A k \in 0..m : places[k] <= places[m]
    /\ \A k \in 1..m :
         /\ places[k] = places[k - 1] + CountBytes + 1
         /\ text[places[k]] = d[ends[k]]
         /\ \A b \in 1..CountBytes : text[places[k - 1] + b] = put_u32(ends[k] - ends[k - 1])[b]

LEMMA CountIsBytes ==
    ASSUME NEW v \in Nat
    PROVE  put_u32(v) \in Seq(Byte) /\ Len(put_u32(v)) = CountBytes
<1>0. CountBytes \in Nat /\ Base \in Nat \ {0}
  BY BytesAssumption
<1>1. \A k \in 1..CountBytes : (v \div Power[k - 1]) % Base \in Byte
  <2> TAKE k \in 1..CountBytes
  <2>1. Power[k - 1] \in Nat \ {0}
    BY <1>0, PowerUnfolds
  <2>2. PICK q \in Nat : q = v \div Power[k - 1]
    BY <2>1, QuotientIsNat
  <2>3. q % Base \in Byte
    BY <1>0 DEF Byte
  <2> QED
    BY <2>2, <2>3
<1>2. put_u32(v) \in [1..CountBytes -> Byte]
  BY <1>1 DEF put_u32
<1> QED
  BY <1>0, <1>2

LEMMA OneRunMore ==
    ASSUME NEW d \in Seq(Byte), NEW m, NEW ends, NEW places, NEW text,
           Runs(d, m, ends), WrittenRuns(d, m, ends, places, text), ends[m] < Len(d)
    PROVE  \E e, p : /\ Runs(d, m + 1, e) /\ e[m + 1] = ends[m] + Run(d, ends[m])
                     /\ WrittenRuns(d, m + 1, e, p,
                            text \o put_u32(Run(d, ends[m])) \o <<d[ends[m] + 1]>>)
<1>0. /\ CountBytes \in Nat \ {0} /\ MaxRun \in Nat /\ m \in Nat /\ Len(d) \in Nat
      /\ text \in Seq(Byte) /\ Len(text) \in Nat
  BY BytesAssumption, MaxRunIsPositive DEF Runs, WrittenRuns
<1>1. PICK t \in Nat : t = ends[m] /\ t < Len(d)
  BY <1>0 DEF Runs
<1>2. PICK r \in 1..Len(d) - t : /\ r = Run(d, t) /\ r <= MaxRun
                                 /\ \A k \in 1..r : d[t + k] = d[t + 1]
  BY <1>1, RunIs DEF Byte
<1>3. PICK l \in Nat : l = places[m] /\ l = Len(text)
  BY <1>0 DEF WrittenRuns
<1>4. PICK c \in Seq(Byte) : c = put_u32(r) /\ Len(c) = CountBytes
  BY <1>1, CountIsBytes
<1>5. PICK v \in Byte : v = d[t + 1]
  BY <1>1
<1>6. PICK more \in Seq(Byte) : more = text \o c \o <<v>>
  <2>1. <<v>> \in Seq(Byte) /\ text \o c \in Seq(Byte)
    BY <1>0
  <2>2. text \o c \o <<v>> \in Seq(Byte)
    BY <2>1
  <2> QED
    BY <2>2
<1>7. /\ Len(more) = l + CountBytes + 1
      /\ \A j \in 1..l : more[j] = text[j]
      /\ \A b \in 1..CountBytes : more[l + b] = c[b]
      /\ more[l + CountBytes + 1] = v
  <2>1. PICK both \in Seq(Byte) : both = text \o c
    <3>1. text \o c \in Seq(Byte)
      BY <1>0
    <3> QED
      BY <3>1
  <2>2. /\ Len(both) = l + CountBytes
        /\ \A j \in 1..l : both[j] = text[j]
        /\ \A b \in 1..CountBytes : both[l + b] = c[b]
    <3>1. CountBytes \in Nat /\ text \in Seq(Byte) /\ l = Len(text)
      BY <1>0, <1>3
    <3>2. Len(both) = l + CountBytes
      <4>1. Len(text \o c) = Len(text) + Len(c)
        BY <3>1
      <4> QED
        BY <1>4, <2>1, <3>1, <4>1
    <3>3. \A j \in 1..l : both[j] = text[j]
      BY <1>4, <2>1, <3>1
    <3>4. \A b \in 1..CountBytes : both[l + b] = c[b]
      BY <1>4, <2>1, <3>1
    <3> QED
      BY <3>2, <3>3, <3>4
  <2>3. more = Append(both, v)
    BY <1>6, <2>1
  <2>4. CountBytes \in Nat /\ l \in Nat
    BY <1>0
  <2>5. Len(more) = l + CountBytes + 1 /\ more[l + CountBytes + 1] = v
    BY <2>2, <2>3, <2>4
  <2>6. \A j \in 1..l + CountBytes : more[j] = both[j]
    BY <2>2, <2>3, <2>4
  <2>7. \A j \in 1..l : more[j] = text[j]
    BY <2>2, <2>4, <2>6
  <2>8. \A b \in 1..CountBytes : more[l + b] = c[b]
    <3>1. \A b \in 1..CountBytes : l + b \in 1..l + CountBytes
      BY <2>4
    <3> QED
      BY <2>2, <2>6, <3>1
  <2> QED
    BY <2>5, <2>7, <2>8
<1> DEFINE e == [k \in 0..m + 1 |-> IF k = m + 1 THEN t + r ELSE ends[k]]
           p == [k \in 0..m + 1 |-> IF k = m + 1 THEN l + CountBytes + 1 ELSE places[k]]
<1>8. /\ e \in [0..m + 1 -> Nat] /\ p \in [0..m + 1 -> Nat]
      /\ e[m + 1] = t + r /\ p[m + 1] = l + CountBytes + 1
      /\ \A k \in 0..m : e[k] = ends[k] /\ p[k] = places[k]
  <2>1. \A k \in 0..m + 1 : k = m + 1 \/ k \in 0..m
    BY <1>0
  <2>2. \A k \in 0..m : ends[k] \in Nat /\ places[k] \in Nat /\ k # m + 1 /\ k \in 0..m + 1
    BY <1>0 DEF Runs, WrittenRuns
  <2>3. t + r \in Nat /\ l + CountBytes + 1 \in Nat /\ m + 1 \in 0..m + 1
    BY <1>0
  <2> QED
    BY <2>1, <2>2, <2>3
<1> HIDE DEF e, p
<1>9. \A k \in 1..m + 1 : (k = m + 1 /\ k - 1 = m) \/ (k \in 1..m /\ k \in 0..m /\ k - 1 \in 0..m)
  BY <1>0
<1>10. Runs(d, m + 1, e)
  <2>1. e[0] = 0 /\ e[m + 1] <= Len(d)
    BY <1>0, <1>1, <1>2, <1>8 DEF Runs
  <2>2. \A k \in 0..m + 1 : e[k] <= e[m + 1]
    <3>1. \A k \in 0..m : ends[k] <= t /\ ends[k] \in Nat
      BY <1>1 DEF Runs
    <3>2. \A k \in 0..m + 1 : k = m + 1 \/ k \in 0..m
      BY <1>0
    <3>3. \A k \in 0..m : ends[k] <= t + r
      BY <1>1, <1>2, <3>1
    <3>4. e[m + 1] <= t + r
      BY <1>1, <1>2, <1>8
    <3> QED
      BY <1>8, <3>2, <3>3, <3>4
  <2>3. ASSUME NEW k \in 1..m + 1
        PROVE  /\ e[k - 1] < e[k] /\ e[k] - e[k - 1] <= MaxRun
               /\ \A j \in e[k - 1] + 1..e[k] : d[j] = d[e[k]]
    <3>1. CASE k = m + 1 /\ k - 1 = m
      <4>1. e[k] = t + r /\ e[k - 1] = t
        BY <1>0, <1>1, <1>8, <3>1
      <4>2. \A j \in t + 1..t + r : d[j] = d[t + 1]
        <5>1. \A j \in t + 1..t + r : j - t \in 1..r /\ t + (j - t) = j
          BY <1>2
        <5> QED
          BY <1>2, <5>1
      <4>3. t + r \in t + 1..t + r
        BY <1>2
      <4> QED
        BY <1>0, <1>2, <4>1, <4>2, <4>3
    <3>2. CASE k \in 1..m /\ k \in 0..m /\ k - 1 \in 0..m
      <4>1. e[k] = ends[k] /\ e[k - 1] = ends[k - 1]
        BY <1>8, <3>2
      <4> QED
        BY <3>2, <4>1 DEF Runs
    <3> QED
      BY <1>9, <3>1, <3>2
  <2> QED
    BY <1>0, <1>8, <2>1, <2>2, <2>3 DEF Runs
<1>11. WrittenRuns(d, m + 1, e, p, more)
  <2>1. p[0] = 0 /\ p[m + 1] = Len(more)
    <3>1. places[0] = 0 /\ 0 \in 0..m
      BY <1>0 DEF WrittenRuns
    <3> QED
      BY <1>7, <1>8, <3>1
  <2>2. \A k \in 0..m : places[k] \in Nat /\ places[k] <= l
    BY <1>3 DEF WrittenRuns
  <2>3. \A k \in 0..m + 1 : p[k] <= p[m + 1]
    <3>1. \A k \in 0..m + 1 : k = m + 1 \/ k \in 0..m
      BY <1>0
    <3>2. \A k \in 0..m : places[k] <= l + CountBytes + 1
      BY <1>0, <2>2
    <3>3. l + CountBytes + 1 <= l + CountBytes + 1
      BY <1>0
    <3> QED
      BY <1>8, <3>1, <3>2, <3>3
  <2>4. ASSUME NEW k \in 1..m + 1
        PROVE  /\ p[k] = p[k - 1] + CountBytes + 1
               /\ more[p[k]] = d[e[k]]
               /\ \A b \in 1..CountBytes : more[p[k - 1] + b] = put_u32(e[k] - e[k - 1])[b]
    <3>1. CASE k = m + 1 /\ k - 1 = m
      <4>0. m \in 0..m
        BY <1>0
      <4>1. e[k] = t + r /\ e[k - 1] = t /\ p[k] = l + CountBytes + 1 /\ p[k - 1] = l
        BY <1>1, <1>3, <1>8, <3>1, <4>0
      <4>2. e[k] - e[k - 1] = r
        BY <1>2, <4>1
      <4>3. d[t + r] = d[t + 1]
        BY <1>2
      <4> QED
        BY <1>4, <1>5, <1>7, <4>1, <4>2, <4>3
    <3>2. CASE k \in 1..m /\ k \in 0..m /\ k - 1 \in 0..m
      <4>1. /\ e[k] = ends[k] /\ e[k - 1] = ends[k - 1]
            /\ p[k] = places[k] /\ p[k - 1] = places[k - 1]
        BY <1>8, <3>2
      <4>2. /\ places[k] = places[k - 1] + CountBytes + 1
            /\ text[places[k]] = d[ends[k]]
            /\ \A b \in 1..CountBytes :
                 text[places[k - 1] + b] = put_u32(ends[k] - ends[k - 1])[b]
        BY <3>2 DEF WrittenRuns
      <4>3. places[k] \in 1..l /\ \A b \in 1..CountBytes : places[k - 1] + b \in 1..l
        <5>1. places[k] \in Nat /\ places[k - 1] \in Nat /\ places[k] <= l
          BY <2>2, <3>2
        <5>2. places[k] = places[k - 1] + CountBytes + 1
          BY <4>2
        <5> QED
          BY <1>0, <5>1, <5>2
      <4> QED
        BY <1>7, <4>1, <4>2, <4>3
    <3> QED
      BY <1>9, <3>1, <3>2
  <2> QED
    BY <1>8, <2>1, <2>3, <2>4 DEF WrittenRuns
<1>12. /\ Run(d, ends[m]) = r
       /\ text \o put_u32(Run(d, ends[m])) \o <<d[ends[m] + 1]>> = more
  BY <1>1, <1>2, <1>4, <1>5, <1>6
<1> QED
  BY <1>1, <1>8, <1>10, <1>11, <1>12

LEMMA RunAtTheEnd ==
    ASSUME NEW S, NEW d \in Seq(S), NEW x \in Nat, NEW r \in Nat, x + r <= Len(d),
           NEW v \in S, \A k \in x + 1..x + r : d[k] = v
    PROVE  SubSeq(d, 1, x + r) = SubSeq(d, 1, x) \o [k \in 1..r |-> v]
<1>1. PICK y \in Nat : y = x + r
  OBVIOUS
<1>2. PICK s \in Seq(S) : s = [k \in 1..r |-> v] /\ Len(s) = r /\ \A k \in 1..r : s[k] = v
  <2>1. [k \in 1..r |-> v] \in [1..r -> S]
    OBVIOUS
  <2>2. [k \in 1..r |-> v] \in Seq(S) /\ Len([k \in 1..r |-> v]) = r
    BY <2>1
  <2> QED
    BY <2>2
<1>3. PICK a \in Seq(S) : a = SubSeq(d, 1, x) /\ Len(a) = x /\ \A k \in 1..x : a[k] = d[k]
  <2>1. SubSeq(d, 1, x) \in Seq(S) /\ Len(SubSeq(d, 1, x)) = x
    OBVIOUS
  <2>2. \A k \in 1..x : SubSeq(d, 1, x)[k] = d[k]
    OBVIOUS
  <2> QED
    BY <2>1, <2>2
<1>4. PICK z \in Seq(S) : z = SubSeq(d, 1, y) /\ Len(z) = y /\ \A k \in 1..y : z[k] = d[k]
  <2>1. SubSeq(d, 1, y) \in Seq(S) /\ Len(SubSeq(d, 1, y)) = y
    BY <1>1
  <2>2. \A k \in 1..y : SubSeq(d, 1, y)[k] = d[k]
    BY <1>1
  <2> QED
    BY <2>1, <2>2
<1>5. PICK both \in Seq(S) : both = a \o s
  <2>1. a \o s \in Seq(S)
    OBVIOUS
  <2> QED
    BY <2>1
<1>6. /\ Len(both) = y
      /\ \A k \in 1..x : both[k] = d[k]
      /\ \A k \in 1..r : both[x + k] = v
  BY <1>1, <1>2, <1>3, <1>5
<1>7. ASSUME NEW k \in 1..y PROVE z[k] = both[k]
  <2>1. CASE k <= x
    BY <1>4, <1>6, <2>1
  <2>2. CASE k > x
    <3>1. k - x \in 1..r /\ x + (k - x) = k /\ k \in x + 1..x + r
      BY <1>1, <2>2
    <3>2. both[k] = v /\ d[k] = v
      BY <1>6, <3>1
    <3> QED
      BY <1>4, <3>2
  <2> QED
    BY <1>1, <2>1, <2>2
<1>8. z = both
  BY <1>4, <1>6, <1>7, SeqEqual
<1> QED
  BY <1>1, <1>2, <1>3, <1>4, <1>5, <1>8

(* The run read from the bytes behind a place. *)
RunAt(part, place) ==
    [k \in 1..get_u32(SubSeq(part, place + 1, place + CountBytes)) |->
       part[place + CountBytes + 1]]

(* From what is left of the text, n bytes, the run behind the first q.       *)
GivesRun(d, m, ends, places, text, n, q) ==
    /\ q + 1 \in 0..m /\ places[q + 1] = places[q] + CountBytes + 1
    /\ SubSeq(d, 1, ends[q + 1]) =
         SubSeq(d, 1, ends[q]) \o RunAt(SubSeq(text, 1, n), places[q])

LEMMA OneRunBack ==
    ASSUME NEW d \in Seq(Byte), NEW m, NEW ends, NEW places, NEW text,
           Runs(d, m, ends), WrittenRuns(d, m, ends, places, text),
           NEW n \in 0..Len(text), NEW q \in 0..m, places[q] + CountBytes + 1 <= n
    PROVE  GivesRun(d, m, ends, places, text, n, q)
<1> DEFINE part == SubSeq(text, 1, n)
<1>0. /\ CountBytes \in Nat \ {0} /\ MaxRun \in Nat /\ m \in Nat /\ Len(d) \in Nat
      /\ text \in Seq(Byte) /\ Len(text) \in Nat
  BY BytesAssumption, MaxRunIsPositive DEF Runs, WrittenRuns
<1>1. q # m /\ q + 1 \in 1..m /\ q + 1 \in 0..m /\ (q + 1) - 1 = q
  <2>1. q # m
    BY <1>0 DEF WrittenRuns
  <2> QED
    BY <1>0, <2>1
<1>2. PICK l \in Nat : l = places[q]
  BY DEF WrittenRuns
<1>3. places[q + 1] = l + CountBytes + 1
  BY <1>1, <1>2 DEF WrittenRuns
<1>4. PICK x \in Nat, y \in Nat : x = ends[q] /\ y = ends[q + 1] /\ x < y /\ y <= Len(d)
  <2>1. ends[q] \in Nat /\ ends[q + 1] \in Nat /\ ends[m] \in Nat
    BY <1>0, <1>1 DEF Runs
  <2>2. ends[q] < ends[q + 1] /\ ends[q + 1] <= ends[m] /\ ends[m] <= Len(d)
    BY <1>1 DEF Runs
  <2> QED
    BY <1>0, <2>1, <2>2
<1>5. PICK r \in 1..MaxRun : r = y - x
  <2>1. y - x <= MaxRun
    BY <1>1, <1>4 DEF Runs
  <2> QED
    BY <1>0, <1>4, <2>1
<1>6. \A j \in x + 1..y : d[j] = d[y]
  BY <1>1, <1>4 DEF Runs
<1>7. part \in Seq(Byte) /\ Len(part) = n /\ \A j \in 1..n : part[j] = text[j]
  BY <1>0
<1> HIDE DEF part
<1>8. part[l + CountBytes + 1] = d[y]
  <2>1. l + CountBytes + 1 \in 1..n
    BY <1>0, <1>2
  <2>2. text[l + CountBytes + 1] = d[y]
    BY <1>1, <1>3, <1>4 DEF WrittenRuns
  <2> QED
    BY <1>7, <2>1, <2>2
<1>9. PICK c : c = SubSeq(part, l + 1, l + CountBytes)
  OBVIOUS
<1>10. \A b \in 1..CountBytes : c[b] = put_u32(r)[b]
  <2> TAKE b \in 1..CountBytes
  <2>0. l + CountBytes <= n /\ n \in Nat /\ l + b \in Nat
    BY <1>0, <1>2
  <2>1. c[b] = part[l + b]
    <3>1. PICK u \in Nat, w \in Nat : u = l + 1 /\ w = l + CountBytes
      BY <1>0
    <3>2. u \in 1..Len(part) + 1 /\ w \in u - 1..Len(part)
      BY <1>0, <1>7, <2>0, <3>1
    <3>3. \A k \in 1..w - u + 1 : SubSeq(part, u, w)[k] = part[u + k - 1]
      BY <1>7, <3>2, SubSeqProperties
    <3>4. b \in 1..w - u + 1 /\ u + b - 1 = l + b
      BY <1>0, <3>1
    <3> QED
      BY <1>9, <3>1, <3>3, <3>4
  <2>2. l + b \in 1..n
    BY <1>0, <1>2
  <2>3. text[l + b] = put_u32(r)[b]
    BY <1>1, <1>2, <1>4, <1>5 DEF WrittenRuns
  <2> QED
    BY <1>7, <2>1, <2>2, <2>3
<1>11. get_u32(c) = r
  <2>1. r \in 0..MaxRun
    BY <1>0
  <2> QED
    BY <1>10, <2>1, CountsComeBack
<1>12. SubSeq(d, 1, y) = SubSeq(d, 1, x) \o [k \in 1..r |-> d[y]]
  <2>1. PICK v \in Byte : v = d[y]
    BY <1>4
  <2>2. r \in Nat /\ x + r = y /\ x + r <= Len(d)
    BY <1>0, <1>4, <1>5
  <2>3. \A k \in x + 1..x + r : d[k] = v
    BY <1>6, <2>1, <2>2
  <2>4. SubSeq(d, 1, x + r) = SubSeq(d, 1, x) \o [k \in 1..r |-> v]
    BY <2>2, <2>3, RunAtTheEnd
  <2> QED
    BY <2>1, <2>2, <2>4
<1>13. RunAt(part, places[q]) = [k \in 1..r |-> d[y]]
  BY <1>2, <1>8, <1>9, <1>11 DEF RunAt
<1> QED
  BY <1>1, <1>2, <1>3, <1>4, <1>12, <1>13 DEF part, GivesRun

(* What has been taken of the data and what has been put out: while the     *)
(* data are compressed, all of their runs so far; afterwards those of them  *)
(* that have been read back.                                                *)
Compressing ==
    \E m, ends, places :
      Runs(data, m, ends) /\ ends[m] = taken /\ WrittenRuns(data, m, ends, places, out)

ReadBack(text, m, ends, places, n, q) ==
    /\ Runs(data, m, ends) /\ ends[m] = Len(data)
    /\ WrittenRuns(data, m, ends, places, text)
    /\ n \in 0..Len(text) /\ packed = SubSeq(text, 1, n) /\ whole = (n = Len(text))
    /\ q \in 0..m /\ taken = places[q] /\ taken <= n /\ out = SubSeq(data, 1, ends[q])

Decompressing ==
    /\ \E text, m, ends, places, n, q : ReadBack(text, m, ends, places, n, q)
    /\ stage = "done" => ~More

RleInv ==
    /\ data \in Seq(Byte) /\ whole \in BOOLEAN
    /\ stage \in {"compress", "decompress", "done", "failed"}
    /\ stage = "compress" => whole /\ Compressing
    /\ stage = "decompress" => Decompressing
    /\ stage = "done" => (whole /\ out = data) \/ Decompressing

LEMMA InitRle == RleInit => RleInv
<1> SUFFICES ASSUME RleInit PROVE RleInv
  OBVIOUS
<1>1. data \in Seq(Byte) /\ Len(data) \in Nat /\ out = <<>> /\ taken = 0
  BY BytesAssumption DEF RleInit, Byte
<1> DEFINE zero == [k \in 0..0 |-> 0]
<1>2. zero \in [0..0 -> Nat] /\ zero[0] = 0 /\ \A k \in 0..0 : zero[k] = 0
  OBVIOUS
<1>3. \A k \in 1..0 : FALSE
  OBVIOUS
<1> HIDE DEF zero
<1>4. Runs(data, 0, zero)
  BY <1>1, <1>2, <1>3 DEF Runs
<1>5. WrittenRuns(data, 0, zero, zero, out)
  BY <1>1, <1>2, <1>3 DEF WrittenRuns
<1>6. Compressing
  BY <1>1, <1>2, <1>4, <1>5 DEF Compressing
<1> QED
  BY <1>1, <1>6 DEF RleInit, RleInv

LEMMA PutRunRle == RleInv /\ PutRun => RleInv'
<1> SUFFICES ASSUME RleInv, PutRun PROVE RleInv'
  OBVIOUS
<1>1. /\ data \in Seq(Byte) /\ data' = data /\ whole' = whole /\ stage' = stage
      /\ stage = "compress" /\ taken < Len(data) /\ Compressing
      /\ out' = out \o put_u32(Run(data, taken)) \o <<data[taken + 1]>>
      /\ taken' = taken + Run(data, taken)
  BY DEF RleInv, PutRun
<1>2. PICK m, ends, places :
        Runs(data, m, ends) /\ ends[m] = taken /\ WrittenRuns(data, m, ends, places, out)
  BY <1>1 DEF Compressing
<1>3. PICK e, p : /\ Runs(data, m + 1, e) /\ e[m + 1] = ends[m] + Run(data, ends[m])
                  /\ WrittenRuns(data, m + 1, e, p,
                         out \o put_u32(Run(data, ends[m])) \o <<data[ends[m] + 1]>>)
  BY <1>1, <1>2, OneRunMore
<1>4. Runs(data', m + 1, e) /\ e[m + 1] = taken' /\ WrittenRuns(data', m + 1, e, p, out')
  BY <1>1, <1>2, <1>3
<1>5. Compressing'
  BY <1>4 DEF Compressing
<1> QED
  BY <1>1, <1>5 DEF RleInv

LEMMA CompressedRle == RleInv /\ Compressed => RleInv'
<1> SUFFICES ASSUME RleInv, Compressed PROVE RleInv'
  OBVIOUS
<1>1. /\ data \in Seq(Byte) /\ data' = data /\ stage' = "decompress"
      /\ taken = Len(data) /\ Compressing /\ out' = <<>> /\ taken' = 0
  BY DEF RleInv, Compressed
<1>2. PICK n \in 0..Len(out) : packed' = SubSeq(out, 1, n) /\ whole' = (n = Len(out))
  BY DEF Compressed
<1>3. PICK m, ends, places :
        Runs(data, m, ends) /\ ends[m] = taken /\ WrittenRuns(data, m, ends, places, out)
  BY <1>1 DEF Compressing
<1>4. 0 \in 0..m /\ ends[0] = 0 /\ places[0] = 0 /\ n \in Nat
  BY <1>3 DEF Runs, WrittenRuns
<1>5. SubSeq(data, 1, 0) = <<>>
  BY SubSeqEmpty
<1>6. Decompressing'
  <2>0. PICK text : text = out
    OBVIOUS
  <2>1. taken' = places[0] /\ taken' <= n /\ out' = SubSeq(data', 1, ends[0])
    BY <1>1, <1>4, <1>5
  <2>2. Runs(data', m, ends) /\ ends[m] = Len(data') /\ WrittenRuns(data', m, ends, places, text)
    BY <1>1, <1>3, <2>0
  <2>3. n \in 0..Len(text) /\ packed' = SubSeq(text, 1, n) /\ whole' = (n = Len(text))
    BY <1>2, <2>0
  <2>4. ReadBack(text, m, ends, places, n, 0)'
    BY <1>4, <2>1, <2>2, <2>3 DEF ReadBack
  <2> QED
    BY <1>1, <2>4 DEF Decompressing
<1>7. whole' \in BOOLEAN
  BY <1>2
<1> QED
  BY <1>1, <1>6, <1>7 DEF RleInv

LEMMA TakeRunRle == RleInv /\ TakeRun => RleInv'
<1> SUFFICES ASSUME RleInv, TakeRun PROVE RleInv'
  OBVIOUS
<1>1. /\ data \in Seq(Byte) /\ data' = data /\ whole' = whole /\ stage' = stage
      /\ packed' = packed /\ stage = "decompress" /\ Decompressing
      /\ taken + CountBytes + 1 <= Len(packed)
      /\ out' = out \o RunAt(packed, taken)
      /\ taken' = taken + CountBytes + 1
  BY DEF RleInv, TakeRun, More, RunAt
<1>2. PICK text, m, ends, places, n, q : ReadBack(text, m, ends, places, n, q)
  BY <1>1 DEF Decompressing
<1>3. /\ Runs(data, m, ends) /\ ends[m] = Len(data)
      /\ WrittenRuns(data, m, ends, places, text)
      /\ n \in 0..Len(text) /\ packed = SubSeq(text, 1, n) /\ whole = (n = Len(text))
      /\ q \in 0..m /\ taken = places[q] /\ taken <= n /\ out = SubSeq(data, 1, ends[q])
  BY <1>2 DEF ReadBack
<1>4. Len(packed) = n /\ n \in Nat
  <2>1. text \in Seq(Byte)
    BY <1>3 DEF WrittenRuns
  <2> QED
    BY <1>3, <2>1
<1>5. /\ q + 1 \in 0..m /\ places[q + 1] = places[q] + CountBytes + 1
      /\ SubSeq(data, 1, ends[q + 1]) = SubSeq(data, 1, ends[q]) \o RunAt(packed, places[q])
  <2>1. places[q] + CountBytes + 1 <= n
    BY <1>1, <1>3, <1>4
  <2>2. PICK d \in Seq(Byte) : d = data
    BY <1>1
  <2>3. Runs(d, m, ends) /\ WrittenRuns(d, m, ends, places, text)
    BY <1>3, <2>2
  <2>4. n \in 0..Len(text) /\ q \in 0..m
    BY <1>3
  <2>5. GivesRun(d, m, ends, places, text, n, q)
    BY <2>1, <2>3, <2>4, OneRunBack
  <2> QED
    BY <1>3, <2>2, <2>5 DEF GivesRun
<1>6. taken' = places[q + 1] /\ taken' <= n /\ out' = SubSeq(data', 1, ends[q + 1])
  BY <1>1, <1>3, <1>4, <1>5
<1>7. ReadBack(text, m, ends, places, n, q + 1)'
  <2>1. Runs(data', m, ends) /\ ends[m] = Len(data') /\ WrittenRuns(data', m, ends, places, text)
    BY <1>1, <1>3
  <2>2. packed' = SubSeq(text, 1, n) /\ whole' = (n = Len(text))
    BY <1>1, <1>3
  <2> QED
    BY <1>3, <1>5, <1>6, <2>1, <2>2 DEF ReadBack
<1>8. Decompressing'
  BY <1>1, <1>7 DEF Decompressing
<1> QED
  BY <1>1, <1>8 DEF RleInv

LEMMA OtherStepsRle ==
    RleInv /\ (Copy \/ Unsupported \/ Decompressed \/ UNCHANGED rleVars) => RleInv'
<1> SUFFICES ASSUME RleInv, Copy \/ Unsupported \/ Decompressed \/ UNCHANGED rleVars PROVE RleInv'
  OBVIOUS
<1>1. CASE Copy
  BY <1>1 DEF RleInv, Copy
<1>2. CASE Unsupported
  BY <1>2 DEF RleInv, Unsupported
<1>3. CASE Decompressed
  <2>1. /\ stage' = "done" /\ ~More /\ Decompressing /\ stage = "decompress"
        /\ UNCHANGED <<type, data, taken, out, packed, whole>>
    BY <1>3 DEF RleInv, Decompressed
  <2>2. (~More)'
    BY <2>1 DEF More
  <2>3. PICK text, m, ends, places, n, q : ReadBack(text, m, ends, places, n, q)
    BY <2>1 DEF Decompressing
  <2>4. ReadBack(text, m, ends, places, n, q)'
    BY <2>1, <2>3 DEF ReadBack
  <2>5. Decompressing'
    BY <2>2, <2>4 DEF Decompressing
  <2> QED
    BY <2>1, <2>5 DEF RleInv
<1>4. CASE UNCHANGED rleVars
  <2>1. UNCHANGED <<type, data, taken, out, packed, whole, stage>>
    BY <1>4 DEF rleVars
  <2>2. Compressing => Compressing'
    BY <2>1 DEF Compressing
  <2>3. ASSUME Decompressing PROVE Decompressing'
    <3>1. PICK text, m, ends, places, n, q : ReadBack(text, m, ends, places, n, q)
      BY <2>3 DEF Decompressing
    <3>2. ReadBack(text, m, ends, places, n, q)'
      BY <2>1, <3>1 DEF ReadBack
    <3>3. stage' = "done" => (~More)'
      BY <2>1, <2>3 DEF Decompressing, More
    <3> QED
      BY <3>2, <3>3 DEF Decompressing
  <2> QED
    BY <2>1, <2>2, <2>3 DEF RleInv
<1> QED
  BY <1>1, <1>2, <1>3, <1>4

LEMMA ComesBackWhenInvariant == RleInv => ComesBack
<1> SUFFICES ASSUME RleInv, stage = "done"
             PROVE  IF whole THEN out = data ELSE IsPrefix(out, data)
  BY DEF ComesBack
<1>1. data \in Seq(Byte) /\ Len(data) \in Nat
  BY DEF RleInv
<1>2. CASE whole /\ out = data
  BY <1>2
<1>3. CASE Decompressing
  <2>1. PICK text, m, ends, places, n, q : ReadBack(text, m, ends, places, n, q)
    BY <1>3 DEF Decompressing
  <2>2. /\ Runs(data, m, ends) /\ ends[m] = Len(data)
        /\ WrittenRuns(data, m, ends, places, text)
        /\ n \in 0..Len(text) /\ packed = SubSeq(text, 1, n) /\ whole = (n = Len(text))
        /\ q \in 0..m /\ taken = places[q] /\ taken <= n /\ out = SubSeq(data, 1, ends[q])
    BY <2>1 DEF ReadBack
  <2>3. taken + CountBytes + 1 > Len(packed)
    <3>1. ~More
      BY <1>3 DEF Decompressing
    <3>2. taken \in Nat /\ CountBytes \in Nat /\ Len(packed) \in Nat
      <4>1. text \in Seq(Byte) /\ places[q] \in Nat
        BY <2>2 DEF WrittenRuns
      <4> QED
        BY <2>2, <4>1, BytesAssumption
    <3> QED
      BY <3>1, <3>2 DEF More
  <2>4. m \in Nat /\ text \in Seq(Byte) /\ Len(text) \in Nat /\ CountBytes \in Nat
    BY <2>2, BytesAssumption DEF Runs, WrittenRuns
  <2>5. PICK y \in Nat : y = ends[q] /\ y <= Len(data)
    BY <2>2 DEF Runs
  <2>6. CASE whole
    <3>1. Len(packed) = Len(text)
      <4>1. Len(packed) = n
        BY <2>2, <2>4
      <4> QED
        BY <2>2, <2>6, <4>1
    <3>2. q = m
      <4> SUFFICES ASSUME q # m PROVE FALSE
        OBVIOUS
      <4>1. q + 1 \in 1..m /\ q + 1 \in 0..m /\ (q + 1) - 1 = q
        BY <2>2, <2>4
      <4>2. places[q + 1] = places[q] + CountBytes + 1 /\ places[q + 1] <= Len(text)
        BY <2>2, <4>1 DEF WrittenRuns
      <4>3. taken \in Nat /\ taken = places[q]
        BY <2>2 DEF WrittenRuns
      <4> QED
        BY <2>3, <2>4, <3>1, <4>2, <4>3
    <3>3. out = SubSeq(data, 1, Len(data))
      BY <2>2, <3>2
    <3>4. SubSeq(data, 1, Len(data)) = data
      BY <1>1
    <3> QED
      BY <2>6, <3>3, <3>4
  <2>7. CASE ~whole
    <3>1. Len(out) = y /\ \A k \in 1..y : out[k] = data[k]
      BY <1>1, <2>2, <2>5
    <3>2. SubSeq(out, 1, y) = out
      <4>1. out \in Seq(Byte)
        BY <1>1, <2>2, <2>5
      <4> QED
        BY <3>1, <4>1
    <3>3. IsPrefix(out, data)
      BY <2>2, <2>5, <3>1, <3>2 DEF IsPrefix
    <3> QED
      BY <2>7, <3>3
  <2> QED
    BY <2>6, <2>7
<1> QED
  BY <1>2, <1>3 DEF RleInv

(* Bytes that compress returned come back from decompress, runs at and      *)
(* beyond the greatest count of any width too; of bytes that were cut off,  *)
(* the complete runs (compression.cpp).                                     *)
THEOREM CompressedBytesComeBack == RleSpec => []ComesBack
<1>1. RleInv /\ [RleNext]_rleVars => RleInv'
  BY PutRunRle, CompressedRle, TakeRunRle, OtherStepsRle DEF RleNext
<1>2. RleSpec => []RleInv
  BY <1>1, InitRle, PTL DEF RleSpec
<1> QED
  BY <1>2, ComesBackWhenInvariant, PTL
=============================================================================
