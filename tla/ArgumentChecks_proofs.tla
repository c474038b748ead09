-------------------------- MODULE ArgumentChecks_proofs --------------------------
(***************************************************************************)
(* Proofs about ArgumentChecks, for words of any width and any numbers:    *)
(* the types, which copies pass, that what passes fits the script's array, *)
(* that no call in order is refused, and the sizes of kernel arguments.    *)
(***************************************************************************)
EXTENDS ArgumentChecks, TLAPS

-----------------------------------------------------------------------------
(* Ranges of bytes *)

\* A range that is not empty lies within len bytes when its end does.
LEMMA WithinIsBounded ==
  ASSUME NEW a \in Nat, NEW n \in Nat \ {0}, NEW len \in Nat
  PROVE  Within(Bytes(a, n), len) <=> a + n <= len
<1>1. ASSUME Within(Bytes(a, n), len) PROVE a + n <= len
  <2>1. a + n - 1 \in Bytes(a, n)
    BY DEF Bytes
  <2>2. a + n - 1 \in 0..(len - 1)
    BY <1>1, <2>1 DEF Within, Bytes
  <2> QED BY <2>2
<1>2. ASSUME a + n <= len PROVE Within(Bytes(a, n), len)
  BY <1>2 DEF Within, Bytes
<1> QED BY <1>1, <1>2

\* Two ranges of one length meet exactly when the code's test says so.
LEMMA OverlapIsMeeting ==
  ASSUME NEW a \in Nat, NEW b \in Nat, NEW n \in Nat \ {0}
  PROVE  Overlap(a, b, n) <=> Bytes(a, n) \cap Bytes(b, n) # {}
<1>1. CASE a <= b
  <2>1. ASSUME Overlap(a, b, n) PROVE Bytes(a, n) \cap Bytes(b, n) # {}
    <3>1. b \in Bytes(a, n) /\ b \in Bytes(b, n)
      BY <1>1, <2>1 DEF Overlap, Bytes
    <3> QED BY <3>1
  <2>2. ASSUME Bytes(a, n) \cap Bytes(b, n) # {} PROVE Overlap(a, b, n)
    <3>1. PICK x \in Bytes(a, n) : x \in Bytes(b, n)
      BY <2>2
    <3> QED BY <1>1, <3>1 DEF Overlap, Bytes
  <2> QED BY <2>1, <2>2
<1>2. CASE b < a
  <2>1. ASSUME Overlap(a, b, n) PROVE Bytes(a, n) \cap Bytes(b, n) # {}
    <3>1. a \in Bytes(a, n) /\ a \in Bytes(b, n)
      BY <1>2, <2>1 DEF Overlap, Bytes
    <3> QED BY <3>1
  <2>2. ASSUME Bytes(a, n) \cap Bytes(b, n) # {} PROVE Overlap(a, b, n)
    <3>1. PICK x \in Bytes(a, n) : x \in Bytes(b, n)
      BY <2>2
    <3> QED BY <1>2, <3>1 DEF Overlap, Bytes
  <2> QED BY <2>1, <2>2
<1> QED BY <1>1, <1>2

-----------------------------------------------------------------------------
(* Every call is one of an operation, with its verdict *)

CopyCall(from, to, size, lenS, lenD, same) ==
  [op |-> "copyBuffer",
   args |-> [from |-> from, to |-> to, size |-> size, lenS |-> lenS, lenD |-> lenD, same |-> same],
   passed |-> CopyBufferPasses(from, to, size, lenS, lenD, same)]

\* What a state with a copy in it says: the verdict is that of its arguments.
CopyInv ==
  call.op = "copyBuffer" =>
    \E from, to, size \in Nat, lenS, lenD \in Nat, same \in BOOLEAN :
      call = CopyCall(from, to, size, lenS, lenD, same)

\* The operations other than enqueueCopyBuffer make no "copyBuffer" call.
OtherCall == call'.op # "copyBuffer"

LEMMA CopyOrOther ==
  ASSUME Next
  PROVE  \/ OtherCall
         \/ \E from, to, size \in Numbers, lenS, lenD \in Sizes, same \in BOOLEAN :
              CopyBuffer(from, to, size, lenS, lenD, same)
<1>1. CASE Return
  BY <1>1 DEF Return, NoCall, OtherCall
<1>2. CASE Buffers
  BY <1>2 DEF Buffers, WriteBuffer, ReadBuffer, Call, OtherCall
<1>3. CASE Rectangles
  BY <1>3 DEF Rectangles, WriteBufferRect, ReadBufferRect, TransferRect, CopyBufferRect, Call,
              OtherCall
<1>4. CASE OfImages
  BY <1>4 DEF OfImages, WriteImage, ReadImage, TransferImage, CopyImage, CopyImageToBuffer,
              CopyBufferToImage, Call, OtherCall
<1>5. CASE Arguments
  BY <1>5 DEF Arguments, SetArg, Call, OtherCall
<1> QED BY <1>1, <1>2, <1>3, <1>4, <1>5 DEF Next

LEMMA CopyInvariant == Spec => []CopyInv
<1>1. Init => CopyInv
  BY DEF Init, NoCall, CopyInv
<1>2. CopyInv /\ [Next]_call => CopyInv'
  <2> SUFFICES ASSUME CopyInv, [Next]_call PROVE CopyInv'
    OBVIOUS
  <2>1. CASE UNCHANGED call
    BY <2>1 DEF CopyInv, CopyCall, CopyBufferPasses, Overlap
  <2>2. CASE Next
    <3>1. CASE OtherCall
      BY <3>1 DEF OtherCall, CopyInv
    <3>2. ASSUME NEW from \in Numbers, NEW to \in Numbers, NEW size \in Numbers,
                 NEW lenS \in Sizes, NEW lenD \in Sizes, NEW same \in BOOLEAN,
                 CopyBuffer(from, to, size, lenS, lenD, same)
          PROVE  CopyInv'
      <4>1. /\ from \in Nat /\ to \in Nat /\ size \in Nat /\ lenS \in Nat /\ lenD \in Nat
        BY ChecksAssumption DEF UInt32
      <4>2. call' = CopyCall(from, to, size, lenS, lenD, same)
        BY <3>2 DEF CopyBuffer, Call, CopyCall
      <4> QED BY <4>1, <4>2 DEF CopyInv
    <3> QED BY <2>2, <3>1, <3>2, CopyOrOther
  <2> QED BY <2>1, <2>2
<1> QED BY <1>1, <1>2, PTL DEF Spec

\* enqueueCopyBuffer passes exactly the copies that lie in both buffers and do
\* not overlap, whatever the numbers: the overlap test and the bounds are right
\* at their boundaries.
THEOREM CopiesAreExact == Spec => []CopyBufferExact
<1>1. CopyInv => CopyBufferExact
  <2> SUFFICES ASSUME CopyInv, call.op = "copyBuffer", call.args.size > 0
               PROVE  call.passed <=>
                        /\ Within(Bytes(call.args.from, call.args.size), call.args.lenS)
                        /\ Within(Bytes(call.args.to, call.args.size), call.args.lenD)
                        /\ call.args.same => Bytes(call.args.from, call.args.size)
                                               \cap Bytes(call.args.to, call.args.size) = {}
    BY DEF CopyBufferExact
  <2>1. PICK from \in Nat, to \in Nat, size \in Nat, lenS \in Nat, lenD \in Nat, same \in BOOLEAN :
          call = CopyCall(from, to, size, lenS, lenD, same)
    BY DEF CopyInv
  <2>2. /\ call.args.from = from /\ call.args.to = to /\ call.args.size = size
        /\ call.args.lenS = lenS /\ call.args.lenD = lenD /\ call.args.same = same
        /\ call.passed = CopyBufferPasses(from, to, size, lenS, lenD, same)
    BY <2>1 DEF CopyCall
  <2>3. size \in Nat \ {0}
    BY <2>2
  <2>4. /\ Within(Bytes(from, size), lenS) <=> from + size <= lenS
        /\ Within(Bytes(to, size), lenD) <=> to + size <= lenD
    BY <2>3, WithinIsBounded
  <2>5. Overlap(from, to, size) <=> Bytes(from, size) \cap Bytes(to, size) # {}
    BY <2>3, OverlapIsMeeting
  <2> QED BY <2>2, <2>4, <2>5, Zenon DEF CopyBufferPasses
<1> QED BY <1>1, CopyInvariant, PTL

-----------------------------------------------------------------------------
(* Words *)

LEMMA SmallRest ==
  ASSUME NEW m \in Nat \ {0}, NEW x \in Nat
  PROVE  x % m \in 0..(m - 1) /\ x % m <= x /\ (x < m => x % m = x)
OBVIOUS

LEMMA RestIsSmall ==
  ASSUME NEW m \in Nat \ {0}, NEW x \in Int
  PROVE  x % m \in 0..(m - 1)
OBVIOUS

LEMMA MulMono ==
  ASSUME NEW a \in Nat, NEW b \in Nat, NEW k \in Nat, a <= b
  PROVE  a * k <= b * k /\ k * a <= k * b /\ a * k \in Nat
OBVIOUS

\* A product of two words fits in a size_t.
LEMMA SizeTHolds ==
  /\ 4 * HalfWord * HalfWord \in Nat \ {0} /\ 2 * HalfWord \in Nat \ {0}
  /\ HalfWord <= 4 * HalfWord * HalfWord
  /\ \A x, y \in UInt32 : x * y \in Nat /\ x * y < 4 * HalfWord * HalfWord
<1>1. HalfWord \in Nat \ {0}
  BY ChecksAssumption
<1>2. PICK w \in Nat \ {0} : w = 2 * HalfWord
  BY <1>1
<1>3. 4 * HalfWord * HalfWord = w * w
  BY <1>1, <1>2
<1>4. HalfWord <= w /\ w <= w * w /\ w * w \in Nat \ {0}
  <2>1. w >= 1 /\ HalfWord <= w
    BY <1>1, <1>2
  <2>2. 1 * w <= w * w
    BY <2>1, MulMono
  <2>. QED BY <1>1, <2>1, <2>2
<1>5. ASSUME NEW x \in UInt32, NEW y \in UInt32 PROVE x * y \in Nat /\ x * y < w * w
  <2>1. x \in 0..(w - 1) /\ y \in 0..(w - 1)
    BY <1>1, <1>2 DEF UInt32
  <2>2. x * y <= w * y /\ w * y <= w * (w - 1) /\ x * y \in Nat
    <3>1. x \in Nat /\ y \in Nat /\ w - 1 \in Nat /\ x <= w /\ y <= w - 1
      BY <2>1
    <3>2. w * y <= w * (w - 1)
      BY <3>1, MulMono
    <3>3. x * y <= w * y /\ x * y \in Nat
      BY <3>1, MulMono
    <3>. QED BY <3>2, <3>3
  <2>3. w * (w - 1) = w * w - w
    OBVIOUS
  <2>. QED BY <1>2, <2>1, <2>2, <2>3
<1>. QED BY <1>1, <1>2, <1>3, <1>4, <1>5

LEMMA SizeTIsRest ==
  ASSUME NEW x \in Nat
  PROVE  /\ SizeT(x) \in Nat /\ SizeT(x) <= x
         /\ x < 4 * HalfWord * HalfWord => SizeT(x) = x
<1>1. PICK m \in Nat \ {0} : m = 4 * HalfWord * HalfWord
  BY SizeTHolds
<1>2. SizeT(x) = x % m
  BY <1>1 DEF SizeT
<1>3. x % m \in 0..(m - 1) /\ x % m <= x /\ (x < m => x % m = x)
  BY SmallRest
<1>. QED BY <1>1, <1>2, <1>3

LEMMA Int32IsInt32 ==
  ASSUME NEW x \in Int
  PROVE  Int32(x) \in Int32s
<1>1. HalfWord \in Nat \ {0} /\ 2 * HalfWord \in Nat \ {0} /\ x + HalfWord \in Int
  BY ChecksAssumption
<1>2. (x + HalfWord) % (2 * HalfWord) \in 0..(2 * HalfWord - 1)
  BY <1>1, RestIsSmall
<1>. QED BY <1>1, <1>2 DEF Int32, Int32s

\* Up to 2^31 a cast to int changes nothing, and it never makes a size larger.
LEMMA Int32OfSize ==
  ASSUME NEW x \in Nat
  PROVE  Int32(x) \in Int /\ Int32(x) <= x /\ (x < HalfWord => Int32(x) = x)
<1>1. HalfWord \in Nat \ {0} /\ 2 * HalfWord \in Nat \ {0} /\ x + HalfWord \in Nat
  BY ChecksAssumption
<1>2. PICK y : y = (x + HalfWord) % (2 * HalfWord)
  OBVIOUS
<1>3. /\ y \in 0..(2 * HalfWord - 1) /\ y <= x + HalfWord
      /\ x + HalfWord < 2 * HalfWord => y = x + HalfWord
  BY <1>1, <1>2, SmallRest
<1>4. Int32(x) = y - HalfWord
  BY <1>2 DEF Int32
<1>. QED BY <1>1, <1>3, <1>4

\* The length the checks use is at most the array's, and negative only of an
\* array of 2^31 bytes or more.
LEMMA HostLengths ==
  ASSUME NEW array \in HostArrays
  PROVE  /\ ByteLength(array) \in Nat /\ HostLength(array) \in Int32s
         /\ HostLength(array) <= ByteLength(array)
         /\ HostLength(array) < 0 => ByteLength(array) >= HalfWord
<1>1. array \in ArrayRecord /\ HalfWord \in Nat
  BY ChecksAssumption
<1>2. array.length \in Nat /\ ElementBytes[array.type] \in Nat
  BY <1>1 DEF ArrayRecord, UInt32, ElementTypes, ElementBytes
<1>3. ByteLength(array) \in Nat /\ HostLength(array) = Int32(ByteLength(array))
  BY <1>2 DEF ByteLength, HostLength
<1>4. PICK n \in Nat : n = ByteLength(array)
  BY <1>3
<1>5. Int32(n) \in Int32s /\ Int32(n) \in Int /\ Int32(n) <= n /\ (n < HalfWord => Int32(n) = n)
  BY Int32OfSize, Int32IsInt32
<1>. QED BY <1>1, <1>3, <1>4, <1>5

-----------------------------------------------------------------------------
(* Kernel arguments *)

LEMMA DivOfProduct ==
  ASSUME NEW n \in Nat \ {0}, NEW k \in Nat
  PROVE  (n * k) \div n = k
OBVIOUS

\* What a state with a setArg in it says: its size is one the code passes.
ArgInv ==
  call.op = "setArg" =>
    \E array \in HostArrays, param \in Parameters, value \in Numbers :
      \E size \in ArgSizes(array, param, value) :
        call = [op |-> "setArg", args |-> [array |-> array, param |-> param, size |-> size],
                passed |-> TRUE]

LEMMA ArgOrOther ==
  ASSUME Next
  PROVE  \/ call'.op # "setArg"
         \/ \E array \in HostArrays, param \in Parameters, value \in Numbers :
              SetArg(array, param, value)
<1>1. CASE Return
  BY <1>1 DEF Return, NoCall
<1>2. CASE Buffers
  BY <1>2 DEF Buffers, WriteBuffer, ReadBuffer, CopyBuffer, Call
<1>3. CASE Rectangles
  BY <1>3 DEF Rectangles, WriteBufferRect, ReadBufferRect, TransferRect, CopyBufferRect, Call
<1>4. CASE OfImages
  BY <1>4 DEF OfImages, WriteImage, ReadImage, TransferImage, CopyImage, CopyImageToBuffer,
              CopyBufferToImage, Call
<1>5. CASE Arguments
  BY <1>5 DEF Arguments
<1> QED BY <1>1, <1>2, <1>3, <1>4, <1>5 DEF Next

LEMMA ArgInvariant == Spec => []ArgInv
<1>1. Init => ArgInv
  BY DEF Init, NoCall, ArgInv
<1>2. ArgInv /\ [Next]_call => ArgInv'
  <2> SUFFICES ASSUME ArgInv, [Next]_call PROVE ArgInv'
    OBVIOUS
  <2>1. CASE UNCHANGED call
    BY <2>1 DEF ArgInv, ArgSizes, LocalSizes, ReservesLocal, TypeNames, ArgBytes, ByteLength,
                ElementBytes, BaseTypes
  <2>2. CASE Next
    BY <2>2, ArgOrOther DEF SetArg, Call, ArgInv
  <2> QED BY <2>1, <2>2
<1> QED BY <1>1, <1>2, PTL DEF Spec

LEMMA BytesAreExact ==
  ASSUME NEW array \in ArrayRecord, ByteLength(array) < HalfWord
  PROVE  /\ ByteLength(array) \in Nat /\ Int32(ByteLength(array)) = ByteLength(array)
         /\ SizeT(ByteLength(array)) = ByteLength(array)
<1>1. PICK n : n = ByteLength(array)
  OBVIOUS
<1>2. array.length \in Nat /\ ElementBytes[array.type] \in Nat
  BY ChecksAssumption DEF ArrayRecord, UInt32, ElementTypes, ElementBytes
<1>3. n \in Nat /\ n < HalfWord
  BY <1>1, <1>2 DEF ByteLength
<1>4. Int32(n) = n /\ SizeT(n) = n
  <2>1. PICK w \in Nat : w = 4 * HalfWord * HalfWord /\ HalfWord <= w
    BY SizeTHolds
  <2>2. n < 4 * HalfWord * HalfWord
    BY <1>3, <2>1, ChecksAssumption
  <2>. QED BY <1>3, <2>2, Int32OfSize, SizeTIsRest
<1>. QED BY <1>1, <1>3, <1>4

\* The length of an array that is not so long is the int it is kept in.
LEMMA LengthIsExact ==
  ASSUME NEW array \in ArrayRecord, array.type # "Buffer", ByteLength(array) < HalfWord
  PROVE  ArgLength(array) = array.length /\ array.length <= ByteLength(array)
<1>1. array.length \in Nat /\ ElementBytes[array.type] \in {1, 2, 4, 8}
  BY ChecksAssumption DEF ArrayRecord, UInt32, ElementTypes, ElementBytes
<1>2. array.length <= ByteLength(array)
  BY <1>1 DEF ByteLength
<1>3. array.length < HalfWord
  BY <1>1, <1>2, ChecksAssumption DEF ByteLength
<1>. QED BY <1>1, <1>2, <1>3, Int32OfSize DEF ArgLength

\* The size for a parameter of a named type, from elements of the type's size.
LEMMA ArgBytesRight ==
  ASSUME NEW array \in ArrayRecord, NEW type \in BaseTypes \ {"struct"}, NEW width \in 1..16,
         array.type # "Buffer", ElementBytes[array.type] = SizeOfBase[type],
         array.length >= width, ByteLength(array) * width < HalfWord
  PROVE  /\ ArgBytes(array, <<type, width>>) = SizeOfBase[type] * width
         /\ ArgBytes(array, <<type, width>>) <= ByteLength(array)
<1>1. PICK n, e, bytes : n = array.length /\ e = SizeOfBase[type] /\ bytes = ByteLength(array)
  OBVIOUS
<1>2. /\ n \in Nat \ {0} /\ e \in Nat \ {0} /\ bytes = n * e /\ bytes \in Nat
      /\ bytes * width \in Nat
  BY <1>1, ChecksAssumption DEF ArrayRecord, UInt32, BaseTypes, SizeOfBase, ByteLength
<1>3. bytes <= bytes * width
  BY <1>2
<1>4. bytes < HalfWord /\ bytes * width < HalfWord
  BY <1>1, <1>2, <1>3, ChecksAssumption
<1>5. /\ Int32(bytes) = bytes /\ SizeT(bytes) = bytes /\ ArgLength(array) = n
  BY <1>1, <1>4, BytesAreExact, LengthIsExact
<1>6. Int32(bytes * width) = bytes * width
  BY <1>2, <1>4, Int32OfSize
<1>7. e * width \in Nat /\ e * width <= bytes
  BY <1>1, <1>2
<1>8. CASE n > 1
  <2>1. bytes * width = n * (e * width)
    BY <1>2
  <2>2. Quotient(bytes * width, n) = e * width
    <3>1. (n * (e * width)) \div n = e * width
      BY <1>2, <1>7, DivOfProduct
    <3>. QED BY <1>2, <2>1, <3>1 DEF Quotient
  <2>3. ArgBytes(array, <<type, width>>) = SizeT(e * width)
    BY <1>1, <1>5, <1>6, <1>8, <2>2 DEF ArgBytes
  <2>4. SizeT(e * width) = e * width
    <3>1. PICK w \in Nat : w = 4 * HalfWord * HalfWord /\ HalfWord <= w
      BY SizeTHolds
    <3>2. e * width < 4 * HalfWord * HalfWord
      BY <1>2, <1>4, <1>7, <3>1, ChecksAssumption
    <3>. QED BY <1>7, <3>2, SizeTIsRest
  <2>. QED BY <1>1, <1>7, <2>3, <2>4
<1>9. CASE n = 1
  <2>1. ArgBytes(array, <<type, width>>) = bytes
    BY <1>1, <1>5, <1>9 DEF ArgBytes
  <2>2. width = 1
    BY <1>1, <1>9
  <2>. QED BY <1>1, <1>2, <1>9, <2>1, <2>2
<1>. QED BY <1>2, <1>8, <1>9

\* The size of what is passed whole does not depend on the name.
LEMMA ArgBytesWhole ==
  ASSUME NEW array \in ArrayRecord, NEW name, ByteLength(array) < HalfWord,
         array.type = "Buffer" \/ array.length <= 1
  PROVE  ArgBytes(array, name) = ByteLength(array)
<1>1. ~(ArgLength(array) > 1)
  <2>1. CASE array.type = "Buffer"
    BY <2>1 DEF ArgLength
  <2>2. CASE array.type # "Buffer"
    <3>1. ArgLength(array) = array.length /\ array.length \in Nat
      BY <2>2, LengthIsExact, ChecksAssumption DEF ArrayRecord, UInt32
    <3>. QED BY <2>2, <3>1
  <2>. QED BY <2>1, <2>2
<1>. QED BY <1>1, BytesAreExact DEF ArgBytes

\* setArg passes the size of the parameter's type and stays within the array, for
\* arrays of any length whose bytes times the vector's width an int can count; and
\* what it passes whole does not hang on an uninitialized name.
THEOREM ArgSizesAreRight == Spec => []ArgSizeRight
<1>1. ArgInv => ArgSizeRight
  <2>. SUFFICES ASSUME ArgInv, call.op = "setArg" PROVE ArgSizeRight
    BY DEF ArgSizeRight
  <2>1. PICK array \in HostArrays, param \in Parameters, value \in Numbers :
          \E size \in ArgSizes(array, param, value) :
            call = [op |-> "setArg", args |-> [array |-> array, param |-> param, size |-> size],
                    passed |-> TRUE]
    BY DEF ArgInv
  <2>2. PICK size \in ArgSizes(array, param, value) :
            call = [op |-> "setArg", args |-> [array |-> array, param |-> param, size |-> size],
                    passed |-> TRUE]
    BY <2>1
  <2>3. call.args.array = array /\ call.args.param = param /\ call.args.size = size
    BY <2>2
  <2>4. array \in ArrayRecord /\ param \in ParamRecord
    BY ChecksAssumption
  <2>5. ASSUME param.known, ~param.local, param.type # "struct", array.type # "Buffer",
               ElementBytes[array.type] = SizeOfBase[param.type],
               array.length >= param.width, ByteLength(array) * param.width < HalfWord
        PROVE  size = SizeOfBase[param.type] * param.width /\ size <= ByteLength(array)
    <3>1. param.type \in BaseTypes \ {"struct"} /\ param.width \in 1..16
      BY <2>4, <2>5 DEF ParamRecord
    <3>2. size = ArgBytes(array, <<param.type, param.width>>)
      BY <2>5 DEF ArgSizes, ReservesLocal, TypeNames
    <3>. QED BY <2>4, <2>5, <3>1, <3>2, ArgBytesRight
  <2>6. ASSUME ~ReservesLocal(array, param), array.type = "Buffer" \/ array.length <= 1,
               ByteLength(array) < HalfWord
        PROVE  size = ByteLength(array)
    <3>1. PICK name : size = ArgBytes(array, name)
      BY <2>6 DEF ArgSizes
    <3>. QED BY <2>4, <2>6, <3>1, ArgBytesWhole
  <2>. QED BY <2>3, <2>5, <2>6 DEF ArgSizeRight
<1>. QED BY <1>1, ArgInvariant, PTL

-----------------------------------------------------------------------------
(* Types *)

LEMMA ArrayTypes ==
  ASSUME NEW array \in HostArrays, call'.op \in Operations, call'.passed \in BOOLEAN,
         call'.args.array = array
  PROVE  TypeOK'
BY HostLengths DEF TypeOK

\* Every operation of the script leaves a call of its own, whose verdict is a
\* truth value, and of whose array the code has a length.
LEMMA TypesStep ==
  ASSUME Next
  PROVE  TypeOK'
<1>1. CASE Return
  BY <1>1 DEF Return, NoCall, TypeOK, Operations
<1>2. CASE Buffers
  <2>1. ASSUME NEW offset \in Numbers, NEW size \in Numbers, NEW array \in HostArrays,
               WriteBuffer(offset, size, array) \/ ReadBuffer(offset, size, array)
        PROVE  TypeOK'
    <3>1. call'.op \in {"writeBuffer", "readBuffer"}
      BY <2>1 DEF WriteBuffer, ReadBuffer, Call
    <3>2. call'.passed \in BOOLEAN
      <4>1. CASE WriteBuffer(offset, size, array)
        BY <4>1 DEF WriteBuffer, Call
      <4>2. CASE ReadBuffer(offset, size, array)
        BY <4>2 DEF ReadBuffer, Call
      <4>. QED BY <2>1, <4>1, <4>2
    <3>3. call'.args.array = array
      BY <2>1 DEF WriteBuffer, ReadBuffer, Call
    <3>. QED BY <3>1, <3>2, <3>3, ArrayTypes DEF Operations
  <2>2. ASSUME NEW from \in Numbers, NEW to \in Numbers, NEW size \in Numbers,
               NEW lenS \in Sizes, NEW lenD \in Sizes, NEW same \in BOOLEAN,
               CopyBuffer(from, to, size, lenS, lenD, same)
        PROVE  TypeOK'
    BY <2>2 DEF CopyBuffer, CopyBufferPasses, Call, TypeOK, Operations
  <2>. QED BY <1>2, <2>1, <2>2 DEF Buffers
<1>3. CASE Rectangles
  <2>1. ASSUME NEW c1 \in Corners, NEW c2 \in Corners, NEW region \in Regions,
               NEW p1 \in Pitches, NEW p2 \in Pitches, NEW array \in HostArrays,
               \/ WriteBufferRect(c1, p1, c2, p2, region, array)
               \/ ReadBufferRect(c1, p1, c2, p2, region, array)
        PROVE  TypeOK'
    <3>1. PICK op \in {"writeBufferRect", "readBufferRect"} : TransferRect(op, c1, p1, c2, p2, region, array)
      BY <2>1 DEF WriteBufferRect, ReadBufferRect
    <3>2. call'.op = op /\ call'.passed \in BOOLEAN /\ call'.args.array = array
      BY <3>1 DEF TransferRect, Call
    <3>. QED BY <3>2, ArrayTypes DEF Operations
  <2>2. ASSUME NEW c1, NEW c2, NEW region, NEW p1, NEW p2, NEW lenS, NEW lenD,
               CopyBufferRect(c1, p1, c2, p2, region, lenS, lenD)
        PROVE  TypeOK'
    BY <2>2 DEF CopyBufferRect, Call, TypeOK, Operations
  <2>. QED BY <1>3, <2>1, <2>2 DEF Rectangles
<1>4. CASE OfImages
  <2>1. ASSUME NEW corner, NEW region, NEW image, NEW row, NEW array \in HostArrays,
               \/ WriteImage(corner, region, row, image, array)
               \/ ReadImage(corner, region, row, image, array)
        PROVE  TypeOK'
    <3>1. PICK op \in {"writeImage", "readImage"} : TransferImage(op, corner, region, row, image, array)
      BY <2>1 DEF WriteImage, ReadImage
    <3>2. call'.op = op /\ call'.passed \in BOOLEAN /\ call'.args.array = array
      BY <3>1 DEF TransferImage, Call
    <3>. QED BY <3>2, ArrayTypes DEF Operations
  <2>2. ASSUME NEW corner, NEW region, NEW image, NEW to, NEW dest,
               CopyImage(corner, to, region, image, dest)
        PROVE  TypeOK'
    BY <2>2 DEF CopyImage, Call, TypeOK, Operations
  <2>3. ASSUME NEW corner, NEW region, NEW image, NEW offset, NEW len,
               CopyImageToBuffer(corner, region, image, offset, len)
        PROVE  TypeOK'
    BY <2>3 DEF CopyImageToBuffer, Call, TypeOK, Operations
  <2>4. ASSUME NEW corner, NEW region, NEW image, NEW offset, NEW len,
               CopyBufferToImage(corner, region, image, offset, len)
        PROVE  TypeOK'
    BY <2>4 DEF CopyBufferToImage, Call, TypeOK, Operations
  <2>. QED BY <1>4, <2>1, <2>2, <2>3, <2>4 DEF OfImages
<1>5. CASE Arguments
  <2>1. PICK array \in HostArrays, param \in Parameters, value \in Numbers : SetArg(array, param, value)
    BY <1>5 DEF Arguments
  <2>2. call'.op = "setArg" /\ call'.passed = TRUE /\ call'.args.array = array
    BY <2>1 DEF SetArg, Call
  <2>. QED BY <2>2, ArrayTypes DEF Operations
<1>. QED BY <1>1, <1>2, <1>3, <1>4, <1>5 DEF Next

\* The types of ArgumentChecks: every verdict is one, and every length the code
\* compares with, of arrays of any type and number of elements, is an int.
THEOREM CallTypes == Spec => []TypeOK
<1>1. Init => TypeOK
  BY DEF Init, NoCall, TypeOK, Operations
<1>2. TypeOK /\ [Next]_call => TypeOK'
  <2>. SUFFICES ASSUME TypeOK, UNCHANGED call PROVE TypeOK'
    BY TypesStep
  <2>. QED BY DEF TypeOK, HostLength, Int32, Int32s, ElementBytes, Operations
<1>. QED BY <1>1, <1>2, PTL DEF Spec

-----------------------------------------------------------------------------
(* The calls, one by one *)

LEMMA CallOrOther ==
  ASSUME Next
  PROVE  \/ call'.op \in {"none", "readBuffer", "copyBuffer", "setArg"}
         \/ \E offset, size \in Numbers, array \in HostArrays : WriteBuffer(offset, size, array)
         \/ \E c1, c2 \in Corners, region \in Regions, p1, p2 \in Pitches, array \in HostArrays :
              \E op \in {"writeBufferRect", "readBufferRect"} :
                TransferRect(op, c1, p1, c2, p2, region, array)
         \/ \E c1, c2 \in Corners, region \in Regions, p1, p2 \in Pitches, lenS, lenD \in Sizes :
              CopyBufferRect(c1, p1, c2, p2, region, lenS, lenD)
         \/ \E corner \in Corners, region \in Regions, image \in Images, p \in Pitches, array \in HostArrays :
              \E op \in {"writeImage", "readImage"} : TransferImage(op, corner, region, p[1], image, array)
         \/ \E sc, dc \in Corners, region \in Regions, source, dest \in Images :
              CopyImage(sc, dc, region, source, dest)
         \/ \E corner \in Corners, region \in Regions, image \in Images, offset \in Numbers, len \in Sizes :
              \/ CopyImageToBuffer(corner, region, image, offset, len)
              \/ CopyBufferToImage(corner, region, image, offset, len)
<1>1. CASE Return
  BY <1>1 DEF Return, NoCall
<1>2. CASE Buffers
  BY <1>2 DEF Buffers, ReadBuffer, CopyBuffer, Call
<1>3. CASE Rectangles
  BY <1>3 DEF Rectangles, WriteBufferRect, ReadBufferRect
<1>4. CASE OfImages
  <2>1. PICK corner \in Corners, region \in Regions, image \in Images :
          \/ \E pitch \in Pitches, array \in HostArrays :
               \E op \in {"writeImage", "readImage"} : TransferImage(op, corner, region, pitch[1], image, array)
          \/ \E to \in Corners, dest \in Images : CopyImage(corner, to, region, image, dest)
          \/ \E offset \in Numbers, len \in Sizes :
               \/ CopyImageToBuffer(corner, region, image, offset, len)
               \/ CopyBufferToImage(corner, region, image, offset, len)
    BY <1>4 DEF OfImages, WriteImage, ReadImage
  <2>. QED BY <2>1
<1>5. CASE Arguments
  BY <1>5 DEF Arguments, SetArg, Call
<1>. QED BY <1>1, <1>2, <1>3, <1>4, <1>5 DEF Next

Triples == UInt32 \X UInt32 \X UInt32

LEMMA TripleParts ==
  ASSUME NEW t \in Triples
  PROVE  /\ t[1] \in UInt32 /\ t[2] \in UInt32 /\ t[3] \in UInt32
         /\ t[1] \in Nat /\ t[2] \in Nat /\ t[3] \in Nat
<1>1. t[1] \in UInt32 /\ t[2] \in UInt32 /\ t[3] \in UInt32
  BY DEF Triples
<1>. QED BY <1>1 DEF UInt32

-----------------------------------------------------------------------------
(* Regions of images *)

LEMMA ImageParts ==
  ASSUME NEW image \in Images
  PROVE  /\ image.width \in Nat \ {0} /\ image.height \in Nat \ {0} /\ image.bpp \in Nat \ {0}
         /\ image.width * image.height * image.bpp < 4 * HalfWord * HalfWord
BY ChecksAssumption DEF ImageRecord, UInt32

\* A flat region with an extent is placed when its ends are within the image.
LEMMA PlacedIsBounded ==
  ASSUME NEW corner \in Triples, NEW region \in Triples, NEW image \in Images,
         region[1] > 0, region[2] > 0, region[3] = 1
  PROVE  Placed(corner, region, image) <=>
           corner[1] + region[1] <= image.width /\ corner[2] + region[2] <= image.height
<1>1. /\ corner[1] \in Nat /\ corner[2] \in Nat /\ region[1] \in Nat \ {0} /\ region[2] \in Nat \ {0}
      /\ image.width \in Nat /\ image.height \in Nat
  BY TripleParts, ImageParts
<1>2. /\ Within(Bytes(corner[1], region[1]), image.width) <=> corner[1] + region[1] <= image.width
      /\ Within(Bytes(corner[2], region[2]), image.height) <=> corner[2] + region[2] <= image.height
  BY <1>1, WithinIsBounded
<1>. QED BY <1>2 DEF Placed

\* imageRectSize with the default pitch and no array: the size of a flat region
\* below 2^31 is no error exactly when the region is placed.
LEMMA ImageRectPlaces ==
  ASSUME NEW corner \in Triples, NEW region \in Triples, NEW image \in Images,
         region[1] > 0, region[2] > 0, region[3] = 1, region[1] * region[2] < HalfWord
  PROVE  ImageRectSize(corner, region, 0, image, -1) >= 0 <=> Placed(corner, region, image)
<1>1. PICK area \in Nat : area = region[1] * region[2]
  BY TripleParts
<1>2. SizeT(area) = area /\ Int32(area) = area
  <2>1. area < 4 * HalfWord * HalfWord
    BY <1>1, SizeTHolds, ChecksAssumption
  <2>. QED BY <1>1, <2>1, SizeTIsRest, Int32OfSize
<1>3. /\ SizeT(RowPitch(0, region) * region[2]) = area
      /\ area * region[3] = area
  BY <1>1, <1>2 DEF RowPitch
<1>4. Int32(SizeT(SizeT(RowPitch(0, region) * region[2]) * region[3])) = area
  BY <1>2, <1>3
<1>5. ImageRectSize(corner, region, 0, image, -1) =
        IF corner[1] + region[1] > image.width \/ corner[2] + region[2] > image.height THEN -1 ELSE area
  BY <1>4 DEF ImageRectSize
<1>6. /\ corner[1] \in Nat /\ corner[2] \in Nat /\ region[1] \in Nat /\ region[2] \in Nat
      /\ image.width \in Nat /\ image.height \in Nat
  BY TripleParts, ImageParts
<1>. QED BY <1>1, <1>5, <1>6, PlacedIsBounded

\* The bytes of a placed region fit in a size_t, since the image's do.
LEMMA PlacedFits ==
  ASSUME NEW region \in Triples, NEW image \in Images,
         region[1] <= image.width, region[2] <= image.height
  PROVE  /\ region[1] * region[2] * image.bpp \in Nat
         /\ SizeT(region[1] * region[2] * image.bpp) = region[1] * region[2] * image.bpp
<1>1. PICK x \in Nat, y \in Nat, w \in Nat, h \in Nat, k \in Nat :
        /\ x = region[1] /\ y = region[2] /\ w = image.width /\ h = image.height /\ k = image.bpp
        /\ x <= w /\ y <= h
  BY TripleParts, ImageParts
<1>2. x * y <= w * h /\ x * y \in Nat /\ w * h \in Nat
  <2>1. x * y <= w * y /\ w * y <= w * h
    BY <1>1, MulMono
  <2>2. x * y \in Nat /\ w * h \in Nat /\ w * y \in Nat
    BY <1>1, MulMono
  <2>. QED BY <2>1, <2>2
<1>3. (x * y) * k <= (w * h) * k /\ (x * y) * k \in Nat /\ (w * h) * k \in Nat
  BY <1>2, MulMono
<1>4. (w * h) * k < 4 * HalfWord * HalfWord
  BY <1>1, ImageParts
<1>5. (x * y) * k < 4 * HalfWord * HalfWord
  BY <1>3, <1>4, SizeTHolds
<1>. QED BY <1>1, <1>3, <1>5, SizeTIsRest

LEMMA CopyImageStep ==
  ASSUME NEW sc \in Triples, NEW dc \in Triples, NEW region \in Triples, NEW source \in Images,
         NEW dest \in Images, CopyImage(sc, dc, region, source, dest)
  PROVE  ImageCopiesExact'
<1>1. /\ call'.op = "copyImage"
      /\ call'.args = [sc |-> sc, dc |-> dc, region |-> region, source |-> source, dest |-> dest]
      /\ call'.passed = (/\ ImageRectSize(sc, region, 0, source, -1) >= 0
                         /\ ImageRectSize(dc, region, 0, dest, -1) >= 0)
  BY DEF CopyImage, Call
<1>2. ASSUME region[1] > 0, region[2] > 0, region[3] = 1, region[1] * region[2] < HalfWord
      PROVE  call'.passed <=> Placed(sc, region, source) /\ Placed(dc, region, dest)
  BY <1>1, <1>2, ImageRectPlaces
<1>. QED BY <1>1, <1>2 DEF ImageCopiesExact

LEMMA CopyToBufferStep ==
  ASSUME NEW corner \in Triples, NEW region \in Triples, NEW image \in Images,
         NEW offset \in Nat, NEW len \in Nat, CopyImageToBuffer(corner, region, image, offset, len)
  PROVE  ImageCopiesExact'
<1>1. /\ call'.op = "copyImageToBuffer"
      /\ call'.args = [corner |-> corner, region |-> region, image |-> image, offset |-> offset, len |-> len]
      /\ call'.passed = (/\ corner[1] + region[1] <= image.width /\ corner[2] + region[2] <= image.height
                         /\ SizeT(region[1] * region[2] * image.bpp) <= len)
  BY DEF CopyImageToBuffer, Call
<1>2. /\ corner[1] \in Nat /\ corner[2] \in Nat /\ region[1] \in Nat /\ region[2] \in Nat
      /\ image.width \in Nat /\ image.height \in Nat /\ image.bpp \in Nat \ {0}
  BY TripleParts, ImageParts
<1>3. ASSUME region[1] > 0, region[2] > 0, region[3] = 1
      PROVE  call'.passed <=> /\ Placed(corner, region, image)
                              /\ Within(Bytes(0, region[1] * region[2] * image.bpp), len)
  <2>1. CASE ~(corner[1] + region[1] <= image.width /\ corner[2] + region[2] <= image.height)
    BY <1>1, <1>3, <2>1, PlacedIsBounded
  <2>2. CASE corner[1] + region[1] <= image.width /\ corner[2] + region[2] <= image.height
    <3>1. region[1] <= image.width /\ region[2] <= image.height
      BY <1>2, <2>2
    <3>2. PICK size \in Nat : size = region[1] * region[2] * image.bpp /\ SizeT(size) = size
      BY <3>1, PlacedFits
    <3>3. size # 0
      <4>1. PICK x \in Nat \ {0}, y \in Nat \ {0}, k \in Nat \ {0} :
              x = region[1] /\ y = region[2] /\ k = image.bpp
        BY <1>2, <1>3
      <4>2. x * y \in Nat \ {0}
        OBVIOUS
      <4>3. x * y * k \in Nat \ {0}
        BY <4>2
      <4>. QED BY <3>2, <4>1, <4>3
    <3>4. Within(Bytes(0, size), len) <=> size <= len
      BY <3>3, WithinIsBounded
    <3>. QED BY <1>1, <1>3, <2>2, <3>2, <3>4, PlacedIsBounded
  <2>. QED BY <2>1, <2>2
<1>. QED BY <1>1, <1>3 DEF ImageCopiesExact

LEMMA ArgumentTypes ==
  /\ Corners \subseteq Triples /\ Regions \subseteq Triples
  /\ Numbers \subseteq Nat /\ Sizes \subseteq Nat
BY ChecksAssumption DEF Triples, UInt32

LEMMA ImageStep ==
  ASSUME Next
  PROVE  ImageCopiesExact'
<1>1. CASE \E sc, dc \in Corners, region \in Regions, source, dest \in Images :
             CopyImage(sc, dc, region, source, dest)
  BY <1>1, ArgumentTypes, CopyImageStep
<1>2. CASE \E corner \in Corners, region \in Regions, image \in Images, offset \in Numbers, len \in Sizes :
             CopyImageToBuffer(corner, region, image, offset, len)
  BY <1>2, ArgumentTypes, CopyToBufferStep
<1>3. ASSUME call'.op # "copyImage", call'.op # "copyImageToBuffer"
      PROVE  ImageCopiesExact'
  BY <1>3 DEF ImageCopiesExact
<1>. QED BY <1>1, <1>2, <1>3, CallOrOther
         DEF WriteBuffer, TransferRect, CopyBufferRect, TransferImage, CopyBufferToImage, Call

\* enqueueCopyImage (of less than 2^31 elements) and enqueueCopyImageToBuffer (at
\* offset 0) pass exactly the flat regions that are placed and, in the buffer, have
\* room: no product wraps around before the test of the corners has refused.
THEOREM ImageCopiesAreExact == Spec => []ImageCopiesExact
<1>1. Init => ImageCopiesExact
  BY DEF Init, NoCall, ImageCopiesExact
<1>2. ImageCopiesExact /\ [Next]_call => ImageCopiesExact'
  <2>. SUFFICES ASSUME ImageCopiesExact, UNCHANGED call PROVE ImageCopiesExact'
    BY ImageStep
  <2>. QED BY DEF ImageCopiesExact, Placed, Within, Bytes
<1>. QED BY <1>1, <1>2, PTL DEF Spec

-----------------------------------------------------------------------------
(* Rectangles of buffers and arrays *)

\* One past the last byte of a rectangle whose rows and slices have these sizes.
EndOfRect(corner, region, row, slice) ==
  (corner[3] + region[3] - 1) * slice + (corner[2] + region[2] - 1) * row + (corner[1] + region[1])

RectRow(region, pitch)   == IF pitch[1] = 0 THEN region[1] ELSE pitch[1]
RectSlice(region, pitch) == IF pitch[2] = 0 THEN region[2] * RectRow(region, pitch) ELSE pitch[2]

\* All bytes of a rectangle come before its end, and the last one right before it.
LEMMA RectEnds ==
  ASSUME NEW corner \in Triples, NEW region \in Triples, NEW pitch \in UInt32 \X UInt32, NEW len \in Int,
         region[1] > 0, region[2] > 0, region[3] > 0
  PROVE  /\ RectRow(region, pitch) \in Nat \ {0} /\ RectSlice(region, pitch) \in Nat
         /\ EndOfRect(corner, region, RectRow(region, pitch), RectSlice(region, pitch)) \in Nat \ {0}
         /\ Within(RectBytes(corner, region, pitch), len) <=>
              EndOfRect(corner, region, RectRow(region, pitch), RectSlice(region, pitch)) <= len
<1>0. /\ corner[1] \in Nat /\ corner[2] \in Nat /\ corner[3] \in Nat
      /\ region[1] \in Nat \ {0} /\ region[2] \in Nat \ {0} /\ region[3] \in Nat \ {0}
  BY TripleParts
<1>1. PICK a \in Nat, b \in Nat, c \in Nat, u \in Nat \ {0}, v \in Nat \ {0}, w \in Nat \ {0} :
        /\ corner[1] = a /\ corner[2] = b /\ corner[3] = c
        /\ region[1] = u /\ region[2] = v /\ region[3] = w
  BY <1>0, Zenon
<1>2. RectRow(region, pitch) \in Nat \ {0}
  BY <1>1 DEF RectRow, UInt32
<1>3. PICK row \in Nat \ {0} : row = RectRow(region, pitch)
  BY <1>2
<1>4. RectSlice(region, pitch) \in Nat
  <2>1. v * row \in Nat
    BY MulMono
  <2>. QED BY <1>1, <1>3, <2>1 DEF RectSlice, UInt32
<1>5. PICK slice \in Nat : slice = RectSlice(region, pitch)
  BY <1>4
<1>6. PICK p \in Nat, q \in Nat : p = (c + w - 1) * slice /\ q = (b + v - 1) * row
  <2>1. c + w - 1 \in Nat /\ b + v - 1 \in Nat
    OBVIOUS
  <2>2. (c + w - 1) * slice \in Nat /\ (b + v - 1) * row \in Nat
    BY <2>1, MulMono
  <2>. QED BY <2>2
<1>7. EndOfRect(corner, region, row, slice) = p + q + (a + u)
  BY <1>1, <1>6 DEF EndOfRect
<1>8. \A e : e \in RectBytes(corner, region, pitch) <=>
             \E x \in Bytes(0, u), y \in Bytes(0, v), z \in Bytes(0, w) :
               e = (c + z) * slice + (b + y) * row + a + x
  <2>1. /\ row = IF pitch[1] = 0 THEN region[1] ELSE pitch[1]
        /\ slice = IF pitch[2] = 0 THEN region[2] * row ELSE pitch[2]
    BY <1>3, <1>5 DEF RectRow, RectSlice
  <2>. QED BY <1>1, <2>1 DEF RectBytes
<1>9. ASSUME NEW x \in Bytes(0, u), NEW y \in Bytes(0, v), NEW z \in Bytes(0, w)
      PROVE  /\ (c + z) * slice + (b + y) * row + a + x \in Nat
             /\ (c + z) * slice + (b + y) * row + a + x < p + q + (a + u)
  <2>1. /\ x \in Nat /\ y \in Nat /\ z \in Nat /\ x <= u - 1 /\ b + y <= b + v - 1 /\ c + z <= c + w - 1
        /\ b + y \in Nat /\ c + z \in Nat /\ b + v - 1 \in Nat /\ c + w - 1 \in Nat
    BY DEF Bytes
  <2>2. (c + z) * slice <= p /\ (b + y) * row <= q /\ (c + z) * slice \in Nat /\ (b + y) * row \in Nat
    BY <1>6, <2>1, MulMono
  <2>3. PICK m \in Nat, n \in Nat : m = (c + z) * slice /\ n = (b + y) * row /\ m <= p /\ n <= q
    BY <2>2
  <2>4. m + n + a + x \in Nat /\ m + n + a + x < p + q + (a + u)
    BY <2>1, <2>3
  <2>. QED BY <2>3, <2>4
<1>10. p + q + (a + u) - 1 \in RectBytes(corner, region, pitch)
  <2>1. u - 1 \in Bytes(0, u) /\ v - 1 \in Bytes(0, v) /\ w - 1 \in Bytes(0, w)
    BY DEF Bytes
  <2>2. (c + (w - 1)) * slice = p /\ (b + (v - 1)) * row = q
    BY <1>6
  <2>3. (c + (w - 1)) * slice + (b + (v - 1)) * row + a + (u - 1) = p + q + (a + u) - 1
    BY <2>2
  <2>. QED BY <1>8, <2>1, <2>3
<1>11. ASSUME Within(RectBytes(corner, region, pitch), len) PROVE p + q + (a + u) <= len
  <2>1. p + q + (a + u) - 1 \in 0..(0 + len - 1)
    BY <1>10, <1>11 DEF Within, Bytes
  <2>. QED BY <2>1
<1>12. ASSUME p + q + (a + u) <= len PROVE Within(RectBytes(corner, region, pitch), len)
  <2>1. \A x \in Bytes(0, u), y \in Bytes(0, v), z \in Bytes(0, w) :
          (c + z) * slice + (b + y) * row + a + x \in 0..(0 + len - 1)
    <3>. SUFFICES ASSUME NEW x \in Bytes(0, u), NEW y \in Bytes(0, v), NEW z \in Bytes(0, w)
                  PROVE  (c + z) * slice + (b + y) * row + a + x \in 0..(0 + len - 1)
      OBVIOUS
    <3>1. PICK n \in Nat : n = (c + z) * slice + (b + y) * row + a + x /\ n < p + q + (a + u)
      BY <1>9
    <3>. QED BY <1>12, <3>1
  <2>2. \A e \in RectBytes(corner, region, pitch) : e \in 0..(0 + len - 1)
    BY <1>8, <2>1
  <2>. QED BY <2>2 DEF Within, Bytes
<1>. QED BY <1>3, <1>5, <1>7, <1>11, <1>12

\* bufferRectSize adds the volume of the region to the corner's place: that is no
\* more than the end, and is the end when rows and slices are packed.
LEMMA VolumeIsBounded ==
  ASSUME NEW corner \in Triples, NEW region \in Triples, NEW row \in Nat, NEW slice \in Nat,
         region[1] > 0, region[2] > 0, region[3] > 0,
         row >= region[1], slice >= row * region[2]
  PROVE  LET sum == corner[3] * slice + corner[2] * row + corner[1] + Volume(region)
         IN  /\ sum \in Nat /\ sum <= EndOfRect(corner, region, row, slice)
             /\ row = region[1] /\ slice = row * region[2] => sum = EndOfRect(corner, region, row, slice)
<1>0. /\ corner[1] \in Nat /\ corner[2] \in Nat /\ corner[3] \in Nat
      /\ region[1] \in Nat \ {0} /\ region[2] \in Nat \ {0} /\ region[3] \in Nat \ {0}
  BY TripleParts
<1>1. PICK a \in Nat, b \in Nat, c \in Nat, u \in Nat \ {0}, v \in Nat \ {0}, w \in Nat \ {0} :
        /\ corner[1] = a /\ corner[2] = b /\ corner[3] = c
        /\ region[1] = u /\ region[2] = v /\ region[3] = w
  BY <1>0, Zenon
<1>2. PICK cs \in Nat, br \in Nat : cs = c * slice /\ br = b * row
  <2>1. c * slice \in Nat /\ b * row \in Nat
    BY MulMono
  <2>. QED BY <2>1
<1>3. PICK ws \in Nat, vr \in Nat : ws = (w - 1) * slice /\ vr = (v - 1) * row
  <2>1. w - 1 \in Nat /\ v - 1 \in Nat
    OBVIOUS
  <2>2. (w - 1) * slice \in Nat /\ (v - 1) * row \in Nat
    BY <2>1, MulMono
  <2>. QED BY <2>2
<1>4. EndOfRect(corner, region, row, slice) = cs + ws + br + vr + a + u
  <2>1. (c + w - 1) * slice = cs + ws
    BY <1>2, <1>3
  <2>2. (b + v - 1) * row = br + vr
    BY <1>2, <1>3
  <2>. QED BY <1>1, <2>1, <2>2 DEF EndOfRect
<1>5. PICK area \in Nat, layers \in Nat, rows \in Nat :
        area = u * v /\ layers = (w - 1) * area /\ rows = (v - 1) * u
  <2>1. w - 1 \in Nat /\ v - 1 \in Nat /\ u * v \in Nat
    BY MulMono
  <2>2. (w - 1) * (u * v) \in Nat /\ (v - 1) * u \in Nat
    BY <2>1, MulMono
  <2>. QED BY <2>1, <2>2
<1>6. Volume(region) = layers + rows + u
  <2>1. area = rows + u
    BY <1>5
  <2>2. area * w = layers + area
    BY <1>5
  <2>. QED BY <1>1, <1>5, <2>1, <2>2 DEF Volume
<1>7. area <= row * v /\ rows <= vr
  <2>1. v - 1 \in Nat /\ u <= row
    BY <1>1
  <2>. QED BY <1>3, <1>5, <2>1, MulMono
<1>8. area <= slice /\ layers <= ws
  <2>1. row * v \in Nat
    BY MulMono
  <2>2. w - 1 \in Nat /\ area <= slice
    BY <1>1, <1>7, <2>1
  <2>. QED BY <1>3, <1>5, <2>2, MulMono
<1>9. corner[3] * slice + corner[2] * row + corner[1] + Volume(region) = cs + br + a + (layers + rows + u)
  BY <1>1, <1>2, <1>6
<1>10. ASSUME row = region[1], slice = row * region[2] PROVE layers = ws /\ rows = vr
  BY <1>1, <1>3, <1>5, <1>10
<1>. QED BY <1>4, <1>7, <1>8, <1>9, <1>10

-----------------------------------------------------------------------------
(* What passes fits the array *)

LEMMA RectPassed ==
  ASSUME NEW corner \in Triples, NEW region \in Triples, NEW len \in Int,
         RectFits(corner, region, <<0, 0>>, len),
         Within(RectBytes(corner, region, <<0, 0>>), HalfWord - 1)
  PROVE  Within(RectBytes(corner, region, <<0, 0>>), len)
<1>1. /\ region[1] \in UInt32 /\ region[2] \in UInt32 /\ region[1] \in Nat /\ region[2] \in Nat
      /\ region[3] \in Nat /\ HalfWord \in Nat \ {0} /\ 0 \in UInt32
  BY TripleParts, ChecksAssumption DEF UInt32
<1>2. /\ region[1] > 0 /\ region[2] > 0 /\ region[3] > 0
      /\ BufferRectSize(corner, region, 0, 0, SizeT(len)) \in 0..len
  BY <1>1 DEF RectFits, BufferRectSize
<1>3. PICK r \in Nat, s \in Nat : r = region[1] /\ s = r * region[2] /\ SizeT(r * region[2]) = s
  <2>1. region[1] * region[2] \in Nat /\ region[1] * region[2] < 4 * HalfWord * HalfWord
    BY <1>1, SizeTHolds
  <2>. QED BY <1>1, <2>1, SizeTIsRest
<1>4. RowPitch(0, region) = r /\ SlicePitch(r, 0, region) = s
  BY <1>3 DEF RowPitch, SlicePitch
<1>5. PICK sum \in Nat : /\ sum = corner[3] * s + corner[2] * r + corner[1] + Volume(region)
                         /\ sum = EndOfRect(corner, region, r, s)
  <2>1. r >= region[1] /\ s >= r * region[2] /\ r = region[1] /\ s = r * region[2]
    BY <1>1, <1>3
  <2>2. /\ corner[3] * s + corner[2] * r + corner[1] + Volume(region) \in Nat
        /\ corner[3] * s + corner[2] * r + corner[1] + Volume(region) = EndOfRect(corner, region, r, s)
    BY <1>2, <2>1, VolumeIsBounded
  <2>. QED BY <2>2
<1>6. BufferRectSize(corner, region, 0, 0, SizeT(len)) \in {-1, Int32(SizeT(sum))}
  BY <1>4, <1>5 DEF BufferRectSize
<1>7. RectRow(region, <<0, 0>>) = r /\ RectSlice(region, <<0, 0>>) = s
  BY <1>1, <1>3 DEF RectRow, RectSlice
<1>8. <<0, 0>> \in UInt32 \X UInt32
  BY <1>1
<1>9. sum <= HalfWord - 1
  BY <1>1, <1>2, <1>5, <1>7, <1>8, RectEnds
<1>10. SizeT(sum) = sum /\ Int32(sum) = sum
  <2>1. sum < HalfWord
    BY <1>1, <1>9
  <2>2. PICK w \in Nat : w = 4 * HalfWord * HalfWord /\ HalfWord <= w
    BY SizeTHolds
  <2>3. sum < 4 * HalfWord * HalfWord
    BY <1>1, <2>1, <2>2
  <2>. QED BY <2>1, <2>3, SizeTIsRest, Int32OfSize
<1>11. sum <= len
  BY <1>2, <1>6, <1>10
<1>. QED BY <1>2, <1>5, <1>7, <1>8, <1>11, RectEnds

LEMMA LongerFits ==
  ASSUME NEW S, NEW m \in Int, NEW n \in Int, m <= n, Within(S, m)
  PROVE  Within(S, n)
BY DEF Within, Bytes

LEMMA WriteBufferStep ==
  ASSUME NEW offset \in Nat, NEW size \in Nat, NEW array \in HostArrays, WriteBuffer(offset, size, array)
  PROVE  TransfersFitArray'
<1>1. /\ call'.op = "writeBuffer" /\ call'.args = [offset |-> offset, size |-> size, array |-> array]
      /\ call'.passed => HostLength(array) >= Int32(offset + size)
  BY DEF WriteBuffer, Call
<1>2. ASSUME HostLength(array) >= Int32(offset + size), offset + size < HalfWord
      PROVE  Within(Bytes(0, size), ByteLength(array))
  <2>1. PICK n \in Nat : n = offset + size
    OBVIOUS
  <2>2. Int32(n) = n
    BY <1>2, <2>1, Int32OfSize
  <2>3. size <= HostLength(array) /\ HostLength(array) \in Int
    BY <1>2, <2>1, <2>2, HostLengths, ChecksAssumption DEF Int32s
  <2>4. size <= ByteLength(array) /\ ByteLength(array) \in Nat
    BY <2>3, HostLengths
  <2>. QED BY <2>4 DEF Within, Bytes
<1>. QED BY <1>1, <1>2 DEF TransfersFitArray

LEMMA TransferRectStep ==
  ASSUME NEW op \in {"writeBufferRect", "readBufferRect"},
         NEW bcorner, NEW bpitch, NEW hcorner \in Triples, NEW hpitch, NEW region \in Triples,
         NEW array \in HostArrays, TransferRect(op, bcorner, bpitch, hcorner, hpitch, region, array)
  PROVE  TransfersFitArray'
<1>1. /\ call'.op = op
      /\ call'.args = [bcorner |-> bcorner, bpitch |-> bpitch, hcorner |-> hcorner,
                       hpitch |-> hpitch, region |-> region, array |-> array]
      /\ call'.passed => RectFits(hcorner, region, hpitch, HostLength(array))
  BY DEF TransferRect, Call
<1>2. HostLength(array) \in Int /\ HostLength(array) <= ByteLength(array) /\ ByteLength(array) \in Int
  BY HostLengths, ChecksAssumption DEF Int32s
<1>3. ASSUME call'.passed, hpitch = <<0, 0>>, Within(RectBytes(hcorner, region, hpitch), HalfWord - 1)
      PROVE  Within(RectBytes(hcorner, region, hpitch), ByteLength(array))
  BY <1>1, <1>2, <1>3, RectPassed, LongerFits
<1>. QED BY <1>1, <1>3 DEF TransfersFitArray

LEMMA TransferImageStep ==
  ASSUME NEW op \in {"writeImage", "readImage"}, NEW corner \in Triples, NEW region \in Triples,
         NEW row \in Nat, NEW image \in Images, NEW array \in HostArrays,
         TransferImage(op, corner, region, row, image, array)
  PROVE  TransfersFitArray'
<1>1. /\ call'.op = op
      /\ call'.args = [corner |-> corner, region |-> region, row |-> row, image |-> image, array |-> array]
      /\ call'.passed => ImageRectSize(corner, region, row, image, HostLength(array)) >= 0
  BY DEF TransferImage, Call
<1>2. PICK size \in Nat : size = Volume(region) * image.bpp
  <2>1. PICK x \in Nat, y \in Nat, z \in Nat, k \in Nat :
          x = region[1] /\ y = region[2] /\ z = region[3] /\ k = image.bpp
    BY TripleParts, ImageParts
  <2>2. x * y \in Nat
    BY MulMono
  <2>3. x * y * z \in Nat
    BY <2>2, MulMono
  <2>4. x * y * z * k \in Nat
    BY <2>3, MulMono
  <2>. QED BY <2>1, <2>4 DEF Volume
<1>3. ASSUME ImageRectSize(corner, region, row, image, HostLength(array)) >= 0, size < HalfWord
      PROVE  Within(Bytes(0, size), ByteLength(array))
  <2>1. SizeT(size) = size /\ Int32(size) = size
    BY <1>3, SizeTHolds, SizeTIsRest, Int32OfSize, ChecksAssumption
  <2>2. ~(HostLength(array) >= 0 /\ HostLength(array) < size)
    BY <1>2, <1>3, <2>1 DEF ImageRectSize
  <2>3. /\ HostLength(array) \in Int /\ ByteLength(array) \in Nat /\ HostLength(array) <= ByteLength(array)
        /\ HostLength(array) < 0 => ByteLength(array) >= HalfWord
    BY HostLengths, ChecksAssumption DEF Int32s
  <2>4. size <= ByteLength(array)
    BY <1>3, <2>2, <2>3, ChecksAssumption
  <2>. QED BY <2>3, <2>4 DEF Within, Bytes
<1>. QED BY <1>1, <1>2, <1>3 DEF TransfersFitArray

LEMMA TransferStep ==
  ASSUME Next
  PROVE  TransfersFitArray'
<1>1. CASE \E offset, size \in Numbers, array \in HostArrays : WriteBuffer(offset, size, array)
  BY <1>1, ArgumentTypes, WriteBufferStep
<1>2. CASE \E c1, c2 \in Corners, region \in Regions, p1, p2 \in Pitches, array \in HostArrays :
             \E op \in {"writeBufferRect", "readBufferRect"} :
               TransferRect(op, c1, p1, c2, p2, region, array)
  BY <1>2, ArgumentTypes, TransferRectStep
<1>3. CASE \E corner \in Corners, region \in Regions, image \in Images, p \in Pitches, array \in HostArrays :
             \E op \in {"writeImage", "readImage"} : TransferImage(op, corner, region, p[1], image, array)
  <2>1. \A p \in Pitches : p[1] \in Nat
    BY ChecksAssumption DEF UInt32
  <2>. QED BY <1>3, <2>1, ArgumentTypes, TransferImageStep
<1>4. ASSUME call'.op \notin {"writeBuffer", "writeBufferRect", "readBufferRect", "writeImage", "readImage"}
      PROVE  TransfersFitArray'
  BY <1>4 DEF TransfersFitArray
<1>5. CASE \/ call'.op \in {"none", "readBuffer", "copyBuffer", "setArg"}
           \/ \E c1, c2 \in Corners, region \in Regions, p1, p2 \in Pitches, lenS, lenD \in Sizes :
                CopyBufferRect(c1, p1, c2, p2, region, lenS, lenD)
           \/ \E sc, dc \in Corners, region \in Regions, source, dest \in Images :
                CopyImage(sc, dc, region, source, dest)
           \/ \E corner \in Corners, region \in Regions, image \in Images, offset \in Numbers, len \in Sizes :
                \/ CopyImageToBuffer(corner, region, image, offset, len)
                \/ CopyBufferToImage(corner, region, image, offset, len)
  BY <1>4, <1>5 DEF CopyBufferRect, CopyImage, CopyImageToBuffer, CopyBufferToImage, Call
<1>. QED BY <1>1, <1>2, <1>3, <1>5, CallOrOther

\* What passes the checks stays within the script's array, up to 2^31 bytes, for
\* arrays of any length: one whose length wraps around is never taken for longer
\* than it is, and when it is taken for negative it has room.
THEOREM TransfersFit == Spec => []TransfersFitArray
<1>1. Init => TransfersFitArray
  BY DEF Init, NoCall, TransfersFitArray
<1>2. TransfersFitArray /\ [Next]_call => TransfersFitArray'
  <2>. SUFFICES ASSUME TransfersFitArray, UNCHANGED call PROVE TransfersFitArray'
    BY TransferStep
  <2>. QED BY DEF TransfersFitArray, Within, Bytes, RectBytes, Volume, ByteLength, ElementBytes
<1>. QED BY <1>1, <1>2, PTL DEF Spec

-----------------------------------------------------------------------------
(* What is in order passes *)

\* A rectangle with regular pitches below the length, whose bytes are within it,
\* fits: nothing of bufferRectSize's sum wraps around.
LEMMA RectInOrderFits ==
  ASSUME NEW corner \in Triples, NEW region \in Triples, NEW pitch \in UInt32 \X UInt32, NEW len \in Int32s,
         region[1] > 0, region[2] > 0, region[3] > 0,
         RowPitch(pitch[1], region) >= region[1],
         pitch[2] # 0 => /\ pitch[2] >= RowPitch(pitch[1], region) * region[2]
                         /\ pitch[2] % RowPitch(pitch[1], region) = 0,
         pitch[1] < len, pitch[2] < len,
         Within(RectBytes(corner, region, pitch), len)
  PROVE  RectFits(corner, region, pitch, len)
<1>1. /\ pitch[1] \in UInt32 /\ pitch[2] \in UInt32 /\ pitch[1] \in Nat /\ pitch[2] \in Nat
      /\ region[1] \in UInt32 /\ region[2] \in UInt32 /\ region[1] \in Nat /\ region[2] \in Nat
      /\ HalfWord \in Nat \ {0} /\ len \in Int /\ len <= HalfWord - 1
  BY TripleParts, ChecksAssumption DEF UInt32, Int32s
<1>2. PICK r \in Nat \ {0} : r = RowPitch(pitch[1], region) /\ r \in UInt32 /\ r >= region[1]
  BY <1>1 DEF RowPitch
<1>3. PICK area \in Nat : /\ area = r * region[2] /\ SizeT(area) = area /\ area % r = 0
  <2>1. r * region[2] \in Nat /\ r * region[2] < 4 * HalfWord * HalfWord
    BY <1>1, <1>2, SizeTHolds
  <2>2. (r * region[2]) % r = 0
    BY <1>1, <1>2
  <2>. QED BY <2>1, <2>2, SizeTIsRest
<1>4. PICK s \in Nat : s = IF pitch[2] = 0 THEN area ELSE pitch[2]
  BY <1>1
<1>5. /\ SlicePitch(r, pitch[2], region) = s /\ s >= area /\ s % r = 0
  BY <1>1, <1>2, <1>3, <1>4 DEF SlicePitch
<1>6. RectRow(region, pitch) = r /\ RectSlice(region, pitch) = s
  BY <1>1, <1>2, <1>3, <1>4 DEF RectRow, RectSlice, RowPitch
<1>7. PICK end \in Nat \ {0} : end = EndOfRect(corner, region, r, s) /\ end <= len
  BY <1>1, <1>6, RectEnds
<1>8. PICK sum \in Nat : /\ sum = corner[3] * s + corner[2] * r + corner[1] + Volume(region)
                         /\ sum <= end
  <2>1. r >= region[1] /\ s >= r * region[2]
    BY <1>2, <1>3, <1>5
  <2>2. /\ corner[3] * s + corner[2] * r + corner[1] + Volume(region) \in Nat
        /\ corner[3] * s + corner[2] * r + corner[1] + Volume(region) <= EndOfRect(corner, region, r, s)
    BY <2>1, VolumeIsBounded
  <2>. QED BY <1>7, <2>2
<1>9. PICK w \in Nat : w = 4 * HalfWord * HalfWord /\ HalfWord <= w
  BY SizeTHolds
<1>10. SizeT(sum) = sum /\ Int32(sum) = sum
  <2>1. sum < HalfWord /\ sum < 4 * HalfWord * HalfWord
    BY <1>1, <1>7, <1>8, <1>9
  <2>. QED BY <2>1, SizeTIsRest, Int32OfSize
<1>11. SizeT(len) = len
  <2>1. len \in Nat /\ len < 4 * HalfWord * HalfWord
    BY <1>1, <1>7, <1>9
  <2>. QED BY <2>1, SizeTIsRest
<1>12. /\ ~(pitch[1] # 0 /\ (pitch[1] < region[1] \/ pitch[1] >= SizeT(len)))
       /\ ~(pitch[2] # 0 /\ (pitch[2] < SizeT(r * region[2]) \/ pitch[2] >= SizeT(len)))
  <2>1. pitch[1] # 0 => pitch[1] = r
    BY <1>2 DEF RowPitch
  <2>2. pitch[2] # 0 => pitch[2] = s
    BY <1>4
  <2>3. SizeT(r * region[2]) = area
    BY <1>3
  <2>. QED BY <1>1, <1>2, <1>3, <1>5, <1>11, <2>1, <2>2, <2>3
<1>13. BufferRectSize(corner, region, pitch[1], pitch[2], SizeT(len)) = Int32(SizeT(sum))
  BY <1>2, <1>5, <1>8, <1>12 DEF BufferRectSize
<1>. QED BY <1>1, <1>7, <1>8, <1>10, <1>13 DEF RectFits

\* enqueueCopyBufferRect's comparison of the first coordinates is a weak one.
LEMMA RectInOrderStarts ==
  ASSUME NEW corner \in Triples, NEW region \in Triples, NEW pitch \in UInt32 \X UInt32, NEW len \in Nat,
         region[1] > 0, region[2] > 0, region[3] > 0,
         Within(RectBytes(corner, region, pitch), len)
  PROVE  corner[1] + region[1] <= len
<1>1. PICK row \in Nat, slice \in Nat : row = RectRow(region, pitch) /\ slice = RectSlice(region, pitch)
  BY RectEnds
<1>2. EndOfRect(corner, region, row, slice) <= len
  BY <1>1, RectEnds
<1>3. PICK p \in Nat, q \in Nat :
        p = (corner[3] + region[3] - 1) * slice /\ q = (corner[2] + region[2] - 1) * row
  <2>1. corner[3] + region[3] - 1 \in Nat /\ corner[2] + region[2] - 1 \in Nat
    BY TripleParts
  <2>2. (corner[3] + region[3] - 1) * slice \in Nat /\ (corner[2] + region[2] - 1) * row \in Nat
    BY <2>1, MulMono
  <2>. QED BY <2>2
<1>4. p + q + (corner[1] + region[1]) <= len
  BY <1>2, <1>3 DEF EndOfRect
<1>. QED BY <1>4, TripleParts

LEMMA CopyRectInOrder ==
  ASSUME NEW sc \in Triples, NEW sp \in UInt32 \X UInt32, NEW dc \in Triples, NEW dp \in UInt32 \X UInt32,
         NEW region \in Triples, NEW lenS \in Nat, NEW lenD \in Nat,
         CopyBufferRect(sc, sp, dc, dp, region, lenS, lenD)
  PROVE  LegalCallsPass'
<1>1. /\ call'.op = "copyBufferRect"
      /\ call'.args = [sc |-> sc, sp |-> sp, dc |-> dc, dp |-> dp, region |-> region, lenS |-> lenS, lenD |-> lenD]
      /\ call'.passed = (/\ region[1] # 0 /\ region[2] # 0 /\ region[3] # 0
                         /\ sc[1] + region[1] <= lenS /\ dc[1] + region[1] <= lenD)
  BY DEF CopyBufferRect, Call
<1>2. ASSUME \A i \in 1..3 : region[i] > 0,
             Within(RectBytes(sc, region, sp), lenS), Within(RectBytes(dc, region, dp), lenD)
      PROVE  call'.passed
  <2>1. region[1] > 0 /\ region[2] > 0 /\ region[3] > 0
    BY <1>2
  <2>2. sc[1] + region[1] <= lenS /\ dc[1] + region[1] <= lenD
    BY <1>2, <2>1, RectInOrderStarts
  <2>. QED BY <1>1, <2>1, <2>2
<1>. QED BY <1>1, <1>2 DEF LegalCallsPass

LEMMA TransferRectInOrder ==
  ASSUME NEW op \in {"writeBufferRect", "readBufferRect"},
         NEW bcorner \in Triples, NEW bpitch \in UInt32 \X UInt32,
         NEW hcorner \in Triples, NEW hpitch \in UInt32 \X UInt32, NEW region \in Triples,
         NEW array \in HostArrays, TransferRect(op, bcorner, bpitch, hcorner, hpitch, region, array)
  PROVE  LegalCallsPass'
<1>1. /\ call'.op = op
      /\ call'.args = [bcorner |-> bcorner, bpitch |-> bpitch, hcorner |-> hcorner,
                       hpitch |-> hpitch, region |-> region, array |-> array]
      /\ call'.passed = (/\ RectFits(bcorner, region, bpitch, HostLength(array))
                         /\ RectFits(hcorner, region, hpitch, HostLength(array)))
  BY DEF TransferRect, Call
<1>. DEFINE len == HostLength(array)
            Regular(p) == /\ RowPitch(p[1], region) >= region[1]
                          /\ p[2] # 0 => /\ p[2] >= RowPitch(p[1], region) * region[2]
                                         /\ p[2] % RowPitch(p[1], region) = 0
<1>2. ASSUME \A i \in 1..3 : region[i] > 0, Regular(bpitch), Regular(hpitch),
             \A i \in {1, 2} : bpitch[i] < len, \A i \in {1, 2} : hpitch[i] < len,
             Within(RectBytes(bcorner, region, bpitch), len), Within(RectBytes(hcorner, region, hpitch), len)
      PROVE  call'.passed
  <2>1. region[1] > 0 /\ region[2] > 0 /\ region[3] > 0 /\ len \in Int32s
    BY <1>2, HostLengths
  <2>2. bpitch[1] < len /\ bpitch[2] < len /\ hpitch[1] < len /\ hpitch[2] < len
    BY <1>2
  <2>3. RectFits(bcorner, region, bpitch, len)
    BY <1>2, <2>1, <2>2, RectInOrderFits
  <2>4. RectFits(hcorner, region, hpitch, len)
    BY <1>2, <2>1, <2>2, RectInOrderFits
  <2>. QED BY <1>1, <2>3, <2>4
<1>. QED BY <1>1, <1>2 DEF LegalCallsPass

LEMMA TransferImageInOrder ==
  ASSUME NEW op \in {"writeImage", "readImage"}, NEW corner \in Triples, NEW region \in Triples,
         NEW row \in Nat, NEW image \in Images, NEW array \in HostArrays,
         TransferImage(op, corner, region, row, image, array)
  PROVE  LegalCallsPass'
<1>1. /\ call'.op = op
      /\ call'.args = [corner |-> corner, region |-> region, row |-> row, image |-> image, array |-> array]
      /\ ImageRectSize(corner, region, row, image, HostLength(array)) >= 0 => call'.passed
  BY DEF TransferImage, Call
<1>2. ASSUME row = 0, Placed(corner, region, image), region[1] * region[2] * image.bpp < HalfWord,
             Within(Bytes(0, region[1] * region[2] * image.bpp), HostLength(array))
      PROVE  call'.passed
  <2>1. region[1] > 0 /\ region[2] > 0 /\ region[3] = 1
    BY <1>2 DEF Placed
  <2>2. /\ corner[1] \in Nat /\ corner[2] \in Nat /\ region[1] \in Nat \ {0} /\ region[2] \in Nat \ {0}
        /\ image.width \in Nat /\ image.height \in Nat /\ image.bpp \in Nat \ {0} /\ HalfWord \in Nat
        /\ HostLength(array) \in Int
    BY <2>1, TripleParts, ImageParts, HostLengths, ChecksAssumption DEF Int32s
  <2>3. corner[1] + region[1] <= image.width /\ corner[2] + region[2] <= image.height
    BY <1>2, <2>1, PlacedIsBounded
  <2>4. PICK area \in Nat \ {0}, size \in Nat \ {0} :
          area = region[1] * region[2] /\ size = area * image.bpp /\ area <= size
    <3>1. PICK x \in Nat \ {0}, y \in Nat \ {0}, k \in Nat \ {0} :
            x = region[1] /\ y = region[2] /\ k = image.bpp
      BY <2>2
    <3>2. PICK area \in Nat \ {0} : area = x * y
      <4>1. x * y \in Nat \ {0}
        OBVIOUS
      <4>. QED BY <4>1
    <3>3. area * k \in Nat \ {0} /\ area * 1 <= area * k
      OBVIOUS
    <3>. QED BY <3>1, <3>2, <3>3
  <2>5. PICK w \in Nat : w = 4 * HalfWord * HalfWord /\ HalfWord <= w
    BY SizeTHolds
  <2>6. SizeT(size) = size /\ Int32(size) = size /\ SizeT(area) = area /\ Int32(area) = area
    <3>1. size < HalfWord /\ area < HalfWord /\ size < 4 * HalfWord * HalfWord /\ area < 4 * HalfWord * HalfWord
      BY <1>2, <2>2, <2>4, <2>5
    <3>. QED BY <3>1, SizeTIsRest, Int32OfSize
  <2>7. size <= HostLength(array)
    <3>1. size - 1 \in Bytes(0, size)
      BY DEF Bytes
    <3>2. size - 1 \in 0..(0 + HostLength(array) - 1)
      BY <1>2, <2>4, <3>1 DEF Within, Bytes
    <3>. QED BY <2>2, <3>2
  <2>8. Volume(region) * image.bpp = size /\ RowPitch(0, region) * region[2] = area /\ area * region[3] = area
    <3>1. area * 1 = area
      OBVIOUS
    <3>. QED BY <2>1, <2>4, <3>1 DEF Volume, RowPitch
  <2>9. ImageRectSize(corner, region, 0, image, HostLength(array)) = area
    BY <2>1, <2>2, <2>3, <2>6, <2>7, <2>8 DEF ImageRectSize
  <2>. QED BY <1>1, <1>2, <2>4, <2>9
<1>. QED BY <1>1, <1>2 DEF LegalCallsPass

LEMMA ImageBufferInOrder ==
  ASSUME NEW corner \in Triples, NEW region \in Triples, NEW image \in Images,
         NEW offset \in Nat, NEW len \in Nat,
         \/ CopyImageToBuffer(corner, region, image, offset, len)
         \/ CopyBufferToImage(corner, region, image, offset, len)
  PROVE  LegalCallsPass'
<1>1. /\ call'.op \in {"copyImageToBuffer", "copyBufferToImage"}
      /\ call'.args = [corner |-> corner, region |-> region, image |-> image, offset |-> offset, len |-> len]
  BY DEF CopyImageToBuffer, CopyBufferToImage, Call
<1>2. ASSUME Placed(corner, region, image), Within(Bytes(offset, region[1] * region[2] * image.bpp), len)
      PROVE  call'.passed
  <2>1. region[1] > 0 /\ region[2] > 0 /\ region[3] = 1
    BY <1>2 DEF Placed
  <2>2. /\ corner[1] \in Nat /\ corner[2] \in Nat /\ region[1] \in Nat \ {0} /\ region[2] \in Nat \ {0}
        /\ image.width \in Nat /\ image.height \in Nat /\ image.bpp \in Nat \ {0}
    BY <2>1, TripleParts, ImageParts
  <2>3. corner[1] + region[1] <= image.width /\ corner[2] + region[2] <= image.height
    BY <1>2, <2>1, PlacedIsBounded
  <2>4. PICK size \in Nat \ {0} : size = region[1] * region[2] * image.bpp
    <3>1. PICK x \in Nat \ {0}, y \in Nat \ {0}, k \in Nat \ {0} :
            x = region[1] /\ y = region[2] /\ k = image.bpp
      BY <2>2
    <3>2. x * y \in Nat \ {0}
      OBVIOUS
    <3>3. x * y * k \in Nat \ {0}
      BY <3>2
    <3>. QED BY <3>1, <3>3
  <2>5. offset + size <= len
    BY <1>2, <2>4, WithinIsBounded
  <2>6. SizeT(size) <= len /\ SizeT(offset + size) <= len
    <3>1. PICK sum \in Nat : sum = offset + size
      OBVIOUS
    <3>2. SizeT(size) \in Nat /\ SizeT(size) <= size /\ SizeT(sum) \in Nat /\ SizeT(sum) <= sum
      BY SizeTIsRest
    <3>. QED BY <2>5, <3>1, <3>2
  <2>7. CASE CopyImageToBuffer(corner, region, image, offset, len)
    BY <2>3, <2>4, <2>6, <2>7 DEF CopyImageToBuffer, Call
  <2>8. CASE CopyBufferToImage(corner, region, image, offset, len)
    <3>1. /\ region[1] <= image.width /\ region[2] <= image.height
          /\ corner[1] <= image.width /\ corner[2] <= image.height
      BY <2>2, <2>3
    <3>. QED BY <2>4, <2>6, <2>8, <3>1 DEF CopyBufferToImage, Call
  <2>. QED BY <2>7, <2>8
<1>. QED BY <1>1, <1>2 DEF LegalCallsPass

LEMMA LegalStep ==
  ASSUME Next
  PROVE  LegalCallsPass'
<1>1. Pitches \subseteq UInt32 \X UInt32 /\ \A p \in Pitches : p[1] \in Nat
  BY ChecksAssumption DEF UInt32
<1>2. CASE \E c1, c2 \in Corners, region \in Regions, p1, p2 \in Pitches, array \in HostArrays :
             \E op \in {"writeBufferRect", "readBufferRect"} :
               TransferRect(op, c1, p1, c2, p2, region, array)
  BY <1>1, <1>2, ArgumentTypes, TransferRectInOrder
<1>3. CASE \E c1, c2 \in Corners, region \in Regions, p1, p2 \in Pitches, lenS, lenD \in Sizes :
             CopyBufferRect(c1, p1, c2, p2, region, lenS, lenD)
  BY <1>1, <1>3, ArgumentTypes, CopyRectInOrder
<1>4. CASE \E corner \in Corners, region \in Regions, image \in Images, p \in Pitches, array \in HostArrays :
             \E op \in {"writeImage", "readImage"} : TransferImage(op, corner, region, p[1], image, array)
  BY <1>1, <1>4, ArgumentTypes, TransferImageInOrder
<1>5. CASE \E corner \in Corners, region \in Regions, image \in Images, offset \in Numbers, len \in Sizes :
             \/ CopyImageToBuffer(corner, region, image, offset, len)
             \/ CopyBufferToImage(corner, region, image, offset, len)
  BY <1>5, ArgumentTypes, ImageBufferInOrder
<1>6. ASSUME call'.op \in {"none", "readBuffer", "copyBuffer", "setArg", "writeBuffer", "copyImage"}
      PROVE  LegalCallsPass'
  BY <1>6 DEF LegalCallsPass
<1>7. CASE \/ call'.op \in {"none", "readBuffer", "copyBuffer", "setArg"}
           \/ \E offset, size \in Numbers, array \in HostArrays : WriteBuffer(offset, size, array)
           \/ \E sc, dc \in Corners, region \in Regions, source, dest \in Images :
                CopyImage(sc, dc, region, source, dest)
  BY <1>6, <1>7 DEF WriteBuffer, CopyImage, Call
<1>. QED BY <1>2, <1>3, <1>4, <1>5, <1>7, CallOrOther

\* No rectangle, region or transfer that is in order is refused, whatever its
\* size: where the checks' sums are those of legal arguments, none wraps around.
THEOREM LegalCallsPassChecks == Spec => []LegalCallsPass
<1>1. Init => LegalCallsPass
  BY DEF Init, NoCall, LegalCallsPass
<1>2. LegalCallsPass /\ [Next]_call => LegalCallsPass'
  <2>. SUFFICES ASSUME LegalCallsPass, UNCHANGED call PROVE LegalCallsPass'
    BY LegalStep
  <2>. QED BY DEF LegalCallsPass
<1>. QED BY <1>1, <1>2, PTL DEF Spec

=============================================================================
