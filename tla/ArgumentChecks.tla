----------------------------- MODULE ArgumentChecks -----------------------------
(***************************************************************************)
(* The checks node-webcl makes on lengths, offsets, rectangles and kernel  *)
(* arguments before it calls the OpenCL runtime (cl_checks.cc, the enqueue *)
(* operations of commandqueue.cc, Kernel::setArg), in the widths of the    *)
(* code: Uint32Value() gives the script's numbers 32 bits, size_t has 64,  *)
(* and sizes are compared as int.                                          *)
(*                                                                         *)
(* A state is the call the script is making: its operation, its arguments  *)
(* and whether it passed the checks or was refused.                        *)
(***************************************************************************)
EXTENDS Integers, Sequences

CONSTANTS
  HalfWord,    \* 2^31 in the code, less in a small instance
  Numbers,     \* offsets and sizes the script passes
  Corners,     \* corners of rectangles, triples
  Regions,     \* extents of rectangles, triples
  Pitches,     \* row and slice pitches, pairs
  Sizes,       \* sizes of buffers
  Images,      \* images: width, height and bytes of an element
  HostArrays,  \* arrays: type of the elements and length
  Parameters   \* kernel parameters: type, vector width, address space

UInt32 == 0..(2 * HalfWord - 1)
Int32s == -HalfWord..(HalfWord - 1)

ElementTypes == {"Buffer", "Uint8Array", "Int16Array", "Int32Array", "Float64Array"}
BaseTypes    == {"char", "short", "int", "double", "struct"}

ImageRecord == [width : UInt32 \ {0}, height : UInt32 \ {0}, bpp : UInt32 \ {0}]
ArrayRecord == [type : ElementTypes, length : UInt32]
ParamRecord == [type : BaseTypes, width : 1..16, local : BOOLEAN, known : BOOLEAN]

\* An image that is there has no more bytes than a size_t can count.
ASSUME ChecksAssumption ==
  /\ HalfWord \in Nat \ {0}
  /\ Numbers \subseteq UInt32 /\ Sizes \subseteq UInt32 \ {0}
  /\ Corners \subseteq UInt32 \X UInt32 \X UInt32
  /\ Regions \subseteq UInt32 \X UInt32 \X UInt32
  /\ Pitches \subseteq UInt32 \X UInt32
  /\ Images \subseteq ImageRecord
  /\ \A image \in Images : image.width * image.height * image.bpp < 4 * HalfWord * HalfWord
  /\ HostArrays \subseteq ArrayRecord
  /\ Parameters \subseteq ParamRecord

VARIABLE call

NoCall == [op |-> "none", args |-> <<>>, passed |-> FALSE]

-----------------------------------------------------------------------------
(* Integers of the code *)

SizeT(x) == x % (4 * HalfWord * HalfWord)

\* Mutation: lengths are kept in a wider type.
Unbounded(x) == x

\* (int) of a size_t or an unsigned
Int32(x) == ((x + HalfWord) % (2 * HalfWord)) - HalfWord

-----------------------------------------------------------------------------
(* cl_checks.cc *)

\* getTypedArrayBytes; a Buffer is counted in bytes.
ElementBytes == [Buffer |-> 1, Uint8Array |-> 1, Int16Array |-> 2, Int32Array |-> 4,
                 Float64Array |-> 8]

\* getPtrAndLen
HostLength(array) == Int32(array.length * ElementBytes[array.type])

RowPitch(row, region)          == IF row = 0 THEN region[1] ELSE row
SlicePitch(row, slice, region) == IF slice = 0 THEN SizeT(row * region[2]) ELSE slice

Volume(region) == region[1] * region[2] * region[3]

\* Mutation: the sum starts at the row of the corner.
RowRectSize(corner, region, row, slice, len) ==
  LET r == RowPitch(row, region)
      s == SlicePitch(r, slice, region)
  IN  IF Volume(region) = 0 THEN -1
      ELSE Int32(SizeT(corner[3] * s + corner[2] * r + Volume(region)))

\* bufferRectSize, for a buffer or array of len bytes
BufferRectSize(corner, region, row, slice, len) ==
  LET r == RowPitch(row, region)
      s == SlicePitch(r, slice, region)
  IN  IF \/ region[1] = 0 \/ region[2] = 0 \/ region[3] = 0
         \/ row # 0 /\ (row < region[1] \/ row >= len)
         \/ slice # 0 /\ (slice < SizeT(r * region[2]) \/ slice >= len)
         \/ s % r # 0
      THEN -1
      ELSE Int32(SizeT(corner[3] * s + corner[2] * r + corner[1] + Volume(region)))

\* Mutation: the region is compared with the image, the corner is not.
ImageRectUnplaced(corner, region, row, image, len) ==
  IF \/ Volume(region) = 0
     \/ len >= 0 /\ len < Int32(SizeT(Volume(region) * image.bpp))
     \/ region[1] > image.width \/ region[2] > image.height
     \/ row # 0 /\ (row < image.width * image.bpp \/ row % (image.width * image.bpp) # 0)
  THEN -1
  ELSE Int32(SizeT((IF row = 0 THEN region[1] ELSE row) * region[2] * region[3]))

\* imageRectSize, with the slice pitch 0 all callers pass; len is -1 when no
\* host array takes part.
ImageRectSize(corner, region, row, image, len) ==
  IF \/ region[1] = 0 \/ region[2] = 0 \/ region[3] = 0
     \/ len >= 0 /\ len < Int32(SizeT(Volume(region) * image.bpp))
     \/ corner[1] + region[1] > image.width \/ corner[2] + region[2] > image.height
     \/ row # 0 /\ (\/ row < region[1] \/ row < image.width * image.bpp
                    \/ row % (image.width * image.bpp) # 0)
  THEN -1
  ELSE Int32(SizeT(SizeT(RowPitch(row, region) * region[2]) * region[3]))

-----------------------------------------------------------------------------
(* The script's calls.  The wait list, the event and the context are in      *)
(* CommandQueue.                                                             *)

Call(op, args, passed) == call' = [op |-> op, args |-> args, passed |-> passed]

\* enqueueWriteBuffer: offset + size is an unsigned.
WriteBuffer(offset, size, array) ==
  Call("writeBuffer", [offset |-> offset, size |-> size, array |-> array],
       HostLength(array) >= Int32(offset + size))

\* enqueueReadBuffer compares the offset alone.
ReadBuffer(offset, size, array) ==
  Call("readBuffer", [offset |-> offset, size |-> size, array |-> array],
       HostLength(array) >= Int32(offset))

\* Mutation: an array that is just long enough is too short.
RectFitsWithSlack(corner, region, pitch, len) ==
  BufferRectSize(corner, region, pitch[1], pitch[2], SizeT(len)) \in 0..(len - 1)

\* enqueueWriteBufferRect and enqueueReadBufferRect: both rectangles are
\* compared with the length of the array.
RectFits(corner, region, pitch, len) ==
  BufferRectSize(corner, region, pitch[1], pitch[2], SizeT(len)) \in 0..len

TransferRect(op, bcorner, bpitch, hcorner, hpitch, region, array) ==
  LET len == HostLength(array)
  IN  Call(op, [bcorner |-> bcorner, bpitch |-> bpitch, hcorner |-> hcorner,
                hpitch |-> hpitch, region |-> region, array |-> array],
           RectFits(bcorner, region, bpitch, len) /\ RectFits(hcorner, region, hpitch, len))

WriteBufferRect(bc, bp, hc, hp, region, array) ==
  TransferRect("writeBufferRect", bc, bp, hc, hp, region, array)

ReadBufferRect(bc, bp, hc, hp, region, array) ==
  TransferRect("readBufferRect", bc, bp, hc, hp, region, array)

\* Mutation: the overlap test at the boundary.
OverlapOrTouch(from, to, size) == from + size >= to /\ to + size >= from

Overlap(from, to, size) == from + size > to /\ to + size > from

\* enqueueCopyBuffer; same: source and destination are one buffer.
CopyBufferPasses(from, to, size, lenS, lenD, same) ==
  /\ from + size <= lenS /\ to + size <= lenD
  /\ ~(same /\ Overlap(from, to, size))

CopyBuffer(from, to, size, lenS, lenD, same) ==
  /\ same => lenS = lenD
  /\ Call("copyBuffer", [from |-> from, to |-> to, size |-> size,
                         lenS |-> lenS, lenD |-> lenD, same |-> same],
          CopyBufferPasses(from, to, size, lenS, lenD, same))

\* enqueueCopyBufferRect compares the first coordinates with the lengths.
CopyBufferRect(sc, sp, dc, dp, region, lenS, lenD) ==
  Call("copyBufferRect", [sc |-> sc, sp |-> sp, dc |-> dc, dp |-> dp, region |-> region,
                          lenS |-> lenS, lenD |-> lenD],
       /\ region[1] # 0 /\ region[2] # 0 /\ region[3] # 0
       /\ sc[1] + region[1] <= lenS /\ dc[1] + region[1] <= lenD)

\* enqueueWriteImage and enqueueReadImage
TransferImage(op, corner, region, row, image, array) ==
  Call(op, [corner |-> corner, region |-> region, row |-> row, image |-> image,
            array |-> array],
       ImageRectSize(corner, region, row, image, HostLength(array)) >= 0)

WriteImage(corner, region, row, image, array) ==
  TransferImage("writeImage", corner, region, row, image, array)

ReadImage(corner, region, row, image, array) ==
  TransferImage("readImage", corner, region, row, image, array)

CopyImage(sc, dc, region, source, dest) ==
  Call("copyImage", [sc |-> sc, dc |-> dc, region |-> region, source |-> source, dest |-> dest],
       /\ ImageRectSize(sc, region, 0, source, -1) >= 0
       /\ ImageRectSize(dc, region, 0, dest, -1) >= 0)

\* enqueueCopyImageToBuffer does not look at the offset in the buffer,
CopyImageToBuffer(corner, region, image, offset, len) ==
  Call("copyImageToBuffer", [corner |-> corner, region |-> region, image |-> image,
                             offset |-> offset, len |-> len],
       /\ corner[1] + region[1] <= image.width /\ corner[2] + region[2] <= image.height
       /\ SizeT(region[1] * region[2] * image.bpp) <= len)

\* and enqueueCopyBufferToImage at region and corner one by one.
CopyBufferToImage(corner, region, image, offset, len) ==
  Call("copyBufferToImage", [corner |-> corner, region |-> region, image |-> image,
                             offset |-> offset, len |-> len],
       /\ region[1] <= image.width /\ region[2] <= image.height
       /\ SizeT(offset + region[1] * region[2] * image.bpp) <= len
       /\ corner[1] <= image.width /\ corner[2] <= image.height)

-----------------------------------------------------------------------------
(* Kernel::setArg with an array *)

ByteLength(array) == array.length * ElementBytes[array.type]

\* len, the number of elements, is an int, and none of a Buffer.
ArgLength(array) == IF array.type = "Buffer" THEN 0 ELSE Int32(array.length)

\* Division of ints rounds towards zero.
Quotient(x, n) == IF x < 0 THEN -((-x) \div n) ELSE x \div n

\* Mutation: the bytes are not divided by the number of elements.
WholeArgBytes(array, name) ==
  LET bytes == Int32(ByteLength(array))
  IN  SizeT(IF ArgLength(array) > 1 /\ name[1] # "struct" THEN Int32(bytes * name[2]) ELSE bytes)

\* The size passed for a parameter whose type is called name, that is a base type
\* and a width: of an array of several elements as many as the vector is wide,
\* if setArg's table has the type.  bytes is an int too; where bytes * vecSize
\* overflows it wraps, as the machine's product does.
ArgBytes(array, name) ==
  LET len   == ArgLength(array)
      bytes == Int32(ByteLength(array))
  IN  SizeT(IF len > 1 /\ name[1] # "struct"
            THEN Quotient(Int32(bytes * name[2]), len) ELSE bytes)

\* The name of a pointer to a scalar ends in "*", of which atoi makes 0.  When
\* the runtime has no names of types (~param.known), the name is left
\* uninitialized and may look like any.
TypeNames(param) ==
  IF param.known THEN {<<param.type, IF param.local /\ param.width = 1 THEN 0 ELSE param.width>>}
  ELSE BaseTypes \X {0, 1, 2, 4}

\* One element for a __local parameter is the number of bytes to reserve, read
\* as a cl_int: a narrower element brings what follows it.
ReservesLocal(array, param) ==
  ArgLength(array) = 1 /\ param.known /\ param.local

LocalSizes(array, value) ==
  {SizeT(Int32(v)) : v \in IF ElementBytes[array.type] < 4 THEN Numbers ELSE {value}}

ArgSizes(array, param, value) ==
  IF ReservesLocal(array, param) THEN LocalSizes(array, value)
  ELSE {ArgBytes(array, name) : name \in TypeNames(param)}

SetArg(array, param, value) ==
  \E size \in ArgSizes(array, param, value) :
    Call("setArg", [array |-> array, param |-> param, size |-> size], TRUE)

-----------------------------------------------------------------------------

Return == call # NoCall /\ call' = NoCall

Init == call = NoCall

Buffers ==
  \/ \E offset, size \in Numbers, array \in HostArrays :
       WriteBuffer(offset, size, array) \/ ReadBuffer(offset, size, array)
  \/ \E from, to, size \in Numbers, lenS, lenD \in Sizes, same \in BOOLEAN :
       CopyBuffer(from, to, size, lenS, lenD, same)

Rectangles ==
  \E c1, c2 \in Corners, region \in Regions, p1, p2 \in Pitches :
    \/ \E array \in HostArrays :
         \/ WriteBufferRect(c1, p1, c2, p2, region, array)
         \/ ReadBufferRect(c1, p1, c2, p2, region, array)
    \/ \E lenS, lenD \in Sizes : CopyBufferRect(c1, p1, c2, p2, region, lenS, lenD)

OfImages ==
  \E corner \in Corners, region \in Regions, image \in Images :
    \/ \E pitch \in Pitches, array \in HostArrays :
         \/ WriteImage(corner, region, pitch[1], image, array)
         \/ ReadImage(corner, region, pitch[1], image, array)
    \/ \E to \in Corners, dest \in Images : CopyImage(corner, to, region, image, dest)
    \/ \E offset \in Numbers, len \in Sizes :
         \/ CopyImageToBuffer(corner, region, image, offset, len)
         \/ CopyBufferToImage(corner, region, image, offset, len)

Arguments ==
  \E array \in HostArrays, param \in Parameters, value \in Numbers : SetArg(array, param, value)

\* The script's thread makes one call at a time.
Next ==
  \/ call = NoCall /\ (Buffers \/ Rectangles \/ OfImages \/ Arguments)
  \/ Return

Spec == Init /\ [][Next]_call

-----------------------------------------------------------------------------
(* Properties.  The right-hand sides are about sets of bytes and elements, as  *)
(* the OpenCL specification puts them, not about sums.                         *)

Operations == {"none", "writeBuffer", "readBuffer", "writeBufferRect", "readBufferRect",
               "copyBuffer", "copyBufferRect", "writeImage", "readImage", "copyImage",
               "copyImageToBuffer", "copyBufferToImage", "setArg"}

TypeOK ==
  /\ call.op \in Operations /\ call.passed \in BOOLEAN
  /\ "array" \in DOMAIN call.args => HostLength(call.args.array) \in Int32s

Bytes(first, n)   == first..(first + n - 1)
Within(set, size) == set \subseteq Bytes(0, size)

\* The bytes of a rectangle with these pitches.
RectBytes(corner, region, pitch) ==
  LET row   == IF pitch[1] = 0 THEN region[1] ELSE pitch[1]
      slice == IF pitch[2] = 0 THEN region[2] * row ELSE pitch[2]
  IN  {(corner[3] + z) * slice + (corner[2] + y) * row + corner[1] + x :
         x \in Bytes(0, region[1]), y \in Bytes(0, region[2]), z \in Bytes(0, region[3])}

\* A flat region lies within an image.
Placed(corner, region, image) ==
  /\ region[3] = 1
  /\ region[1] > 0 /\ Within(Bytes(corner[1], region[1]), image.width)
  /\ region[2] > 0 /\ Within(Bytes(corner[2], region[2]), image.height)

\* enqueueCopyBuffer passes a copy exactly when its bytes lie in both buffers
\* and, within one buffer, do not overlap.
CopyBufferExact ==
  LET a == call.args
  IN  call.op = "copyBuffer" /\ a.size > 0 =>
        (call.passed <=>
           /\ Within(Bytes(a.from, a.size), a.lenS)
           /\ Within(Bytes(a.to, a.size), a.lenD)
           /\ a.same => Bytes(a.from, a.size) \cap Bytes(a.to, a.size) = {})

\* enqueueCopyImage passes flat regions exactly when both are placed, and
\* enqueueCopyImageToBuffer, at offset 0, when the region is placed and the
\* buffer can take it.
ImageCopiesExact ==
  LET a == call.args
      flat == a.region[1] > 0 /\ a.region[2] > 0 /\ a.region[3] = 1
      area == a.region[1] * a.region[2]
  IN  /\ call.op = "copyImage" /\ flat /\ area < HalfWord =>
           (call.passed <=>
              Placed(a.sc, a.region, a.source) /\ Placed(a.dc, a.region, a.dest))
      /\ call.op = "copyImageToBuffer" /\ flat /\ a.offset = 0 =>
           (call.passed <=> /\ Placed(a.corner, a.region, a.image)
                            /\ Within(Bytes(0, area * a.image.bpp), a.len))

\* What passes stays within the script's array: writes of buffers, and, with
\* the default pitches of the array, rectangles and images, as long as the
\* sizes are less than 2^31.
TransfersFitArray ==
  LET a    == call.args
      len  == ByteLength(a.array)
  IN  /\ call.op = "writeBuffer" /\ call.passed /\ a.offset + a.size < HalfWord =>
           Within(Bytes(0, a.size), len)
      /\ call.op \in {"writeBufferRect", "readBufferRect"} /\ call.passed =>
           LET bytes == RectBytes(a.hcorner, a.region, a.hpitch)
           IN  a.hpitch = <<0, 0>> /\ Within(bytes, HalfWord - 1) => Within(bytes, len)
      /\ call.op \in {"writeImage", "readImage"} /\ call.passed /\ a.row = 0 =>
           LET size == Volume(a.region) * a.image.bpp
           IN  size < HalfWord => Within(Bytes(0, size), len)

\* No call that is in order is refused: rectangles within two buffers, or within
\* the array's length with pitches below it; flat regions of images with
\* the default pitch and room for them in the array or buffer.
LegalCallsPass ==
  LET a == call.args
      Pitched(p, len) == \A i \in {1, 2} : p[i] < len
      Regular(p) == LET row == RowPitch(p[1], a.region)
                    IN  /\ row >= a.region[1]
                        /\ p[2] # 0 => p[2] >= row * a.region[2] /\ p[2] % row = 0
      Solid == \A i \in 1..3 : a.region[i] > 0
      RectWithin(c, p, len) == Within(RectBytes(c, a.region, p), len)
      Size == a.region[1] * a.region[2] * a.image.bpp
  IN  call.passed \/
      /\ call.op = "copyBufferRect" =>
           ~(Solid /\ RectWithin(a.sc, a.sp, a.lenS) /\ RectWithin(a.dc, a.dp, a.lenD))
      /\ call.op \in {"writeBufferRect", "readBufferRect"} =>
           LET len == HostLength(a.array)
           IN  ~(/\ Solid /\ Regular(a.bpitch) /\ Regular(a.hpitch)
                 /\ Pitched(a.bpitch, len) /\ Pitched(a.hpitch, len)
                 /\ RectWithin(a.bcorner, a.bpitch, len)
                 /\ RectWithin(a.hcorner, a.hpitch, len))
      /\ call.op \in {"writeImage", "readImage"} =>
           ~(/\ a.row = 0 /\ Placed(a.corner, a.region, a.image)
             /\ Size < HalfWord /\ Within(Bytes(0, Size), HostLength(a.array)))
      /\ call.op \in {"copyImageToBuffer", "copyBufferToImage"} =>
           ~(/\ Placed(a.corner, a.region, a.image)
             /\ Within(Bytes(a.offset, Size), a.len))

\* setArg passes the size of the parameter's type, and no byte beyond the array,
\* when the elements have the size of the base type and there are as many as the
\* vector is wide, or more, as long as the array's bytes times that width are less
\* than 2^31.  (Of three components a vector has the size of four, and setArg
\* passes three.)  For a Buffer, or one element that is no __local size, it passes
\* all the bytes, whatever it has on the stack for a name.
SizeOfBase == [char |-> 1, short |-> 2, int |-> 4, double |-> 8]

ArgSizeRight ==
  LET a == call.args
      p == a.param
      bytes == ByteLength(a.array)
      OfType == /\ p.known /\ ~p.local /\ p.type # "struct" /\ p.width # 3
                /\ a.array.type # "Buffer"
                /\ ElementBytes[a.array.type] = SizeOfBase[p.type]
                /\ a.array.length >= p.width
                /\ bytes * p.width < HalfWord
      Whole  == /\ ~ReservesLocal(a.array, p)
                /\ a.array.type = "Buffer" \/ a.array.length <= 1
                /\ bytes < HalfWord
  IN  call.op = "setArg" =>
        /\ OfType => a.size = SizeOfBase[p.type] * p.width /\ a.size <= bytes
        /\ Whole => a.size = bytes

=============================================================================
