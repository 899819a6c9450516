------------------------------- MODULE GbmLayout -------------------------------
(***************************************************************************)
(* The size of the dumb buffer hdi_gbm_bo_create asks the kernel for: the  *)
(* height is scaled for the chroma planes of a YUV format and aligned, the *)
(* width is aligned.  All of it is unsigned arithmetic that wraps at Word. *)
(***************************************************************************)
EXTENDS Naturals

CONSTANTS Word,     \* 2^32 in the code
          Requests  \* the widths and heights asked for

ASSUME LayoutAssumption == Word \in Nat \ {0} /\ Requests \subseteq 0 .. (Word - 1)

HEIGHT_ALIGN == 2
WIDTH_ALIGN == 8

(* The formats by layout; an RGB format has one plane. *)
Formats == {"rgb", "yuv420sp", "yuv420p", "yuv422sp", "yuv422p"}

(* Mutant: 4:2:0 treated as 4:2:2. *)
RadioFull == [f \in Formats \ {"rgb"} |->
                IF f \in {"yuv420sp", "yuv422sp"} THEN <<4, 4, 0>> ELSE <<4, 2, 2>>]

(* radio of the PlaneLayoutInfo of a format; a third plane that does not   *)
(* exist counts nothing.                                                   *)
Radio == [f \in Formats \ {"rgb"} |->
            CASE f = "yuv420sp" -> <<4, 2, 0>>
              [] f = "yuv420p"  -> <<4, 1, 1>>
              [] f = "yuv422sp" -> <<4, 4, 0>>
              [] f = "yuv422p"  -> <<4, 2, 2>>]

Wrap(n) == n % Word

AlignUp(x, a) == Wrap((Wrap(x + (a - 1)) \div a) * a)

DivRoundUp(n, d) == Wrap(n + d - 1) \div d

AdjustStrideFromFormat(format, height) ==
  IF format = "rgb"
  THEN height
  ELSE LET r == Radio[format]
       IN  DivRoundUp(Wrap(height * (r[1] + r[2] + r[3])), r[1])

VARIABLES request, dumb   \* the arguments, and what is asked of the kernel

layoutVars == <<request, dumb>>

NoDumb == [width |-> 0, height |-> 0]

LayoutInit ==
  /\ request \in [format : Formats, width : Requests, height : Requests]
  /\ dumb = NoDumb

(* hdi_gbm_bo_create, up to the ioctl. *)
CreateBo ==
  /\ dumb = NoDumb
  /\ dumb' = [width |-> AlignUp(request.width, WIDTH_ALIGN),
              height |-> AlignUp(AdjustStrideFromFormat(request.format, request.height),
                                 HEIGHT_ALIGN)]
  /\ UNCHANGED request

LayoutNext == CreateBo

LayoutSpec == LayoutInit /\ [][LayoutNext]_layoutVars

-----------------------------------------------------------------------------
(* The rows of full stride a picture takes: the chroma planes of 4:2:0     *)
(* have half the rows, rounded up, those of 4:2:2 all of them, and two     *)
(* separate planes are half as wide as one of interleaved samples.         *)
RowsNeeded(format, height) ==
  CASE format \in {"yuv420sp", "yuv420p"} -> height + (height + 1) \div 2
    [] format \in {"yuv422sp", "yuv422p"} -> height + height
    [] OTHER -> height

(* No intermediate result wraps: with 32 bits, any height below 2^29 - 1   *)
(* and any width below 2^32 - 8.                                           *)
InRange == request.height < (Word - 8) \div 8 /\ request.width < Word - 8

(* Every size stays a word, whatever wraps on the way. *)
LayoutTypeOK ==
  /\ request \in [format : Formats, width : Requests, height : Requests]
  /\ dumb \in [width : 0 .. (Word - 1), height : 0 .. (Word - 1)]

(* The buffer has room for every plane of the picture, and wastes less     *)
(* than the alignment: the scaling by ratios in integers gives the same    *)
(* rows as counting them plane by plane, for odd heights too.              *)
PlanesFit ==
  (dumb # NoDumb /\ InRange) =>
    /\ RowsNeeded(request.format, request.height) <= dumb.height
    /\ dumb.height < RowsNeeded(request.format, request.height) + HEIGHT_ALIGN
    /\ request.width <= dumb.width
    /\ dumb.width < request.width + WIDTH_ALIGN
=============================================================================
