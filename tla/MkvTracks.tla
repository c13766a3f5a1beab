----------------------------- MODULE MkvTracks -----------------------------
(***************************************************************************)
(* Track descriptions: the Matroska TrackEntry, the GMC TrackInfo with its *)
(* codec envelope, and the two mappings between them.                      *)
(*                                                                         *)
(* An element list is the function of the fields that are present in it.   *)
(* Sampling frequencies are floats in Matroska and are counted in half     *)
(* hertz here, so that the rounding to whole hertz shows.                  *)
(***************************************************************************)
EXTENDS Integers, Sequences

CONSTANTS Supported,         \* the codec ids both packages know
          Uint32             \* values of a uint32

ASSUME WordAssumption == Uint32 \in Nat \ {0}

Byte == 256                  \* channels and bit depth are uint8 in the envelope

-----------------------------------------------------------------------------
(* TrackEntry and its elements.                                            *)

\* Value of a field whose element is absent.
ZeroEntry ==
    [number |-> 0, type |-> "none", codec |-> "", private |-> <<>>, defaultDuration |-> 0,
     width |-> 0, height |-> 0, freq |-> 0, outFreq |-> 0, channels |-> 0, depth |-> 0]

VideoFields == {"width", "height"}
AudioFields == {"freq", "outFreq", "channels", "depth"}

\* Mutant: the output frequency is written even when it is zero, the bit depth never.
OmittedDepth(te) ==
    {f \in {"private", "defaultDuration"} : te[f] = ZeroEntry[f]} \cup {"depth"}
    \cup (IF te.type = "video" THEN {} ELSE VideoFields)
    \cup (IF te.type = "audio" THEN {} ELSE AudioFields)

\* The fields encodeTrackEntry leaves out: those of another type, and the
\* optional ones that are zero.
Omitted(te) ==
    {f \in {"private", "defaultDuration", "outFreq", "depth"} : te[f] = ZeroEntry[f]}
    \cup (IF te.type = "video" THEN {} ELSE VideoFields)
    \cup (IF te.type = "audio" THEN {} ELSE AudioFields)

EncodeTrackEntry(te) == [f \in DOMAIN te \ Omitted(te) |-> te[f]]

ParseTrackEntry(els) ==
    [f \in DOMAIN ZeroEntry |-> IF f \in DOMAIN els THEN els[f] ELSE ZeroEntry[f]]

-----------------------------------------------------------------------------
(* The envelope in TrackInfo.Private.                                      *)

EnvelopeVersion == 1

EncodePrivate(params, private) ==
    [version |-> EnvelopeVersion, params |-> params, length |-> Len(private),
     private |-> private]

\* Anything else in the envelope's place is ErrInvalidPrivate.
Decodes(envelope) ==
    envelope.version = EnvelopeVersion /\ envelope.length = Len(envelope.private)

-----------------------------------------------------------------------------
(* mapTrack and mapTrackOut.                                               *)

KindOf == [video |-> "video", audio |-> "audio", subtitle |-> "data"]
TypeOf == [video |-> "video", audio |-> "audio", data |-> "subtitle"]

Hertz(halves) == (halves + 1) \div 2        \* uint32(f + 0.5)

\* Params of the envelope.  Equal frequencies are stored as output rate 0.
ParamsIn(te) ==
    CASE te.type = "video" -> [width |-> te.width % Uint32, height |-> te.height % Uint32]
      [] te.type = "audio" ->
            [rate |-> Hertz(te.freq),
             outRate |-> IF te.outFreq = te.freq THEN 0 ELSE Hertz(te.outFreq),
             channels |-> te.channels % Byte, depth |-> te.depth % Byte]
      [] OTHER -> [none |-> TRUE]

CanImport(te) == te.codec \in Supported /\ te.type \in DOMAIN KindOf

\* Only video is imported as Reordered.  The time scale becomes the numerator of
\* the timebase, a uint32.
MapTrack(te, scale) ==
    [kind |-> KindOf[te.type], codec |-> te.codec, reordered |-> te.type = "video",
     num |-> scale % Uint32, private |-> EncodePrivate(ParamsIn(te), te.private)]

CanExport(info) == info.codec \in Supported /\ Decodes(info.private)

MapTrackOut(info, number) ==
    LET p == info.private.params
        known == [number |-> number, type |-> TypeOf[info.kind], codec |-> info.codec,
                  private |-> info.private.private]
        own == CASE info.kind = "video" -> [width |-> p.width, height |-> p.height]
                 [] info.kind = "audio" ->
                       [freq |-> 2 * p.rate, outFreq |-> 2 * p.outRate,
                        channels |-> p.channels, depth |-> p.depth]
                 [] OTHER -> [number |-> number]
    IN  [f \in DOMAIN ZeroEntry |->
            IF f \in DOMAIN known THEN known[f]
            ELSE IF f \in DOMAIN own THEN own[f] ELSE ZeroEntry[f]]
=============================================================================
