---------------------------- MODULE QTanAnimation ----------------------------
(***************************************************************************)
(* .qtan turns an image into a bouncing animation of 50 frames a second.   *)
(* A still image bounces for one beat; an animated one keeps its own speed *)
(* while it bounces, for a time in which both come round if that is short. *)
(* One behaviour is the making of one picture: the options are read, sizes *)
(* and duration computed, the frames of an animation put on top of each    *)
(* other as their disposal says, and the frames of the result drawn one by *)
(* one.  The loops that compute a size and a common period take a step for *)
(* each round.  The height of each frame comes from a curve over floats    *)
(* and is any of Heights here; what it is clamped to is not.               *)
(***************************************************************************)
EXTENDS Integers, Sequences

CONSTANTS
    Pictures,        \* records [width, height, delays, areas, disposals]
    Parts,           \* parts of a canvas that a frame covers or not
    Options,         \* records [scale, bpm] of the command
    NotGiven,        \* an option that is not given
    Heights,         \* what the curve may give as the height of a frame
    FrameInterval,   \* qtanFrameIntervalMs
    MaxDuration,     \* qtanMaxAnimatedDuration
    MaxSourcePixels, \* qtanMaxSourcePixels
    MaxPixels,       \* qtanMaxPixels
    Padding          \* qtanHorizontalPadding

VARIABLES
    picture, option, \* what the command is asked for
    stage,           \* how far it is
    scale2, beatMs,  \* the motion: twice the scale, and the beat
    base,            \* the base size, <<width, height>>
    pair,            \* a and b of qtanGCD
    duration,        \* outputDuration
    canvas,          \* which frame each part of the source canvas shows, 0 for none
    elapsed,         \* time on the source's clock
    baseFrames,      \* the composited frames
    frameStarts,     \* and when they start
    index,           \* the frame to be drawn
    frame            \* the frame drawn last

qtanVars == <<picture, option, stage, scale2, beatMs, base, pair, duration, canvas, elapsed,
              baseFrames, frameStarts, index, frame>>

Least(a, b) == IF a < b THEN a ELSE b
Greatest(a, b) == IF a > b THEN a ELSE b

\* math.Round and math.Ceil of a / b.
Round(a, b) == (2 * a + b) \div (2 * b)
Ceil(a, b) == (a + b - 1) \div b

Frames(p) == Len(p.delays)
Still(p) == Frames(p) = 0
Disposals == {"none", "background", "previous"}

\* A frame lasts 10 ms at least, whatever the file says; a canvas of one pixel is
\* small enough at the greatest scale.
QTanAssumption ==
    /\ Pictures \subseteq [width : Nat, height : Nat, delays : Seq(Nat \ {0}),
                           areas : Seq(SUBSET Parts), disposals : Seq(Disposals)]
    /\ \A p \in Pictures : Len(p.areas) = Frames(p) /\ Len(p.disposals) = Frames(p)
    /\ Heights \subseteq Nat
    /\ FrameInterval \in Nat \ {0} /\ MaxDuration \in Nat \ {0}
    /\ MaxSourcePixels \in Nat /\ MaxPixels \in Nat /\ Padding \in Nat
    /\ (Ceil(20, 2) + 2 * Padding) * Ceil(20, 2) <= MaxPixels

\* The time at which each frame of a picture ends, and its duration.
Clock(p) ==
    LET ends[k \in 0..Frames(p)] == IF k = 0 THEN 0 ELSE ends[k - 1] + p.delays[k]
    IN ends
Total(p) == Clock(p)[Frames(p)]

Blank == [part \in Parts |-> 0]
NoFrame == [source |-> 0, x |-> 0, y |-> 0, width |-> 1, height |-> 1]

QTanTypeOK ==
    /\ picture \in Pictures /\ option \in Options
    /\ stage \in {"options", "measure", "gcd", "trim", "composite", "draw", "done", "refused"}
    /\ scale2 \in Nat /\ beatMs \in Nat /\ duration \in Nat /\ elapsed \in Nat /\ index \in Nat
    /\ base \in Nat \X Nat /\ pair \in Nat \X Nat
    /\ canvas \in [Parts -> Nat]
    /\ baseFrames \in Seq([Parts -> Nat])
    /\ frameStarts \in Seq(Nat) /\ Len(frameStarts) = Len(baseFrames)
    /\ frame \in [source : Nat, x : Nat, y : Nat, width : Nat \ {0}, height : Nat \ {0}]

QTanInit ==
    /\ picture \in Pictures /\ option \in Options
    /\ stage = "options"
    /\ scale2 = 0 /\ beatMs = 0 /\ duration = 0 /\ elapsed = 0 /\ index = 0
    /\ base = <<0, 0>> /\ pair = <<0, 0>>
    /\ canvas = Blank
    /\ baseFrames = <<>> /\ frameStarts = <<>>
    /\ frame = NoFrame

------------------------------------------------------------------------------
(* Options, sizes and duration. *)

\* qtanParseOptions: a scale above 1 and up to 10, a bpm between 10 and 1000.
ScaleAllowed(s) == s = NotGiven \/ s \in 3..20   \* twice the scale
BpmAllowed(b) == b = NotGiven \/ b \in 10..1000

\* newQTanMotion: the beat is a whole number of frames, at least one.
QTanMotion(bpm) == Greatest(1, Round(60000, bpm * FrameInterval)) * FrameInterval

ParseOptions ==
    /\ stage = "options"
    /\ IF ScaleAllowed(option.scale) /\ BpmAllowed(option.bpm)
       THEN /\ stage' = "measure"
            /\ scale2' = IF option.scale = NotGiven THEN 3 ELSE option.scale
            /\ beatMs' = QTanMotion(IF option.bpm = NotGiven THEN 130 ELSE option.bpm)
       ELSE /\ stage' = "refused"
            /\ UNCHANGED <<scale2, beatMs>>
    /\ UNCHANGED <<picture, option, base, pair, duration, canvas, elapsed, baseFrames, frameStarts,
                   index, frame>>

\* width * sqrt(MaxPixels / (scale * scale * width * height)), rounded.
Shrunk(width, height, s2) ==
    CHOOSE r \in 0..width :
        /\ r > 0 => (2 * r - 1) * (2 * r - 1) * s2 * s2 * height <= 16 * MaxPixels * width
        /\ 16 * MaxPixels * width < (2 * r + 1) * (2 * r + 1) * s2 * s2 * height

Untrimmed(width, height, s2) ==
    IF 4 * MaxPixels >= s2 * s2 * width * height THEN <<width, height>>
    ELSE <<Greatest(1, Shrunk(width, height, s2)), Greatest(1, Shrunk(height, width, s2))>>

\* The first beat that reaches MaxDuration.
LongestMs(beat) == ((MaxDuration + beat - 1) \div beat) * beat

\* A picture without pixels or with too many is refused.
Measure ==
    /\ stage = "measure"
    /\ IF \/ picture.width = 0 \/ picture.height = 0
          \/ picture.width * picture.height * Frames(picture) > MaxSourcePixels
       THEN stage' = "refused" /\ UNCHANGED <<base, pair, duration>>
       ELSE /\ base' = Untrimmed(picture.width, picture.height, scale2)
            /\ pair' = <<Total(picture), beatMs>>
            /\ IF ~Still(picture) /\ Total(picture) <= MaxDuration
               THEN stage' = "gcd" /\ UNCHANGED duration
               ELSE /\ stage' = "trim"
                    /\ duration' = IF Still(picture) THEN beatMs ELSE LongestMs(beatMs)
    /\ UNCHANGED <<picture, option, scale2, beatMs, canvas, elapsed, baseFrames, frameStarts, index, frame>>

\* One round of qtanGCD.
GCD ==
    /\ stage = "gcd"
    /\ pair[2] # 0
    /\ pair' = <<pair[2], pair[1] % pair[2]>>
    /\ UNCHANGED <<picture, option, stage, scale2, beatMs, base, duration, canvas, elapsed, baseFrames,
                   frameStarts, index, frame>>

\* Mutant of DurationMs: the limit is not rounded up to a beat.
DurationCut(common, beat) == IF common <= MaxDuration THEN common ELSE MaxDuration

DurationMs(common, beat) == IF common <= MaxDuration THEN common ELSE LongestMs(beat)

\* qtanAnimatedDurationMs, when qtanGCD is through; the common multiple of qtanLCM.
AnimatedDuration ==
    /\ stage = "gcd"
    /\ pair[2] = 0
    /\ duration' = DurationMs((Total(picture) \div pair[1]) * beatMs, beatMs)
    /\ stage' = "trim"
    /\ UNCHANGED <<picture, option, scale2, beatMs, base, pair, canvas, elapsed, baseFrames, frameStarts,
                   index, frame>>

CanvasSize(b) == <<Ceil(b[1] * scale2, 2) + 2 * Padding, Ceil(b[2] * scale2, 2)>>
SmallEnough(b) == CanvasSize(b)[1] * CanvasSize(b)[2] <= MaxPixels

\* One round of the loop of qtanBaseSize: a pixel goes off the longer side, the width
\* in case of equality.
Trim ==
    /\ stage = "trim"
    /\ ~SmallEnough(base) /\ base # <<1, 1>>
    /\ base' = IF base[1] >= base[2] THEN <<base[1] - 1, base[2]>> ELSE <<base[1], base[2] - 1>>
    /\ UNCHANGED <<picture, option, stage, scale2, beatMs, pair, duration, canvas, elapsed, baseFrames,
                   frameStarts, index, frame>>

\* Mutant of BaseSize: the rounded sizes are taken as they are.
BaseSizeUntrimmed ==
    /\ stage = "trim"
    /\ stage' = IF Still(picture) THEN "draw" ELSE "composite"
    /\ UNCHANGED <<picture, option, scale2, beatMs, base, pair, duration, canvas, elapsed, baseFrames,
                   frameStarts, index, frame>>

\* qtanBaseSize is through.
BaseSize ==
    /\ stage = "trim"
    /\ SmallEnough(base) \/ base = <<1, 1>>
    /\ stage' = IF Still(picture) THEN "draw" ELSE "composite"
    /\ UNCHANGED <<picture, option, scale2, beatMs, base, pair, duration, canvas, elapsed, baseFrames,
                   frameStarts, index, frame>>

------------------------------------------------------------------------------
(* The frames of the source. *)

\* Mutant of Dispose: the whole canvas is cleared.
DisposeAll(before, drawn, k) ==
    CASE picture.disposals[k] = "background" -> Blank
      [] picture.disposals[k] = "previous" -> before
      [] OTHER -> drawn

Dispose(before, drawn, k) ==
    CASE picture.disposals[k] = "background" ->
             [part \in Parts |-> IF part \in picture.areas[k] THEN 0 ELSE drawn[part]]
      [] picture.disposals[k] = "previous" -> before
      [] OTHER -> drawn

\* qtanCompositedBaseFrames, one frame of the source; those that begin after the
\* result has ended are left out.
Composite ==
    LET k == Len(baseFrames) + 1
        drawn == [part \in Parts |-> IF part \in picture.areas[k] THEN k ELSE canvas[part]] IN
    /\ stage = "composite"
    /\ k <= Frames(picture) /\ elapsed < duration
    /\ baseFrames' = Append(baseFrames, drawn)
    /\ frameStarts' = Append(frameStarts, elapsed)
    /\ canvas' = Dispose(canvas, drawn, k)
    /\ elapsed' = elapsed + picture.delays[k]
    /\ UNCHANGED <<picture, option, stage, scale2, beatMs, base, pair, duration, index, frame>>

CompositeDone ==
    /\ stage = "composite"
    /\ Len(baseFrames) = Frames(picture) \/ elapsed >= duration
    /\ stage' = "draw"
    /\ UNCHANGED <<picture, option, scale2, beatMs, base, pair, duration, canvas, elapsed, baseFrames,
                   frameStarts, index, frame>>

------------------------------------------------------------------------------
(* The frames of the result. *)

\* sort.Search: the first of the positions at which the starts are later than t, the
\* one after the last if there is none.
FirstLater(starts, t) ==
    CHOOSE k \in 1..(Len(starts) + 1) :
        /\ k <= Len(starts) => starts[k] > t
        /\ \A j \in 1..(k - 1) : starts[j] <= t

\* Mutant of SourceFrameIndex: a frame is shown one step late.
SourceFrameIndexLate(starts, t) == Greatest(1, FirstLater(starts, t - 1) - 1)

\* qtanSourceFrameIndex: the last frame that has started, the first if none has.
SourceFrameIndex(starts, t) == Greatest(1, FirstLater(starts, t) - 1)

\* The height the curve gives is clamped to the canvas; the area is kept if it can be.
HeightFor(height) == Least(Greatest(1, height), CanvasSize(base)[2])
WidthFor(height) ==
    Least(Greatest(1, Round(base[1] * base[2], height)), CanvasSize(base)[1] - 2 * Padding)

\* One frame of the result.
Draw(height) ==
    LET h == HeightFor(height)
        w == WidthFor(h) IN
    /\ stage = "draw"
    /\ index < duration \div FrameInterval
    /\ frame' = [source |-> IF Still(picture) THEN 0
                            ELSE SourceFrameIndex(frameStarts, (index * FrameInterval) % Total(picture)),
                 x |-> (CanvasSize(base)[1] - w) \div 2, y |-> CanvasSize(base)[2] - h,
                 width |-> w, height |-> h]
    /\ index' = index + 1
    /\ UNCHANGED <<picture, option, stage, scale2, beatMs, base, pair, duration, canvas, elapsed,
                   baseFrames, frameStarts>>

SaveGIF ==
    /\ stage = "draw"
    /\ index = duration \div FrameInterval
    /\ stage' = "done"
    /\ UNCHANGED <<picture, option, scale2, beatMs, base, pair, duration, canvas, elapsed, baseFrames,
                   frameStarts, index, frame>>

QTanNext ==
    \/ ParseOptions \/ Measure \/ GCD \/ AnimatedDuration \/ Trim \/ BaseSize
    \/ Composite \/ CompositeDone
    \/ (\E h \in Heights : Draw(h)) \/ SaveGIF

QTanSpec == QTanInit /\ [][QTanNext]_qtanVars

------------------------------------------------------------------------------
(* Properties. *)

\* The frames up to k that put something on part p, or take it off, for good.
Lasting(p, k) == {j \in 1..k : p \in picture.areas[j] /\ picture.disposals[j] # "previous"}

\* By the rules of GIF, part p of the source shows frame n, or nothing if n is 0,
\* when frame k has been disposed of; and while frame k is shown.
ShownAfter(p, k, n) ==
    \/ Lasting(p, k) = {} /\ n = 0
    \/ \E j \in Lasting(p, k) :
           /\ \A i \in Lasting(p, k) : i <= j
           /\ n = IF picture.disposals[j] = "none" THEN j ELSE 0
ShownIn(p, k, n) == IF p \in picture.areas[k] THEN n = k ELSE ShownAfter(p, k - 1, n)

\* Every composited frame shows what a viewer of the source would have seen, also
\* after frames that clear their area or are undone.  (qtanCompositedBaseFrames.)
FramesAsSeen ==
    \A k \in DOMAIN baseFrames : \A p \in Parts : ShownIn(p, k, baseFrames[k][p])

\* The animation keeps its speed and comes round without a gap: each frame drawn is
\* the one the source shows at that time, although frames may have been left out.
\* (qtanSourceFrameIndex over the starts of the frames that were composited.)
KeepsItsSpeed ==
    index > 0 /\ ~Still(picture) =>
        LET t == ((index - 1) * FrameInterval) % Total(picture) IN
        /\ frame.source \in DOMAIN baseFrames
        /\ Clock(picture)[frame.source - 1] <= t /\ t < Clock(picture)[frame.source]

\* The result ends with a beat, and with a loop of the source too if that is
\* possible within MaxDuration, for the first time; if not, at the first beat that
\* reaches it.  (qtanAnimatedDurationMs and the comment above it.)
EndsOnTheBeat ==
    stage \in {"trim", "composite", "draw", "done"} =>
        /\ duration > 0 /\ duration % beatMs = 0 /\ duration % FrameInterval = 0
        /\ ~Still(picture) =>
            LET Common(n) == (n * beatMs) % Total(picture) = 0 IN
            /\ \A n \in 1..((duration \div beatMs) - 1) : ~Common(n)
            /\ duration < MaxDuration + beatMs
            /\ Common(duration \div beatMs) \/ MaxDuration <= duration

\* The canvas keeps within MaxPixels and every frame within the canvas, standing on
\* its lower edge with the padding free on both sides.  (qtanBaseSize.)
InsideTheCanvas ==
    stage = "draw" =>
        LET c == CanvasSize(base) IN
        /\ base[1] > 0 /\ base[2] > 0 /\ c[1] * c[2] <= MaxPixels
        /\ index > 0 => /\ Padding <= frame.x /\ frame.x + frame.width <= c[1] - Padding
                        /\ 0 <= frame.y /\ frame.y + frame.height = c[2]

\* A bouncing animation shows the source as a viewer of GIF would see it, at its
\* own speed, ends with a whole beat and stays inside its canvas
\* (buildQTanAnimatedGIF, buildQTanGIF).
AnimationSound == FramesAsSeen /\ KeepsItsSpeed /\ EndsOnTheBeat /\ InsideTheCanvas
=============================================================================
