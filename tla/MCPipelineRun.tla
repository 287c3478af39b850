----------------------------- MODULE MCPipelineRun -----------------------------
(***************************************************************************)
(* Small recordings, each made for some of the branches of the pure        *)
(* functions.                                                              *)
(***************************************************************************)
EXTENDS PipelineRun

MCLabel  == {"s0", "s1", "s2"}
MCNameOf == [i \in Speaker |-> IF i = "i1" THEN "ann" ELSE "ann (2)"]

(* Every name that may be numbered, with each number a label can get.      *)
MCNumbered ==
  [p \in (MCLabel \cup {Unknown, "ann", "ann (2)"}) \X (2..4) |->
     p[1] \o " (" \o ToString(p[2]) \o ")"]

Seg(from, to, text)  == [start |-> from, end |-> to, text |-> text]
Said(from, to, text) == [start |-> from, end |-> to, text |-> text, words |-> TRUE]
Turn(from, to, who)  == [start |-> from, end |-> to, speaker |-> who]
Times(n, unit)       == FlattenSeq([i \in 1..n |-> unit])

ask == <<"p", "q", "r", "s">>       \* a prompt marker
MCPromptMarkers == << ask \o <<"t">>, ask >>
bye == {<<"x", "y">>, <<"x", "y", "z">>, <<"z", "z">>}

(* Three speakers; a backchannel said twice, by two of them; a pause in    *)
(* which a text falls that no turn covers; a turn too short to embed; two  *)
(* turns over one segment.  Aligned, the second backchannel is so short    *)
(* that it gets the first's label, and the question falls into sentences   *)
(* of two labels.                                                          *)
Talk ==
  [heard |-> << Seg(0, 2000, <<"h", "i">>),    Seg(2050, 3000, <<"o", "k">>),
                Seg(3000, 4000, <<"o", "k">>), Seg(4051, 6500, <<"w", "h", "y">>),
                Seg(9000, 9400, <<"u", "m">>) >>,
   cut   |-> (Seg(0, 2000, <<"h", "i">>) :> << Said(120, 1800, <<"h", "i">>) >>)
             @@ (Seg(2050, 3000, <<"o", "k">>) :> << Said(2100, 2900, <<"o", "k">>) >>)
             @@ (Seg(3000, 4000, <<"o", "k">>) :> << Said(3000, 3090, <<"o", "k">>) >>)
             @@ (Seg(4051, 6500, <<"w", "h", "y">>) :>
                   << Said(4060, 4400, <<"w">>), Said(4700, 6400, <<"h", "y">>) >>),
   turns |-> << Turn(0, 3100, "s0"), Turn(2900, 4500, "s1"),
                Turn(4500, 7000, "s2") >>]

(* One voice in pieces, then a segment whose middle is all that meets a    *)
(* turn of no length, another voice right after it, then two turns over as *)
(* much of one segment, in which one thing is said twice.  Aligned, the    *)
(* second time is an echo in another voice, and the middle meets nothing.  *)
Pieces ==
  [heard |-> << Seg(0, 1000, <<"a">>), Seg(1000, 1500, <<>>),
                Seg(1550, 2500, <<"b">>), Seg(3000, 4000, <<"c">>),
                Seg(4040, 4800, <<"d">>), Seg(5000, 7000, <<"e", "e">>) >>,
   cut   |-> (Seg(1550, 2500, <<"b">>) :> << Said(1600, 2400, <<"b">>) >>)
             @@ (Seg(3000, 4000, <<"c">>) :> << Said(3100, 3700, <<"c">>) >>)
             @@ (Seg(5000, 7000, <<"e", "e">>) :>
                   << Said(5000, 5800, <<"e">>), Said(6100, 7000, <<"e">>) >>),
   turns |-> << Turn(0, 2600, "s0"), Turn(3500, 3500, "s1"),
                Turn(4000, 6000, "s2"), Turn(6000, 8000, "s1") >>]

(* The prompt over and over, once with a silent segment in the middle.     *)
Prompted ==
  [heard |-> << Seg(0, 4000, ask), Seg(4000, 8000, ask \o <<".">>),
                Seg(8000, 12000, <<"e">> \o ask), Seg(12000, 14000, <<"f">>) >>,
   cut   |-> Seg(8000, 12000, <<"e">> \o ask) :>
               << Said(8000, 8400, <<"e">>), Said(8500, 12000, ask) >>,
   turns |-> << Turn(0, 14000, "s0") >>]

Parted ==
  [heard |-> << Seg(0, 4000, ask), Seg(4000, 8000, ask),
                Seg(8000, 9000, <<".">>), Seg(9000, 13000, ask) >>,
   cut   |-> <<>>,
   turns |-> << Turn(0, 13000, "s0") >>]

(* One unit over and over, in one segment, in a run, and not quite; an     *)
(* outro; text that the last unit length tried hides.                      *)
Looped ==
  [heard |-> << Seg(0, 12000, Times(4, <<"a", "b">>)),
                Seg(12000, 19000, Times(2, <<"c", "d">>)),
                Seg(19000, 26000, Times(2, <<"c", "d">>)),
                Seg(26000, 33000, Times(2, <<"c", "d">>)),
                Seg(33000, 45000, Times(3, Times(5, <<"a", "b">>) \o <<"c", "c">>)),
                Seg(45000, 48000, <<"x", "y", "z", "z", "z">>) >>,
   cut   |-> <<>>,
   turns |-> << Turn(0, 48000, "s0") >>]

Silence == [heard |-> <<>>, cut |-> <<>>, turns |-> <<>>]

MCRecordings == {Talk, Pieces, Prompted, Parted, Looped, Silence}

Plainly ==
  [wav |-> FALSE, raw |-> FALSE, denoise |-> "none", align |-> FALSE,
   db |-> TRUE, dir |-> TRUE, kernel |-> FALSE, selection |-> <<>>]

Pick(step, provider) == [step |-> step, provider |-> provider]

(* Every way of preparing the audio; each other choice on its own, the     *)
(* kernel with alignment too; a provider named by an alias and one that is *)
(* not registered.                                                         *)
MCRequests ==
  {[Plainly EXCEPT !.wav = w, !.raw = r, !.denoise = d] :
     w, r \in BOOLEAN, d \in {"none", "unheard_of", "noisereduce", "deepfilternet"}}
  \cup {[Plainly EXCEPT !.align = TRUE], [Plainly EXCEPT !.db = FALSE],
        [Plainly EXCEPT !.dir = FALSE], [Plainly EXCEPT !.kernel = TRUE],
        [Plainly EXCEPT !.kernel = TRUE, !.align = TRUE],
        [Plainly EXCEPT !.selection = << Pick("enhancement", "other"),
                                         Pick("enhance", "default") >>],
        [Plainly EXCEPT !.selection = << Pick("asr", "other") >>]}

MCCanonical ==
  [s \in ToSet(Stages) \cup {"input_normalization", "enhancement"} |->
     CASE s = "input_normalization" -> "normalize"
       [] s = "enhancement"         -> "enhance"
       [] OTHER                     -> s]

MCProviders == [s \in ToSet(Stages) |-> {"default"}]
=============================================================================
