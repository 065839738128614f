------------------------------- MODULE Voices -------------------------------
(***************************************************************************)
(* The voices of a lesson (synthesize_audio.py, characters.py): which      *)
(* provider voice reads which turn, from the author's configuration and    *)
(* the turns in their order.  A recording is identified by its text and    *)
(* voice, so a voice that moves makes every recording of it stale.         *)
(***************************************************************************)
EXTENDS Naturals, Sequences, FiniteSets, SequencesExt

CONSTANTS
  VoTurns,        \* turns the author may write
  VoConfigs,      \* contents of config.yaml and characters.yaml
  VoMaxTurns,     \* bound: turns of the lesson
  VoNone          \* no speaker, character, profile, voice

VARIABLES
  voConfig,       \* the configuration on disk
  voLesson        \* the turns of the lesson, in order

voVars == <<voConfig, voLesson>>

\* A turn: [origin, speaker, character, profile, named, pick].  named: it has
\* the registry's name of its character; pick: the hash of its candidate id.
\* A configuration: [narrator, pool, over, profile, registry, pins].
Spoken(lesson) == SelectSeq(lesson, LAMBDA t : t.origin \in {"reading", "example"})
ProfileOf(c, voice) == IF voice \in DOMAIN c.profile THEN c.profile[voice] ELSE VoNone

(***************************************************************************)
(* load_audio_settings.                                                    *)
(***************************************************************************)
PoolLoads(c) == IsInjective(c.pool)

\* No two characters of the registry have one name.
RegistryLoads(c) ==
  \A k, l \in DOMAIN c.registry : c.registry[k].name = c.registry[l].name => k = l

PinsLoad(c) ==
  \A k \in DOMAIN c.pins :
    /\ k \in DOMAIN c.registry
    /\ c.registry[k].profile \in {VoNone, ProfileOf(c, c.pins[k])}

Loads(c) == PoolLoads(c) /\ RegistryLoads(c) /\ PinsLoad(c)

(***************************************************************************)
(* The validation before any provider call.                                *)
(***************************************************************************)
CharacterFits(c, k, profile) ==
  /\ k \in DOMAIN c.registry
  /\ VoNone \in {c.registry[k].profile, profile} \/ c.registry[k].profile = profile
  /\ IF k \notin DOMAIN c.pins
     THEN c.registry[k].profile = VoNone /\ profile = VoNone
     ELSE LET wanted == IF profile # VoNone THEN profile ELSE c.registry[k].profile
          IN  VoNone \in {wanted, ProfileOf(c, c.pins[k])} \/ wanted = ProfileOf(c, c.pins[k])

PoolFor(c, profile) ==
  SelectSeq(c.pool, LAMBDA v : profile = VoNone \/ ProfileOf(c, v) = profile)

SourceFits(c, t) ==
  /\ t.profile # VoNone => t.speaker # VoNone
  /\ IF t.character # VoNone THEN CharacterFits(c, t.character, t.profile)
     ELSE t.profile # VoNone =>
            IF t.speaker \in DOMAIN c.over
            THEN ProfileOf(c, c.over[t.speaker]) \in {VoNone, t.profile}
            ELSE PoolFor(c, t.profile) # <<>>

\* A repeated speaker has one character and one profile.
ConsistentProfile(t, u) ==
  t.speaker # VoNone /\ t.speaker = u.speaker => t.profile = u.profile

Consistent(t, u) ==
  t.speaker # VoNone /\ t.speaker = u.speaker =>
    t.character = u.character /\ t.profile = u.profile

Valid(c, lesson) ==
  LET turns == Range(Spoken(lesson)) IN
  /\ \A t \in turns : t.character # VoNone => t.character \in DOMAIN c.registry /\ t.named
  /\ \A t \in turns : SourceFits(c, t) /\ \A u \in turns : Consistent(t, u)
  /\ \A k \in DOMAIN c.registry : CharacterFits(c, k, VoNone)
  \* The voices are allocated once before the first call; a missing pin raises.
  /\ \A t \in Range(lesson) : t.character # VoNone => t.character \in DOMAIN c.pins

(***************************************************************************)
(* _SpeakerVoiceAllocator: one pass over the turns.                        *)
(***************************************************************************)
Fresh(c) ==
  [assigned |-> <<>>,
   used |-> {c.over[s] : s \in DOMAIN c.over} \cup {c.pins[k] : k \in DOMAIN c.pins},
   reuse |-> <<>>, voices |-> <<>>]

Count(counts, profile) == IF profile \in DOMAIN counts THEN counts[profile] ELSE 0
With(f, key, value) == [k \in DOMAIN f \cup {key} |-> IF k = key THEN value ELSE f[k]]

TakenUnmarked(a, speaker, voice) == [a EXCEPT !.assigned = With(@, speaker, voice)]

Taken(a, speaker, voice) ==
  [a EXCEPT !.assigned = With(@, speaker, voice), !.used = @ \cup {voice}]

\* The next voice of the pool, and the allocator after it.
NextPoolVoice(c, a, t) ==
  LET fit == PoolFor(c, t.profile)
      free == SelectSeq(fit, LAMBDA v : v \notin a.used)
      n == Count(a.reuse, t.profile)
  IN CASE free # <<>> -> Taken(a, t.speaker, free[1])
       [] free = <<>> /\ c.pool = <<>> ->
            [a EXCEPT !.assigned = With(@, t.speaker, c.narrator)]
       [] OTHER ->
            [a EXCEPT !.assigned = With(@, t.speaker, fit[(n % Len(fit)) + 1]),
                      !.reuse = With(@, t.profile, n + 1)]

ExampleVoice(c, t) ==
  IF c.pool = <<>> THEN c.narrator ELSE c.pool[(t.pick % Len(c.pool)) + 1]

Heard(a, voice) == [a EXCEPT !.voices = Append(@, voice)]

VoiceFor(c, a, t) ==
  CASE t.character # VoNone -> Heard(a, c.pins[t.character])
    [] t.character = VoNone /\ t.speaker = VoNone ->
         Heard(a, IF t.origin = "example" THEN ExampleVoice(c, t) ELSE c.narrator)
    [] t.character = VoNone /\ t.speaker \in DOMAIN c.over -> Heard(a, c.over[t.speaker])
    [] t.character = VoNone /\ t.speaker \in DOMAIN a.assigned ->
         Heard(a, a.assigned[t.speaker])
    [] OTHER -> LET b == NextPoolVoice(c, a, t) IN Heard(b, b.assigned[t.speaker])

Allocated(c, lesson) == FoldLeft(LAMBDA a, t : VoiceFor(c, a, t), Fresh(c), lesson)
VoicesOf(c, lesson) == Allocated(c, lesson).voices

(***************************************************************************)
(* The author edits the lesson and the configuration.                      *)
(***************************************************************************)
VoInit == voConfig \in VoConfigs /\ voLesson = <<>>

WriteTurn ==
  /\ Len(voLesson) < VoMaxTurns
  /\ \E t \in VoTurns, at \in 1..(Len(voLesson) + 1) : voLesson' = InsertAt(voLesson, at, t)
  /\ UNCHANGED voConfig

DeleteTurn ==
  /\ \E at \in DOMAIN voLesson : voLesson' = RemoveAt(voLesson, at)
  /\ UNCHANGED voConfig

Configure == voConfig' \in VoConfigs /\ UNCHANGED voLesson

VoNext == WriteTurn \/ DeleteTurn \/ Configure
(***************************************************************************)
(* Properties.                                                             *)
(***************************************************************************)
Speakable == Loads(voConfig) /\ Valid(voConfig, voLesson)
Now == VoicesOf(voConfig, voLesson)
FromPool(t) ==
  t.speaker # VoNone /\ t.character = VoNone /\ t.speaker \notin DOMAIN voConfig.over

\* A turn that declares a profile, itself or through its character, is read by
\* no voice classified otherwise; one from the pool by a voice of that profile.
VoicesFit ==
  \A i \in DOMAIN voLesson :
    LET t == voLesson[i]
        wanted == IF t.profile = VoNone /\ t.character # VoNone
                  THEN voConfig.registry[t.character].profile ELSE t.profile
    IN  wanted # VoNone =>
          \/ ProfileOf(voConfig, Now[i]) = wanted
          \/ ProfileOf(voConfig, Now[i]) = VoNone /\ ~FromPool(t)

\* A speaker has one voice throughout the lesson.
SpeakersKeepVoice ==
  \A i, j \in DOMAIN voLesson :
    voLesson[i].speaker # VoNone /\ voLesson[i].speaker = voLesson[j].speaker => Now[i] = Now[j]

\* Two speakers share a voice of the pool only when the later one found every
\* voice of its profile taken, by a speaker before it or by an override or pin.
SharedOnlyWhenExhausted ==
  \A i, j \in DOMAIN voLesson :
    /\ i < j /\ FromPool(voLesson[i]) /\ FromPool(voLesson[j]) /\ Now[i] = Now[j]
    /\ voLesson[i].speaker # voLesson[j].speaker /\ voConfig.pool # <<>>
    /\ \A h \in 1..(j - 1) : voLesson[h].speaker # voLesson[j].speaker
    => \A v \in Range(PoolFor(voConfig, voLesson[j].profile)) :
         v \in Fresh(voConfig).used \cup {Now[h] : h \in {h \in 1..(j - 1) : FromPool(voLesson[h])}}

\* Turns added behind a lesson change no voice before them: no recording of
\* the lesson becomes stale.
EarlierVoicesStand ==
  [][Speakable /\ Speakable' /\ voConfig' = voConfig /\ IsPrefix(voLesson, voLesson') =>
       IsPrefix(Now, Now')]_voVars

\* Every voice is the one its author asked for or a fair choice of the pool.
VoicesSound ==
  /\ [](Speakable => VoicesFit /\ SpeakersKeepVoice /\ SharedOnlyWhenExhausted)
  /\ EarlierVoicesStand
=============================================================================
