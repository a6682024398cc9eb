-------------------------------- MODULE Versions --------------------------------
(***************************************************************************)
(* Versions (include/moonbase/version.hpp, release_access.hpp): which of   *)
(* two versions is the newer, and which versions of the app a license      *)
(* covers.                                                                 *)
(*                                                                         *)
(* A version's text is what its readers tell apart: the parts between the  *)
(* dots, each a number or NotANumber, and the dot-separated identifiers    *)
(* after "-".  Both readers drop "v", blanks and "+build".                 *)
(***************************************************************************)
EXTENDS Integers, Sequences

CONSTANTS
    NotANumber,     \* a part that is no run of digits
    Unreadable,     \* what a reader says of a text it can't read
    MaxPart,        \* max_part: the largest number parse_app_version takes
    Texts,          \* the versions the properties are about
    Accesses        \* the release accesses they are about

\* An identifier of a pre-release: a number, or a word, ordered as strings are.
Identifiers == [digits : BOOLEAN, value : Nat]
Semvers     == [core : [1 .. 3 -> Nat], pre : Seq(Identifiers)]

AllTexts == [parts : Seq(Nat \cup {NotANumber}), pre : Seq(Identifiers)]

\* Each field of a license's release access is a value or -1 when it isn't there;
\* upToVersion is a text, or Unreadable when there is none.
Times       == Nat \cup {-1}
AllAccesses == [until : Times, upToMajor : Times, upToVersion : AllTexts \cup {Unreadable}]

ASSUME VersionsAssumption ==
    /\ MaxPart \in Nat /\ NotANumber \notin Nat /\ Unreadable \notin Semvers \cup AllTexts
    /\ Texts \subseteq AllTexts /\ Accesses \subseteq AllAccesses

-----------------------------------------------------------------------------
\* A lone major is read by parse_semver only, a fourth part by parse_app_version.
Numbers(text, fewest, most) ==
    /\ Len(text.parts) \in fewest .. most
    /\ \A i \in DOMAIN text.parts : text.parts[i] # NotANumber

\* Missing parts are 0.
Core(parts) == [i \in 1 .. 3 |-> IF i <= Len(parts) THEN parts[i] ELSE 0]

ParseSemver(text) ==
    IF Numbers(text, 1, 3) THEN [core |-> Core(text.parts), pre |-> text.pre] ELSE Unreadable

ParseAppVersion(text) ==
    IF /\ Numbers(text, 2, 4)
       /\ \A i \in DOMAIN text.parts : text.parts[i] <= MaxPart
      THEN [core |-> Core(text.parts), pre |-> << >>]
      ELSE Unreadable

\* compare, as its sign: the first part that differs decides, then the
\* pre-release, which the release itself outranks.
Sign(a, b) == IF a < b THEN -1 ELSE IF a = b THEN 0 ELSE 1

CompareCore(a, b) ==
    IF a[1] # b[1] THEN Sign(a[1], b[1])
    ELSE IF a[2] # b[2] THEN Sign(a[2], b[2])
    ELSE Sign(a[3], b[3])

\* Mutant: numbers are ordered among words, as text.
CompareAsWords(x, y) == Sign(x.value, y.value)

\* A number ranks below a word.
CompareIdentifier(x, y) ==
    IF x.digits = y.digits THEN Sign(x.value, y.value)
    ELSE IF x.digits THEN -1 ELSE 1

\* Identifiers one by one, and then the one with more of them wins.
ComparePre(p, q) ==
    LET shared == {i \in DOMAIN p : i \in DOMAIN q}
        differ == {i \in shared : CompareIdentifier(p[i], q[i]) # 0}
        first  == CHOOSE i \in differ : \A j \in differ : i <= j
    IN  IF p = << >> \/ q = << >> THEN Sign(Len(q), Len(p))
        ELSE IF differ # {} THEN CompareIdentifier(p[first], q[first])
        ELSE Sign(Len(p), Len(q))

Compare(a, b) ==
    IF CompareCore(a.core, b.core) # 0 THEN CompareCore(a.core, b.core)
    ELSE ComparePre(a.pre, b.pre)

\* update_available: what can't be read never prompts.
UpdateAvailable(current, latest) ==
    LET a == ParseSemver(current)
        b == ParseSemver(latest)
    IN  a # Unreadable /\ b # Unreadable /\ Compare(b, a) > 0

-----------------------------------------------------------------------------
UpTo(access) == IF access.upToVersion = Unreadable THEN Unreadable
                ELSE ParseAppVersion(access.upToVersion)

\* covers_version.  What can't be read is not checked.
Covers(access, text, now) ==
    LET app == ParseAppVersion(text)
    IN  \/ access.until = -1 /\ access.upToMajor = -1
        \/ app = Unreadable
        \/ access.upToMajor # -1 /\ app.core[1] <= access.upToMajor
        \/ /\ access.until # -1
           /\ \/ now <= access.until
              \/ UpTo(access) = Unreadable
              \/ Compare(app, UpTo(access)) <= 0

-----------------------------------------------------------------------------
\* Which version is newer never depends on the order they are asked in, nor on a
\* version between them, and two that rank the same read the same: with anything
\* less, an update could prompt for the version that runs (compare).
Ordered ==
    LET readings == {ParseSemver(t) : t \in Texts} \ {Unreadable}
    IN  \A a, b \in readings :
            /\ Compare(a, b) = -Compare(b, a)
            /\ Compare(a, b) = 0 => a = b
            /\ \A c \in readings : Compare(a, b) < 0 /\ Compare(b, c) < 0 => Compare(a, c) < 0

\* A customer can always go back: a license that covers a version covers every
\* earlier one it can read, and at every earlier time (covers_version, and what
\* release_not_covered_error promises).
CoverageLasts ==
    \A access \in Accesses, v, w \in Texts, now \in 0 .. 2, before \in 0 .. 2 :
        LET older == ParseAppVersion(v)
            newer == ParseAppVersion(w)
        IN  /\ older # Unreadable /\ newer # Unreadable /\ before <= now
            /\ Compare(older, newer) <= 0
            /\ Covers(access, w, now)
            => Covers(access, v, before)
=============================================================================
