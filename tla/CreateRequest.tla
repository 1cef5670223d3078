--------------------------- MODULE CreateRequest ----------------------------
(***************************************************************************)
(* What CreateVolume makes of its request before it talks to the NAS       *)
(* (driver/controller.go:47-69): the name of the volume (cleanISCSIName)   *)
(* and its size (extractStorage, both driver/utils.go).  Sizes are counted *)
(* in a unit of which giB is a small multiple, so that sizes between two   *)
(* GiB exist.  Names are sequences of characters.                          *)
(***************************************************************************)
EXTENDS Integers, Sequences, FiniteSets

CONSTANTS
    giB,       \* units in a GiB
    maxGiB,    \* maximumVolumeSizeInBytes, in GiB
    defGiB,    \* defaultVolumeSizeInBytes, in GiB
    Alnum,     \* the characters a-z, 0-9 and A-Z
    Lower      \* the character each character is turned to

ASSUME SizesAssumption ==
    /\ giB \in Nat \ {0} /\ maxGiB \in Nat /\ defGiB \in Nat
    /\ 1 <= defGiB /\ defGiB <= maxGiB

\* strings.ToLower makes a letter of a letter and leaves the digits alone.
ASSUME LowerAssumption ==
    Alnum \subseteq DOMAIN Lower /\ \A c \in Alnum : Lower[c] \in Alnum

\* One GiB: a required size below it that comes with a limit is refused as a
\* fraction only, so a larger minimum would not be kept.
Min == 1 * giB
Max == maxGiB * giB
Default == defGiB * giB

Capability == [mode : {"single_node_writer", "other"},
               type : {"block", "mount", "none"}]

\* The positions of the characters that stay.
Kept(name) == {i \in DOMAIN name : Lower[name[i]] \in Alnum}

\* They stay in their order.
cleanISCSIName(name) ==
    [k \in 1..Cardinality(Kept(name)) |->
        LET at == CHOOSE i \in Kept(name) :
                      Cardinality(Kept(name) \cap (1..i)) = k
        IN  Lower[name[at]]]

\* validateCapabilities finds no violation.
ValidCapabilities(cs) ==
    \A c \in cs : c.mode = "single_node_writer" /\ c.type \in {"block", "mount"}

-----------------------------------------------------------------------------
\* extractStorage

\* Mutant: a size is given when it is not 0.
RequiredNotZero(r) == r.required # 0

\* A field that is 0 or negative counts as not given, like a range that is
\* not there.
RequiredSet(r) == 0 < r.required
LimitSet(r) == 0 < r.limit

Contradictory(r) == RequiredSet(r) /\ LimitSet(r) /\ r.limit < r.required

TooSmall(r) ==
    \/ RequiredSet(r) /\ ~LimitSet(r) /\ r.required < Min
    \/ LimitSet(r) /\ r.limit < Min

Fraction(r) ==
    \/ LimitSet(r) /\ r.limit % giB # 0
    \/ RequiredSet(r) /\ r.required % giB # 0

\* Mutant: the maximum itself is too large.
TooLargeOrEqual(r) ==
    \/ RequiredSet(r) /\ r.required >= Max
    \/ ~RequiredSet(r) /\ LimitSet(r) /\ r.limit > Max

\* Mutant: only the required size is checked against the maximum.
TooLargeRequired(r) == RequiredSet(r) /\ r.required > Max

TooLarge(r) ==
    \/ RequiredSet(r) /\ r.required > Max
    \/ ~RequiredSet(r) /\ LimitSet(r) /\ r.limit > Max

InvalidRange(r) ==
    Contradictory(r) \/ TooSmall(r) \/ Fraction(r) \/ TooLarge(r)

\* The size of a range that is not refused.
ExtractStorage(r) ==
    IF RequiredSet(r) THEN r.required
    ELSE IF LimitSet(r) THEN r.limit ELSE Default

\* The answer to a request, "go" if the volume is to be made.
CreateCode(name, caps, range) ==
    CASE name = <<>> \/ caps = {} \/ ~ValidCapabilities(caps)
            -> "InvalidArgument"
      [] name # <<>> /\ caps # {} /\ ValidCapabilities(caps)
         /\ InvalidRange(range)
            -> "OutOfRange"
      [] OTHER -> "go"
=============================================================================
