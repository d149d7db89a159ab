---------------------------- MODULE MC_Structures ----------------------------
(* The data structures and the functions on texts and bytes, one per         *)
(* behaviour: the subject is chosen at the start, the others never move. A   *)
(* pure function has its input chosen at the start and nothing to do after.  *)
EXTENDS Naturals, Sequences, TLC, LinkedLists

CONSTANTS
    Name, MaxSize,      \* of Configor
    User, MaxLength     \* of FileIO

VARIABLES
    subject,
    root, file, dirty,
    mode, content, pos, last, holder, call, result,
    input               \* of the function

\* Pieces of three sizes, with bytes that tell their place.
ThreePieces == {<<1>>, <<2, 3>>, <<4, 5, 6>>}

C == INSTANCE Configor
F == INSTANCE FileIO
Digest == INSTANCE Digests
Text == INSTANCE StringUtil
IP == INSTANCE IPAddress
Codec == INSTANCE Codecs
Line == INSTANCE CmdLineParser
Aes == INSTANCE Aes
Rsa == INSTANCE Rsa
Path == INSTANCE Paths
Transform == INSTANCE Transforms
Link == INSTANCE ShellLink
Reg == INSTANCE Registry
Env == INSTANCE EnvVariable
Time == INSTANCE TimeUtil
Util == INSTANCE WinUtil

\* The bounds and the sets are as the modules assume.
ASSUME Q!ConstantsOK /\ M!ConstantsOK /\ F!ConstantsOK

queueVars ==
    <<first_element, last_element, element_num, total_data_size, prev, next, data, op, out>>
poolVars == <<data_element, free_element, pre, follow, source, seen, lent, returned, gone>>
configVars == <<root, file, dirty>>
fileVars == <<mode, content, pos, last, holder, call, result>>
allVars == <<subject, queueVars, poolVars, configVars, fileVars, input>>

Functions ==
    [digest  |-> Digest!DigestInputs,
     text    |-> Text!StringInputs,
     version |-> Text!VersionInputs,
     ip      |-> IP!AddressInputs,
     codec   |-> Codec!CodecInputs,
     line    |-> Line!LineInputs,
     aes     |-> Aes!AesInputs,
     rsa     |-> Rsa!RsaInputs,
     path    |-> Path!PathInputs,
     transform |-> Transform!TransformInputs,
     link    |-> Link!LinkInputs,
     registry |-> Reg!RegistryInputs,
     env     |-> Env!EnvInputs,
     time    |-> Time!TimeInputs,
     util    |-> Util!UtilInputs]

Init ==
    /\ Q!Init /\ M!Init /\ C!Init /\ F!Init
    /\ \/ subject \in {"queue", "pool", "config"} /\ input = Null /\ content = F!Missing
       \/ subject = "file" /\ input = Null
       \/ subject \in DOMAIN Functions /\ input \in Functions[subject] /\ content = F!Missing

QueueStep ==
    /\ subject = "queue" /\ Q!Next
    /\ UNCHANGED <<subject, poolVars, configVars, fileVars, input>>
PoolStep ==
    /\ subject = "pool" /\ M!Next
    /\ UNCHANGED <<subject, queueVars, configVars, fileVars, input>>
ConfigStep ==
    /\ subject = "config" /\ C!Next
    /\ UNCHANGED <<subject, queueVars, poolVars, fileVars, input>>
FileStep ==
    /\ subject = "file" /\ F!Next
    /\ UNCHANGED <<subject, queueVars, poolVars, configVars, input>>

\* A function has returned.
Returned == subject \in DOMAIN Functions /\ UNCHANGED allVars

Spec ==
    Init /\ [][QueueStep \/ PoolStep \/ ConfigStep \/ FileStep \/ Returned]_allVars
\* Memory has no order.
Symmetry == Permutations(Address) \cup Permutations(Block) \cup Permutations(User)
-----------------------------------------------------------------------------
\* What one half of a component writes, the other half reads back: the tree of
\* a configuration after any calls (Configor.tla), the pieces of a text, the
\* bits of a mask, encoded bytes, the arguments of a command line, encrypted
\* bytes. Stated in the module of each.
RoundTrips ==
    CASE subject = "config" -> C!RoundTrips
      [] subject = "text" -> Text!StringRoundTrips(input)
      [] subject = "ip" -> IP!AddressRoundTrips(input)
      [] subject = "codec" -> Codec!CodecRoundTrips(input)
      [] subject = "line" -> Line!LineRoundTrips(input)
      [] subject = "aes" -> Aes!AesRoundTrips(input)
      [] subject = "rsa" -> Rsa!RsaRoundTrips(input)
      [] subject = "path" -> Path!PathRoundTrips(input)
      [] subject = "link" -> Link!LinkRoundTrips(input)
      [] subject = "registry" -> Reg!RegistryRoundTrips(input)
      [] subject = "env" -> Env!EnvRoundTrips(input)
      [] subject = "time" -> Time!TimeRoundTrips(input)
      [] subject = "util" -> Util!UtilRoundTrips(input)
      [] OTHER -> TRUE

\* What a function computes step by step is what its definition says: the
\* padded blocks of a message however it is cut (Digests.tla), the places of a
\* text (StringUtil.tla), the order of versions and of addresses, the classes
\* of addresses, the bits of an encoding, the parts of a path, the known answers
\* of a cipher and of a digest; and a call on a file that threads share works at
\* its place, as it would alone. Stated in the module of each.
AgreesWithReference ==
    CASE subject = "digest" -> Digest!AgreesWithReference(input)
      [] subject = "text" -> Text!StringAgrees(input)
      [] subject = "version" -> Text!VersionAgrees(input)
      [] subject = "ip" -> IP!AddressAgrees(input)
      [] subject = "codec" -> Codec!CodecAgrees(input)
      [] subject = "aes" -> Aes!AesAgrees(input)
      [] subject = "path" -> Path!PathAgrees(input)
      [] subject = "transform" -> Transform!TransformAgrees(input)
      [] subject = "registry" -> Reg!RegistryAgrees(input)
      [] subject = "env" -> Env!EnvAgrees(input)
      [] subject = "time" -> Time!TimeAgrees(input)
      [] subject = "util" -> Util!UtilAgrees(input)
      [] subject = "file" -> F!AtItsPlace
      [] OTHER -> TRUE

\* Stated in Rsa.tla: what the test of the repository demands of every key.
KeysDecrypt == subject = "rsa" => Rsa!DecryptsAny(input)
=============================================================================
