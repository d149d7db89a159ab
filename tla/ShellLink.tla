------------------------------ MODULE ShellLink ------------------------------
(* ShellinkParser (shellink_parser.cpp): load reads a shortcut front to back, *)
(* byte by byte, into the fields of the parser; the getters choose between    *)
(* them. The shell's folders, item lists and icon locations are external.     *)
EXTENDS Integers, Sequences, SequencesExt, FiniteSetsExt

\* The texts of a shortcut, of one or two bytes a character.
StringName ==
    <<<<"nameA", "nameW">>, <<"pathA", "pathW">>, <<"dirA", "dirW">>, <<"argsA", "argsW">>,
      <<"iconA", "iconW">>>>

Fresh == [n \in {"size", "class", "flags", "times", "icon", "show", "ids", "info", "infoFlags",
                 "offsets", "offsetsW", "volume", "label", "labelW", "data", "base", "suffix",
                 "baseW", "suffixW", "netSize", "netFlags", "netOffset", "netRest", "netOffsetsW",
                 "net", "device", "netW", "deviceW", "block", "folder", "env", "envW", "iconEnv",
                 "iconEnvW", "length", "version", "rest", "count"}
                 \cup {StringName[k][w] : k \in 1..5, w \in 1..2} |-> <<>>]

\* Little endian; the fields that are read as numbers are below 2^24.
Number(bytes) ==
    FoldRight(LAMBDA b, n : 256 * n + b, SubSeq(bytes, 1, Min({3, Len(bytes)})), 0)
Bit(bytes, k) == (Number(bytes) \div 2^k) % 2 = 1
HasLinkTargetIDList(got) == Bit(got["flags"], 0)
HasLinkInfo(got) == Bit(got["flags"], 1)
HasString(got, k) == Bit(got["flags"], k + 1) \* name, relative path, directory, arguments, icon
IsUnicode(got) == Bit(got["flags"], 7)
ForceNoLinkInfo(got) == Bit(got["flags"], 8)
HasExpString(got) == Bit(got["flags"], 9)
HasExpIcon(got) == Bit(got["flags"], 14)
HasVolume(got) == Bit(got["infoFlags"], 0)
HasNet(got) == Bit(got["infoFlags"], 1)
WideInfo(got) == Number(got["info"]) >= 36
WideNet(got) == Number(got["netOffset"]) > 20
WideLabel(got) == Number(got["label"]) = 20

\* fread of a whole field: [got, at, err].
Take(r, file, name, width) ==
    IF r.err # "none" THEN r
    ELSE IF r.at + width > Len(file) THEN [r EXCEPT !.err = "FIO", !.at = Len(file)]
    ELSE [r EXCEPT !.got[name] = SubSeq(file, r.at + 1, r.at + width), !.at = @ + width]
TakeAll(r, file, fields) == FoldLeft(LAMBDA s, f : Take(s, file, f[1], f[2]), r, fields)
Skip(r, width) == IF r.err = "none" THEN [r EXCEPT !.at = @ + width] ELSE r
Require(r, ok, err) == IF r.err = "none" /\ ~ok THEN [r EXCEPT !.err = err] ELSE r

\* The characters, of one or two bytes, before the first zero.
Characters(bytes, unit) ==
    LET all == [i \in 1..(Len(bytes) \div unit) |->
                    IF unit = 1 THEN bytes[i] ELSE bytes[2 * i - 1] + 256 * bytes[2 * i]]
    IN  SubSeq(all, 1, Min({Len(all)} \cup {i - 1 : i \in {j \in DOMAIN all : all[j] = 0}}))

\* readNULLStr and readNULLWStr, to the zero.
readNULLStr(r, file, name, unit) ==
    IF r.err # "none" THEN r
    ELSE LET n == (Len(file) - Min({r.at, Len(file)})) \div unit
             zeros == {i \in 1..n : \A b \in 1..unit : file[r.at + unit * (i - 1) + b] = 0}
         IN  IF zeros = {} THEN [r EXCEPT !.err = "FIO", !.at = Len(file)]
             ELSE LET s == Take(r, file, name, unit * Min(zeros))
                  IN  [s EXCEPT !.got[name] = Characters(@, unit)]

\* readStr and readWStr of size bytes: none at all is an error.
readStr(r, file, name, unit, size) ==
    LET s == Take(Require(r, size \div unit # 0, "NULLP"), file, name, unit * (size \div unit))
    IN  IF s.err = "none" THEN [s EXCEPT !.got[name] = Characters(@, unit)] ELSE s

-----------------------------------------------------------------------------
\* load, section by section

ClassId == <<1, 20, 2, 0, 0, 0, 0, 0, 192, 0, 0, 0, 0, 0, 0, 70>>

HasSize(r) == Require(r, Number(r.got["size"]) = 76, "WHEADS")
HasClass(r) == Require(r, r.got["class"] = ClassId, "WCLSIDS")
ReadHeader(r, file) ==
    Skip(TakeAll(HasClass(Take(HasSize(Take(r, file, "size", 4)), file, "class", 16)), file,
                 <<<<"flags", 4>>, <<"times", 32>>, <<"icon", 4>>, <<"show", 6>>>>), 10)

\* What is missing of the list is zero: the fread is not tested.
ItemsOf(r, file, name, n, there) ==
    [r EXCEPT !.got[name] = SubSeq(file, r.at + 1, r.at + there) \o [i \in 1..(n - there) |-> 0],
              !.at = @ + there]
Items(r, file, name, n) ==
    IF r.err # "none" THEN r
    ELSE ItemsOf(r, file, name, n, Min({n, Len(file) - Min({r.at, Len(file)})}))
Counted(r, file, name) == Items(r, file, name, Number(r.got["count"]))
ReadIDList(r, file, name) == Counted(Take(r, file, "count", 2), file, name)

VolumeData(r, file, head, unit) ==
    LET size == Number(r.got["volume"]) IN
    Take(Require(r, size > head, "VIDSLOW"), file, "data", unit * ((size - head) \div unit))
VolumeLabel(r, file) ==
    IF WideLabel(r.got) THEN VolumeData(Take(r, file, "labelW", 4), file, 20, 2)
    ELSE VolumeData(r, file, 16, 1)
ReadVolume(r, file) ==
    readNULLStr(
        VolumeLabel(TakeAll(r, file, <<<<"volume", 4>>, <<"rest", 8>>, <<"label", 4>>>>), file),
        file, "base", 1)

readNULLStrs(r, file, names, unit) ==
    FoldLeft(LAMBDA s, n : readNULLStr(s, file, n, unit), r, names)
NetNames(r, file) ==
    IF WideNet(r.got)
    THEN readNULLStrs(readNULLStrs(Take(r, file, "netOffsetsW", 8), file, <<"net", "device">>, 1),
                      file, <<"netW", "deviceW">>, 2)
    ELSE readNULLStrs(r, file, <<"net", "device">>, 1)
ReadNet(r, file) ==
    NetNames(TakeAll(r, file, <<<<"netSize", 4>>, <<"netFlags", 4>>, <<"netOffset", 4>>, <<"netRest", 8>>>>),
             file)

\* The sections are read one after the other: no offset is followed.
InfoHeader(r, file) ==
    TakeAll(Require(r, Number(r.got["info"]) = 28 \/ WideInfo(r.got), "INVLIHS"),
            file, <<<<"infoFlags", 4>>, <<"offsets", 16>>>>)
InfoPart(r, file, part) ==
    CASE part = "header" -> InfoHeader(TakeAll(r, file, <<<<"rest", 4>>, <<"info", 4>>>>), file)
      [] part = "offsets" -> IF WideInfo(r.got) THEN Take(r, file, "offsetsW", 8) ELSE r
      [] part = "volume" -> IF HasVolume(r.got) THEN ReadVolume(r, file) ELSE r
      [] part = "net" -> IF HasNet(r.got) THEN ReadNet(r, file) ELSE r
      [] part = "suffix" -> readNULLStr(r, file, "suffix", 1)
      [] part = "baseW" ->
            IF WideInfo(r.got) /\ HasVolume(r.got) THEN readNULLStr(r, file, "baseW", 2) ELSE r
      [] part = "suffixW" -> IF WideInfo(r.got) THEN readNULLStr(r, file, "suffixW", 2) ELSE r
ReadLinkInfo(r, file) ==
    FoldLeft(LAMBDA s, part : InfoPart(s, file, part), r,
             <<"header", "offsets", "volume", "net", "suffix", "baseW", "suffixW">>)

CountedString(r, file, k, n) ==
    IF IsUnicode(r.got) THEN readStr(r, file, StringName[k][2], 2, 2 * n)
    ELSE readStr(r, file, StringName[k][1], 1, n)
StringData(r, file, k) == CountedString(r, file, k, Number(r.got["count"]))
ReadString(r, file, k) ==
    IF r.err # "none" \/ ~HasString(r.got, k) THEN r ELSE StringData(Take(r, file, "count", 2), file, k)

\* The last four bytes of the file are taken for the block that ends it.
BlockSize ==
    [console |-> 204, consoleFE |-> 12, darwin |-> 788, env |-> 788, iconEnv |-> 788,
     knownFolder |-> 28, folder |-> 16, tracker |-> 96]
Signature(b) ==
    CASE b = 1 -> "env" [] b = 2 -> "console" [] b = 3 -> "tracker" [] b = 4 -> "consoleFE"
      [] b = 5 -> "folder" [] b = 6 -> "darwin" [] b = 7 -> "iconEnv" [] b = 8 -> "shim"
      [] b = 9 -> "properties" [] b = 11 -> "knownFolder" [] b = 12 -> "vista" [] OTHER -> "none"

ReadConsole(r, file) ==
    TakeAll(readStr(Take(Skip(Take(r, file, "rest", 16), 8), file, "rest", 12), file, "rest", 2, 32),
            file, <<<<"rest", 32>>, <<"rest", 4>>, <<"rest", 64>>>>)

HasLength(r) == Require(r, Number(r.got["length"]) = 88, "WRONGSIZE")
HasVersion(r) == Require(r, Number(r.got["version"]) = 0, "WRONGVERSION")
ReadTracker(r, file) ==
    FoldLeft(LAMBDA s, n : readStr(s, file, "rest", 1, n),
             HasVersion(Take(HasLength(Take(r, file, "length", 4)), file, "version", 4)),
             <<16, 32, 32>>)

ReadTexts(r, file, ansi, wide) ==
    readStr(readStr(r, file, ansi, 1, 260), file, wide, 2, 520)

KindOf(got) ==
    IF SubSeq(got["block"], 2, 4) = <<0, 0, 160>> THEN Signature(got["block"][1]) ELSE "none"
SizeFits(kind, n) ==
    IF kind \in DOMAIN BlockSize THEN n = BlockSize[kind]
    ELSE n >= CASE kind = "properties" -> 12 [] kind = "shim" -> 136 [] kind = "vista" -> 10
                [] OTHER -> 0
BlockBody(s, file, kind, n) ==
    CASE kind = "console" -> ReadConsole(s, file)
      [] kind = "consoleFE" -> Take(s, file, "rest", 4)
      [] kind = "darwin" -> ReadTexts(s, file, "rest", "rest")
      [] kind = "env" -> ReadTexts(s, file, "env", "envW")
      [] kind = "iconEnv" -> ReadTexts(s, file, "iconEnv", "iconEnvW")
      [] kind = "knownFolder" -> Take(readStr(s, file, "rest", 1, 16), file, "rest", 4)
      [] kind = "properties" -> readStr(s, file, "rest", 1, n - 8)
      [] kind = "shim" -> readStr(s, file, "rest", 2, n - 8)
      [] kind = "folder" -> TakeAll(s, file, <<<<"folder", 4>>, <<"rest", 4>>>>)
      [] kind = "tracker" -> ReadTracker(s, file)
      [] kind = "vista" -> ReadIDList(s, file, "rest")
      [] OTHER -> [s EXCEPT !.err = "UNKEDBSIG"]
SizedBlock(r, file, kind, n) ==
    IF r.err # "none" THEN r
    ELSE BlockBody(Require(r, SizeFits(kind, n), "WRONGSIZE"), file, kind, n)
StartedBlock(r, file) == SizedBlock(r, file, KindOf(r.got), Number(r.got["count"]))
ReadBlock(r, file) == StartedBlock(TakeAll(r, file, <<<<"count", 4>>, <<"block", 4>>>>), file)

RECURSIVE ReadBlocks(_, _, _)
ReadBlocks(r, file, n) ==
    IF n = 0 \/ r.err # "none" \/ r.at >= Len(file) - 4 THEN r
    ELSE ReadBlocks(ReadBlock(r, file), file, n - 1)

LoadPart(r, file, part) ==
    CASE part = "header" -> ReadHeader(r, file)
      [] part = "ids" ->
            IF r.err = "none" /\ HasLinkTargetIDList(r.got) THEN ReadIDList(r, file, "ids") ELSE r
      [] part = "info" -> IF r.err = "none" /\ HasLinkInfo(r.got) THEN ReadLinkInfo(r, file) ELSE r
      [] part = "strings" -> FoldLeft(LAMBDA s, k : ReadString(s, file, k), r, <<1, 2, 3, 4, 5>>)
      [] part = "blocks" -> ReadBlocks(r, file, 11)

\* A parser that has loaded before keeps what the new file does not have.
Load(got, file) ==
    FoldLeft(LAMBDA r, part : LoadPart(r, file, part), [got |-> got, at |-> 0, err |-> "none"],
             <<"header", "ids", "info", "strings", "blocks">>)

-----------------------------------------------------------------------------
\* The getters

StringOf(got, k) == IF HasString(got, k) THEN got[StringName[k][IF IsUnicode(got) THEN 2 ELSE 1]] ELSE <<>>
FirstOf(texts) ==
    LET full == {i \in DOMAIN texts : texts[i] # <<>>} IN IF full = {} THEN <<>> ELSE texts[Min(full)]

InfoPath(got) ==
    IF ~HasLinkInfo(got) \/ ForceNoLinkInfo(got) THEN <<>>
    ELSE IF HasVolume(got)
    THEN IF WideInfo(got) THEN got["baseW"] \o got["suffixW"] ELSE got["base"] \o got["suffix"]
    ELSE IF ~HasNet(got) THEN <<>>
    ELSE IF Bit(got["netFlags"], 0) THEN IF WideNet(got) THEN got["deviceW"] ELSE got["device"]
    ELSE IF Bit(got["netFlags"], 1) THEN IF WideNet(got) THEN got["netW"] ELSE got["net"]
    ELSE <<>>

\* External: where a special folder is, and the path of a list of items.
FolderPath(folder) == IF Number(folder) = 0 THEN <<>> ELSE <<70, Number(folder)>>
ItemPath(ids) == IF ids = <<>> THEN <<>> ELSE Characters(ids, 1)

getTargetPath(got) ==
    FirstOf(<<InfoPath(got), FolderPath(got["folder"]),
              IF HasLinkTargetIDList(got) THEN ItemPath(got["ids"]) ELSE <<>>,
              IF HasExpString(got) THEN FirstOf(<<got["envW"], got["env"]>>) ELSE <<>>>>)

\* PathParseIconLocation (external): a digit after the last comma.
IconLocation(text) ==
    IF Len(text) > 1 /\ text[Len(text) - 1] = 44
    THEN [path |-> SubSeq(text, 1, Len(text) - 2), index |-> text[Len(text)] - 48]
    ELSE [path |-> text, index |-> 0]
getIconPath(got) ==
    IconLocation(FirstOf(<<StringOf(got, 5),
        IF HasExpIcon(got) THEN FirstOf(<<got["iconEnvW"], got["iconEnv"]>>) ELSE <<>>>>))
getIconIndex(got) ==
    IF Number(got["icon"]) # 0 THEN Number(got["icon"]) ELSE getIconPath(got).index

\* layers: what HKEY_CURRENT_USER has of the programs that were given one.
isRunAsAdmin(got, layers) ==
    getTargetPath(got) # <<>> /\ <<getTargetPath(got), "~ RUNASADMIN">> \in layers
-----------------------------------------------------------------------------
\* A shortcut as the shell writes it (external; the comments of
\* shellink_parser.h tell the format).

LOCAL Bytes(n, width) == [i \in 1..width |-> (n \div 256^(i - 1)) % 256]
LOCAL Zeros(n) == [i \in 1..n |-> 0]
LOCAL Wide(text) == FlattenSeq([i \in DOMAIN text |-> <<text[i], 0>>])
LOCAL Padded(text, n) == text \o Zeros(n - Len(text))
LOCAL Flag(b, k) == IF b THEN 2^k ELSE 0

LOCAL BlockOf(kind) ==
    LET body == CASE kind = "env" -> Padded(<<101>>, 260) \o Padded(Wide(<<101>>), 520)
                  [] kind = "iconEnv" -> Padded(<<105, 44, 50>>, 260) \o Zeros(520)
                  [] kind = "folder" -> Bytes(9, 4) \o Zeros(4)
                  [] kind = "tracker" -> Bytes(88, 4) \o Zeros(84)
                  [] kind = "shim" -> Padded(Wide(<<115>>), 128)
                  [] kind = "properties" -> <<7, 7, 7, 7, 0>>
                  [] kind = "vista" -> Bytes(4, 2) \o <<118, 0, 0, 0>>
                  [] OTHER -> Zeros(BlockSize[kind] - 8)
        id == CHOOSE b \in 1..12 : Signature(b) = kind
    IN  Bytes(Len(body) + 8, 4) \o <<id, 0, 0, 160>> \o body

LOCAL InfoOf(d) ==
    LET head == IF d.wide THEN 36 ELSE 28
        label == IF d.wide THEN Bytes(24, 4) \o Zeros(8) \o Bytes(20, 4) \o Bytes(20, 4) \o <<76, 0, 0, 0>>
                 ELSE Bytes(18, 4) \o Zeros(8) \o Bytes(16, 4) \o <<76, 0>>
        net == Bytes(0, 4) \o Bytes(Flag(d.device, 0) + 2, 4) \o Bytes(IF d.wide THEN 28 ELSE 20, 4)
                 \o Zeros(8) \o (IF d.wide THEN Zeros(8) ELSE <<>>) \o <<110, 0, 100, 0>>
                 \o (IF d.wide THEN Wide(<<110, 0, 100, 0>>) ELSE <<>>)
    IN  Bytes(0, 4) \o Bytes(head, 4) \o Bytes(IF d.info = "local" THEN 1 ELSE 2, 4)
        \o Zeros(head - 12) \o (IF d.info = "local" THEN label \o <<98, 0>> ELSE net) \o <<115, 0>>
        \o (IF d.wide THEN (IF d.info = "local" THEN Wide(<<98, 0>>) ELSE <<>>) \o Wide(<<115, 0>>)
            ELSE <<>>)

LOCAL TextOf(k) == IF k = 5 THEN <<120, 44, 51>> ELSE <<96 + k, 96 + k>>
Written(d) ==
    Bytes(76, 4) \o ClassId
    \o Bytes(Flag(d.ids, 0) + Flag(d.info # "none", 1) + MapThenSumSet(LAMBDA k : 2^(k + 1), d.strings)
             + Flag(d.unicode, 7) + Flag("env" \in d.blocks, 9) + Flag("iconEnv" \in d.blocks, 14), 4)
    \o Zeros(32) \o Bytes(d.icon, 4) \o Zeros(16)
    \o (IF d.ids THEN Bytes(4, 2) \o <<105, 100, 0, 0>> ELSE <<>>)
    \o (IF d.info # "none" THEN InfoOf(d) ELSE <<>>)
    \o FlattenSeq([k \in 1..5 |->
            IF k \notin d.strings THEN <<>>
            ELSE Bytes(Len(TextOf(k)), 2) \o IF d.unicode THEN Wide(TextOf(k)) ELSE TextOf(k)])
    \o FlattenSeq([i \in 1..12 |-> IF Signature(i) \in d.blocks THEN BlockOf(Signature(i)) ELSE <<>>])
    \o Zeros(4)

LinkInputs ==
    {d \in [ids : BOOLEAN, info : {"none", "local", "net"}, wide : BOOLEAN,
          device : BOOLEAN, strings : {{}, {1, 4}, {3, 5}, 1..5}, unicode : BOOLEAN, icon : {0, 7},
          blocks : {{}, {"env"}, {"folder", "env"}, {"iconEnv", "tracker", "shim", "vista"},
                    {"properties", "knownFolder", "darwin", "consoleFE"}, {"console"}}] :
        (d.info # "net" => ~d.device) /\ (d.info = "none" => ~d.wide)}

LOCAL TextsTold(d, got) ==
    \A k \in 1..4 : StringOf(got, k) = IF k \in d.strings THEN TextOf(k) ELSE <<>>
LOCAL Told(d, file, r, again) ==
    LET info == CASE d.info = "none" -> <<>> [] d.info = "local" -> <<98, 115>>
                  [] d.info = "net" -> IF d.device THEN <<100>> ELSE <<110>>
        folder == IF "folder" \in d.blocks THEN <<70, 9>> ELSE <<>>
        rest == <<IF d.ids THEN <<105, 100>> ELSE <<>>, IF "env" \in d.blocks THEN <<101>> ELSE <<>>>>
        target == FirstOf(<<info, folder>> \o rest)
        location == IF 5 \in d.strings THEN [path |-> <<120>>, index |-> 3]
                    ELSE IF "iconEnv" \in d.blocks THEN [path |-> <<105>>, index |-> 2]
                    ELSE [path |-> <<>>, index |-> 0]
    IN  /\ r.err = "none" /\ r.at = Len(file) - 4
        /\ getTargetPath(r.got) = target
        /\ isRunAsAdmin(r.got, {<<target, "~ RUNASADMIN">>}) <=> target # <<>>
        /\ TextsTold(d, r.got)
        /\ getIconPath(r.got) = location
        /\ getIconIndex(r.got) = IF d.icon # 0 THEN d.icon ELSE location.index
        /\ again.err = "none"
        /\ info # <<>> \/ folder # <<>> => getTargetPath(again.got) = target
        /\ \A k \in 1..5 : StringOf(again.got, k) = StringOf(r.got, k)
LOCAL ToldOf(d, file, other) == Told(d, file, Load(Fresh, file), Load(other.got, file))
LOCAL CutIsRefused(d, file) ==
    \A n \in {0, 3, 40, 75, Len(file) - 6} :
        n < Len(file) - 4 /\ (d.info # "none" \/ d.strings # {} \/ n < 76 - 10) =>
            Load(Fresh, SubSeq(file, 1, n)).err = "FIO"

\* What is written is read back: the path, the texts and the icon. Of a shortcut
\* with the properties of a console it is the texts alone, which come before its
\* blocks. A shortcut that is cut before its blocks is refused. A second load
\* tells of the texts what a first one would, and of the path too where it comes
\* from the link information or from a special folder of the second file.
LinkRoundTrips(d) ==
    IF "console" \in d.blocks
    THEN TextsTold(d, Load(Fresh, Written(d)).got)
    ELSE /\ ToldOf(d, Written(d),
                  Load(Fresh, Written([d EXCEPT !.blocks = {"folder"}, !.info = "none", !.strings = 1..5])))
         /\ d.blocks = {} => CutIsRefused(d, Written(d))
=============================================================================
