---------------------------- MODULE PacketTables ----------------------------
(***************************************************************************)
(* The packet tables of every protocol version in src/protocol/versions:   *)
(* the packets of a state and a direction, line by line, each with the id  *)
(* that stands on its line.  The packets of the status, login and config   *)
(* states have their names (those of v773.rs where a version spells one    *)
(* otherwise); of the play state's only the ids are kept.                  *)
(***************************************************************************)
EXTENDS Integers, Sequences

Both(clientbound, serverbound) ==
    [clientbound |-> clientbound, serverbound |-> serverbound]

\* A table whose second line repeats the id of its first.
StatusTwice == Both(
    <<<<0, "StatusResponse">>, <<0, "Pong">>>>,
    <<<<0, "StatusRequest">>, <<1, "Ping">>>>)
Status == Both(
    <<<<0, "StatusResponse">>, <<1, "Pong">>>>,
    <<<<0, "StatusRequest">>, <<1, "Ping">>>>)

Login4 == Both(
    <<<<0, "Disconnect">>, <<1, "EncryptionRequest">>, <<2, "LoginSuccess">>>>,
    <<<<0, "LoginStart">>, <<1, "EncryptionResponse">>>>)

Login47 == Both(
    <<<<0, "Disconnect">>, <<1, "EncryptionRequest">>, <<2, "LoginSuccess">>,
      <<3, "SetCompression">>>>,
    <<<<0, "LoginStart">>, <<1, "EncryptionResponse">>>>)

Login401 == Both(
    <<<<0, "Disconnect">>, <<1, "EncryptionRequest">>, <<2, "LoginSuccess">>,
      <<3, "SetCompression">>, <<4, "PluginRequest">>>>,
    <<<<0, "LoginStart">>, <<1, "EncryptionResponse">>, <<2, "PluginResponse">>>>)

Login764 == Both(
    <<<<0, "Disconnect">>, <<1, "EncryptionRequest">>, <<2, "LoginSuccess">>,
      <<3, "SetCompression">>, <<4, "PluginRequest">>>>,
    <<<<0, "LoginStart">>, <<1, "EncryptionResponse">>, <<2, "PluginResponse">>,
      <<3, "LoginAcknowledge">>>>)

Login766 == Both(
    <<<<0, "Disconnect">>, <<1, "EncryptionRequest">>, <<2, "LoginSuccess">>,
      <<3, "SetCompression">>, <<4, "PluginRequest">>, <<5, "CookieRequest">>>>,
    <<<<0, "LoginStart">>, <<1, "EncryptionResponse">>, <<2, "PluginResponse">>,
      <<3, "LoginAcknowledge">>, <<4, "CookieResponse">>>>)

NoConfig == Both(<<>>, <<>>)

Config764 == Both(
    <<<<0, "Plugin">>, <<1, "Disconnect">>, <<2, "Finish">>, <<3, "KeepAlive">>,
      <<4, "Ping">>, <<5, "RegistryData">>, <<6, "AddResourcePack">>,
      <<7, "FeatureFlags">>, <<8, "UpdateTags">>>>,
    <<<<0, "ClientInformation">>, <<1, "Plugin">>, <<2, "FinishAcknowledge">>,
      <<3, "KeepAlive">>, <<4, "Pong">>, <<5, "ResourcePackResponse">>>>)

Config765 == Both(
    <<<<0, "Plugin">>, <<1, "Disconnect">>, <<2, "Finish">>, <<3, "KeepAlive">>,
      <<4, "Ping">>, <<5, "RegistryData">>, <<6, "RemoveResourcePack">>,
      <<7, "AddResourcePack">>, <<8, "FeatureFlags">>, <<9, "UpdateTags">>>>,
    <<<<0, "ClientInformation">>, <<1, "Plugin">>, <<2, "FinishAcknowledge">>,
      <<3, "KeepAlive">>, <<4, "Pong">>, <<5, "ResourcePackResponse">>>>)

Config766 == Both(
    <<<<0, "CookieRequest">>, <<1, "Plugin">>, <<2, "Disconnect">>, <<3, "Finish">>,
      <<4, "KeepAlive">>, <<5, "Ping">>, <<6, "ResetChat">>, <<7, "RegistryData">>,
      <<8, "RemoveResourcePack">>, <<9, "AddResourcePack">>, <<10, "StoreCookie">>,
      <<11, "Transfer">>, <<12, "FeatureFlags">>, <<13, "UpdateTags">>,
      <<14, "KnownPacks">>>>,
    <<<<0, "ClientInformation">>, <<1, "CookieResponse">>, <<2, "Plugin">>,
      <<3, "FinishAcknowledge">>, <<4, "KeepAlive">>, <<5, "Pong">>,
      <<6, "ResourcePackResponse">>, <<7, "KnownPacks">>>>)

Config767 == Both(
    <<<<0, "CookieRequest">>, <<1, "Plugin">>, <<2, "Disconnect">>, <<3, "Finish">>,
      <<4, "KeepAlive">>, <<5, "Ping">>, <<6, "ResetChat">>, <<7, "RegistryData">>,
      <<8, "RemoveResourcePack">>, <<9, "AddResourcePack">>, <<10, "StoreCookie">>,
      <<11, "Transfer">>, <<12, "FeatureFlags">>, <<13, "UpdateTags">>,
      <<14, "KnownPacks">>, <<15, "CustomReport">>, <<16, "ServerLinks">>>>,
    <<<<0, "ClientInformation">>, <<1, "CookieResponse">>, <<2, "Plugin">>,
      <<3, "FinishAcknowledge">>, <<4, "KeepAlive">>, <<5, "Pong">>,
      <<6, "ResourcePackResponse">>, <<7, "KnownPacks">>>>)

Config771 == Both(
    <<<<0, "CookieRequest">>, <<1, "Plugin">>, <<2, "Disconnect">>, <<3, "Finish">>,
      <<4, "KeepAlive">>, <<5, "Ping">>, <<6, "ResetChat">>, <<7, "RegistryData">>,
      <<8, "RemoveResourcePack">>, <<9, "AddResourcePack">>, <<10, "StoreCookie">>,
      <<11, "Transfer">>, <<12, "FeatureFlags">>, <<13, "UpdateTags">>,
      <<14, "KnownPacks">>, <<15, "CustomReport">>, <<16, "ServerLinks">>,
      <<17, "ClearDialog">>, <<18, "ShowDialog">>>>,
    <<<<0, "ClientInformation">>, <<1, "CookieResponse">>, <<2, "Plugin">>,
      <<3, "FinishAcknowledge">>, <<4, "KeepAlive">>, <<5, "Pong">>,
      <<6, "ResourcePackResponse">>, <<7, "KnownPacks">>, <<8, "CustomClick">>>>)

Config773 == Both(
    <<<<0, "CookieRequest">>, <<1, "Plugin">>, <<2, "Disconnect">>, <<3, "Finish">>,
      <<4, "KeepAlive">>, <<5, "Ping">>, <<6, "ResetChat">>, <<7, "RegistryData">>,
      <<8, "RemoveResourcePack">>, <<9, "AddResourcePack">>, <<10, "StoreCookie">>,
      <<11, "Transfer">>, <<12, "FeatureFlags">>, <<13, "UpdateTags">>,
      <<14, "KnownPacks">>, <<15, "CustomReport">>, <<16, "ServerLinks">>,
      <<17, "ClearDialog">>, <<18, "ShowDialog">>, <<19, "CodeOfConduct">>>>,
    <<<<0, "ClientInformation">>, <<1, "CookieResponse">>, <<2, "Plugin">>,
      <<3, "FinishAcknowledge">>, <<4, "KeepAlive">>, <<5, "Pong">>,
      <<6, "ResourcePackResponse">>, <<7, "KnownPacks">>, <<8, "CustomClick">>>>)

\* The play tables, 0x00 => ..., 0x01 => ... to the last: no id of theirs is
\* left out, none stands twice.
UpTo(last) == [n \in 1..(last + 1) |-> n - 1]

\* The tables of a version: the lines of the named ones, the ids of play's.
Version(login, config, clientbound, serverbound) ==
    [named |-> [status |-> Status, login |-> login, config |-> config],
     play |-> Both(clientbound, serverbound)]

V4 == Version(Login4, NoConfig, UpTo(65), UpTo(23))
V5 == Version(Login4, NoConfig, UpTo(65), UpTo(23))
V47 == Version(Login47, NoConfig, UpTo(73), UpTo(25))
V107 == Version(Login47, NoConfig, UpTo(76), UpTo(29))
V108 == Version(Login47, NoConfig, UpTo(76), UpTo(29))
V109 == Version(Login47, NoConfig, UpTo(76), UpTo(29))
V110 == Version(Login47, NoConfig, UpTo(75), UpTo(29))
V210 == Version(Login47, NoConfig, UpTo(75), UpTo(29))
V315 == Version(Login47, NoConfig, UpTo(75), UpTo(29))
V316 == Version(Login47, NoConfig, UpTo(75), UpTo(29))
V335 == Version(Login47, NoConfig, UpTo(78), UpTo(32))
V338 == Version(Login47, NoConfig, UpTo(79), UpTo(32))
V340 == Version(Login47, NoConfig, UpTo(79), UpTo(32))
V401 == Version(Login401, NoConfig, UpTo(85), UpTo(42))
V404 == Version(Login401, NoConfig, UpTo(85), UpTo(42))
V498 == Version(Login401, NoConfig, UpTo(92), UpTo(45))
V578 == Version(Login401, NoConfig, UpTo(92), UpTo(45))
V753 == Version(Login401, NoConfig, UpTo(91), UpTo(47))
V754 == Version(Login401, NoConfig, UpTo(91), UpTo(47))
V755 == Version(Login401, NoConfig, UpTo(102), UpTo(47))
V756 == Version(Login401, NoConfig, UpTo(102), UpTo(47))
V757 == Version(Login401, NoConfig, UpTo(103), UpTo(47))
V758 == Version(Login401, NoConfig, UpTo(103), UpTo(47))
V759 == Version(Login401, NoConfig, UpTo(104), UpTo(49))
V760 == Version(Login401, NoConfig, UpTo(107), UpTo(50))
V761 == Version(Login401, NoConfig, UpTo(106), UpTo(50))
V762 == Version(Login401, NoConfig, UpTo(110), UpTo(50))
V763 == Version(Login401, NoConfig, UpTo(110), UpTo(50))
V764 == Version(Login764, Config764, UpTo(112), UpTo(53))
V765 == Version(Login764, Config765, UpTo(116), UpTo(54))
V766 == Version(Login766, Config766, UpTo(121), UpTo(57))
V767 == Version(Login766, Config767, UpTo(123), UpTo(57))
V769 == Version(Login766, Config767, UpTo(130), UpTo(61))
V770 == Version(Login766, Config767, UpTo(130), UpTo(63))
V771 == Version(Login766, Config771, UpTo(133), UpTo(65))
V772 == Version(Login766, Config771, UpTo(133), UpTo(65))
V773 == Version(Login766, Config773, UpTo(138), UpTo(65))
V774 == Version(Login766, Config773, UpTo(138), UpTo(65))

AllVersions ==
    {4, 5, 47, 107, 108, 109, 110, 210, 315, 316, 335, 338, 340, 401, 404,
     498, 578, 753, 754, 755, 756, 757, 758, 759, 760, 761, 762, 763, 764,
     765, 766, 767, 769, 770, 771, 772, 773, 774}

Tables ==
    [v \in AllVersions |->
        CASE v = 4 -> V4 [] v = 5 -> V5 [] v = 47 -> V47 [] v = 107 -> V107
          [] v = 108 -> V108 [] v = 109 -> V109 [] v = 110 -> V110
          [] v = 210 -> V210 [] v = 315 -> V315 [] v = 316 -> V316
          [] v = 335 -> V335 [] v = 338 -> V338 [] v = 340 -> V340
          [] v = 401 -> V401 [] v = 404 -> V404 [] v = 498 -> V498
          [] v = 578 -> V578 [] v = 753 -> V753 [] v = 754 -> V754
          [] v = 755 -> V755 [] v = 756 -> V756 [] v = 757 -> V757
          [] v = 758 -> V758 [] v = 759 -> V759 [] v = 760 -> V760
          [] v = 761 -> V761 [] v = 762 -> V762 [] v = 763 -> V763
          [] v = 764 -> V764 [] v = 765 -> V765 [] v = 766 -> V766
          [] v = 767 -> V767 [] v = 769 -> V769 [] v = 770 -> V770
          [] v = 771 -> V771 [] v = 772 -> V772 [] v = 773 -> V773
          [] v = 774 -> V774]
Table(v) == Tables[v]

\* The ids of a table's lines.
IdsOf(lines) == [n \in 1..Len(lines) |-> lines[n][1]]
AllIds ==
    [v \in AllVersions |->
        [state \in {"status", "login", "config", "play"} |->
            [bound \in {"clientbound", "serverbound"} |->
                IF state = "play" THEN Table(v).play[bound]
                ELSE IdsOf(Table(v).named[state][bound])]]]

Listed(ids, id) == \E n \in DOMAIN ids : ids[n] = id

\* designator_from_id by name: the first arm of the match that has the id.
NameIn(lines, id) ==
    LET arms == {n \in 1..Len(lines) : lines[n][1] = id} IN
        IF arms = {} THEN "unknown" ELSE lines[CHOOSE n \in arms : \A m \in arms : n <= m][2]
NameOfNext(v, state, bound, id) == NameIn(Table(v).named[state][bound], id + 1)
Name(v, state, bound, id) == NameIn(Table(v).named[state][bound], id)

\* id of a packet type.
IdOf(v, state, bound, name) ==
    LET lines == Table(v).named[state][bound] IN
        lines[CHOOSE n \in 1..Len(lines) : lines[n][2] = name][1]
=============================================================================
