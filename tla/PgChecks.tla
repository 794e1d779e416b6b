------------------------------ MODULE PgChecks ------------------------------
(***************************************************************************)
(* The catalogue of PostgreSQL checks: which number a check starts with,   *)
(* which answers of the database or the shell it passes, and which checks  *)
(* each major version runs.  Texts are left out; a number is the sequence  *)
(* of its parts, "4.3" is <<4, 3>>.                                        *)
(***************************************************************************)
EXTENDS Integers, Sequences, SequencesExt

Versions == 13 .. 17

(* What the last probe of a check (a query or a shell command) can come    *)
(* back with: it could not be run at all, it ended with an error and a     *)
(* message, it found nothing, what the benchmark asks for, or a violation. *)
Answers == {"down", "refused", "none", "good", "bad"}

\* A check that decides: Pass on these answers, Fail and a reason on the others.
Judged(number, passes) ==
    [number |-> number, later |-> number, manual |-> FALSE, passes |-> passes]

\* A check that lists what it found for a person to judge.  It starts with the
\* status Manual, and its code sets no other but Fail, when a probe is down.
\* Some give themselves another number when they run on 15 or 16.
ManualAs(number, later) ==
    [number |-> number, later |-> later, manual |-> TRUE,
     passes |-> {"none", "good", "bad"}]
Manual(number) == ManualAs(number, number)

-----------------------------------------------------------------------------
(* 1 Installation.                                                         *)

SystemdServiceFilesOld == Judged(<<1, 3>>, {"good"})
SystemdServiceFiles    == Judged(<<1, 2>>, {"good"})

\* The command that looks at the data directory has to end with an error.
DataCluster == Judged(<<1, 3>>, {"refused"})

\* 17 has no command to look at the data directory with.
DataClusterUnknown == Judged(<<1, 3>>, {})

\* grep ends with an error when it finds nothing.
PGPasswordProfiles == Judged(<<1, 6>>, {"refused", "none"})
PGPasswordEnvVar   == Judged(<<1, 7>>, {"none"})

(* 2 Directory and file permissions.                                       *)

Umask          == Judged(<<2, 1>>, {"good"})
ExtensionDir13 == Judged(<<2, 2>>, {"good"})
ExtensionDir14 == Judged(<<2, 2>>, {"good"})
CommandHistory == Judged(<<2, 3>>, {"none", "good"})

(* 4 User access and authorization.                                        *)

FunctionPrivileges == Judged(<<4, 3>>, {"none"})
SetUser            == Judged(<<4, 6>>, {"good"})
PrivilegedAccess   == ManualAs(<<4, 3>>, <<4, 2>>)
LockoutInactive    == Manual(<<4, 4>>)
DMLPrivileges      == ManualAs(<<4, 6>>, <<4, 4>>)
RowLevelSecurity   == ManualAs(<<4, 7>>, <<4, 5>>)
PredefinedRoles    == ManualAs(<<4, 9>>, <<4, 7>>)

(* 5 Connection and login.                                                 *)

ConnectionLimits   == Judged(<<5, 5>>, {"none"})
PasswordInCommand  == Manual(<<5, 1>>)
IPBound            == Manual(<<5, 2>>)
LocalSocketLogin   == ManualAs(<<5, 3>>, <<5, 1>>)
HostSocketLogin    == ManualAs(<<5, 4>>, <<5, 2>>)
PasswordComplexity == ManualAs(<<5, 6>>, <<5, 3>>)

(* 6 PostgreSQL settings.                                                  *)

BackendParams    == Judged(<<6, 2>>, {"good"})
FIPS             == Judged(<<6, 7>>, {"good"})
SSL              == Judged(<<6, 8>>, {"none", "good"})
TLSVersions      == Judged(<<6, 9>>, {"good"})
SSLCiphers       == Judged(<<6, 10>>, {"good"})
PGCrypto         == Judged(<<6, 9>>, {"good"})
PostmasterParams == Manual(<<6, 3>>)
SighupParams     == Manual(<<6, 4>>)
SuperuserParams  == Manual(<<6, 5>>)
UserParams       == Manual(<<6, 6>>)

(* 7 Replication.  8 Special configuration.                                *)

ArchiveMode         == Judged(<<7, 4>>, {"good"})
ReplicationUser     == Manual(<<7, 1>>)
ReplicationLogging  == Manual(<<7, 2>>)
BaseBackup          == Manual(<<7, 3>>)
StreamingParams     == Manual(<<7, 5>>)
PgBackRest          == Judged(<<8, 2>>, {"good"})
Subdirectories      == Manual(<<8, 1>>)
MiscellaneousParams == Manual(<<8, 3>>)

-----------------------------------------------------------------------------
(* Which checks a version runs, by name and in order.                      *)

InstallationChecks(v) ==
    IF v \in {13, 14}
    THEN <<"systemd", "dataCluster", "pgPasswordProfiles", "pgPasswordEnvVar">>
    ELSE <<"systemd", "dataCluster">>

PermissionsChecks(v) ==
    IF v \in {13, 14} THEN <<"umask", "extensionDir", "commandHistory">>
                      ELSE <<"umask">>

AuthChecks(v) ==
    <<"privilegedAccess">>
    \o (IF v \in {13, 14} THEN <<"lockoutInactive">> ELSE <<>>)
    \o <<"functionPrivileges", "dmlPrivileges", "rowLevelSecurity", "setUser",
         "predefinedRoles">>

ConnectionChecks(v) ==
    IF v \in {13, 14}
    THEN <<"passwordInCommand", "ipBound", "localSocketLogin", "hostSocketLogin",
           "connectionLimits", "passwordComplexity">>
    ELSE <<"localSocketLogin", "hostSocketLogin", "passwordComplexity">>

SettingsChecks(v) ==
    <<"backendParams", "postmasterParams", "sighupParams", "superuserParams",
      "userParams", "fips", "ssl">>
    \o (IF v \in {13, 14} THEN <<"tlsVersions", "sslCiphers">> ELSE <<>>)
    \o <<"pgCrypto">>

ReplicationChecks(v) ==
    <<"replicationUser", "replicationLogging", "baseBackup", "archiveMode",
      "streamingParams">>

SpecialChecks(v) == <<"subdirectories", "pgBackRest", "miscellaneousParams">>

PreLMAChecks(v) == InstallationChecks(v) \o PermissionsChecks(v)

PostLMAChecks(v) ==
    AuthChecks(v) \o ConnectionChecks(v) \o SettingsChecks(v)
    \o ReplicationChecks(v) \o SpecialChecks(v)

\* The checks of a version, as they are made when the program starts: each
\* has one result of its own for the life of the process.
CheckOf(v) ==
    [systemd |-> IF v \in {13, 14} THEN SystemdServiceFilesOld
                                   ELSE SystemdServiceFiles,
     dataCluster |-> IF v = 17 THEN DataClusterUnknown ELSE DataCluster,
     pgPasswordProfiles |-> PGPasswordProfiles,
     pgPasswordEnvVar |-> PGPasswordEnvVar,
     umask |-> Umask,
     extensionDir |-> IF v = 13 THEN ExtensionDir13 ELSE ExtensionDir14,
     commandHistory |-> CommandHistory,
     privilegedAccess |-> PrivilegedAccess, lockoutInactive |-> LockoutInactive,
     functionPrivileges |-> FunctionPrivileges, dmlPrivileges |-> DMLPrivileges,
     rowLevelSecurity |-> RowLevelSecurity, setUser |-> SetUser,
     predefinedRoles |-> PredefinedRoles,
     passwordInCommand |-> PasswordInCommand, ipBound |-> IPBound,
     localSocketLogin |-> LocalSocketLogin, hostSocketLogin |-> HostSocketLogin,
     connectionLimits |-> ConnectionLimits,
     passwordComplexity |-> PasswordComplexity,
     backendParams |-> BackendParams, postmasterParams |-> PostmasterParams,
     sighupParams |-> SighupParams, superuserParams |-> SuperuserParams,
     userParams |-> UserParams, fips |-> FIPS, ssl |-> SSL,
     tlsVersions |-> TLSVersions, sslCiphers |-> SSLCiphers,
     pgCrypto |-> PGCrypto,
     replicationUser |-> ReplicationUser,
     replicationLogging |-> ReplicationLogging, baseBackup |-> BaseBackup,
     archiveMode |-> ArchiveMode, streamingParams |-> StreamingParams,
     subdirectories |-> Subdirectories, pgBackRest |-> PgBackRest,
     miscellaneousParams |-> MiscellaneousParams]

NamesOf(v) == ToSet(PreLMAChecks(v) \o PostLMAChecks(v))

-----------------------------------------------------------------------------
(* The numbers a check goes by.                                            *)

\* Its own code changes the number when it runs on 15 or 16.
OwnNumber(name, v, number) ==
    IF v \in {15, 16} /\ CheckOf(v)[name].later # CheckOf(v)[name].number
    THEN CheckOf(v)[name].later ELSE number

\* Then PerformAllChecks does, for 13 and 14, mostly by the number alone.
SuiteNumber(name, v, number) ==
    IF v \notin {13, 14} THEN number
    ELSE CASE number = <<1, 3>> /\ name = "dataCluster" -> <<1, 4>>
           [] number = <<4, 3>> -> <<4, 5>>
           [] number = <<4, 6>> -> <<4, 8>>
           [] number = <<6, 9>> /\ name = "pgCrypto" -> <<6, 11>>
           [] OTHER -> number

Renumbered(name, v, number) == SuiteNumber(name, v, OwnNumber(name, v, number))
=============================================================================
