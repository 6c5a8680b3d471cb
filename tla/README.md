# ckman: a TLA+ development

`ckman` (crates `ckman`, `ckman-core`, `ckman-transport`) manages CanoKey security keys from the
command line: it selects a card or a HID device, runs one command against it (PIV, OATH, FIDO2,
OpenPGP, Admin, NDEF) and exits. There is almost no concurrency inside the program. What is hard is
around it:

* a command is a sequence of card commands, none of which is undone when a later one fails;
* the response to a card command can be lost after the card has applied it, and the process can die
  or be interrupted at any point;
* some state lives in two places that are written one after the other: the management key and the
  metadata describing it, the OATH password and the key in the system keyring, a generated key and
  the file with its public part;
* the HID interface is shared with browsers and other tools, and output files and keyrings with other
  processes.

All source paths below are relative to `src/crates/`. `PROJECT.json` maps every definition to its
lines.

## Inventory

| Component | State | Operations | What makes it correct |
|---|---|---|---|
| PIV management key (`ckman-core/src/piv.rs`, `ckman/src/commands/piv.rs`, `piv_recovery.rs`) | on the card: key, PIN, PUK, ADMIN DATA, PRINTED; on the host: recovery files | `access change-management-key`, `change-pin`, `set-retries`, `unblock-pin`, `change-puk`, `reset` | an active key is never lost; metadata tell the truth unless a PIN command was cut short; a derived key is not destroyed by a PIN reset |
| PIV provisioning (`commands/piv.rs`, `piv/overwrite.rs`) | keys and certificates in slots; output files | `keys generate`, `generate-batch`, `import`, `move`, `delete`; `certificates import`, `generate`, `delete`; `objects import` | nothing is replaced without consent; batches are checked as a whole; public keys of generated keys are saved |
| PIV key use (`commands/piv.rs`) | PIN given, tries spent; output files | `sign`, `decrypt`, `derive`, `decapsulate`, `agree-sm2`, `certificates request`, `keys export` | one use of the key per command; what a file names is the slot's key |
| Output files (`commands/output.rs`) | destination, temporary files | prepare, write, sync, rename, drop | whole or old content; secrets stay private; nothing valuable is deleted, and what is left behind is accounted for |
| CTAPHID framing and channels (`ckman-transport/src/ctaphid.rs`) | channel, nonce, sequence number, partial message | frame, decode, allocate, request | every call gets its own answer or fails, and ends |
| FIDO over CTAPHID (`ckman-core/src/fido.rs`, `CtapHidAdapter`) | chain buffer | select, fragment, final fragment | one operation's fragments never reach another's message |
| FIDO commands (`commands/fido.rs`) | the authenticator's PIN, settings, credentials, large-blob array and token; rows read | access, config, credentials, blobs, reset, touch-test | what is changed is what was shown |
| FIDO connection (`commands/fido.rs`, `FidoLink`) | HID interfaces listed, the link | `connect`, `info --admin-pin` | the device asked for, whichever way it is reached |
| OATH access (`commands/oath.rs`) | the applet's password, keyrings of hosts | unlock, change, clear, remember, forget, reset | stale keys lock nobody out; the keyring follows the card |
| OATH accounts (`ckman-core/src/oath.rs`, `commands/oath.rs`) | credentials of the applet by raw name, default accounts, the clock | `accounts add`, `uri`, `list`, `code`, `rename`, `set-default`, `delete` | a name keeps its period and issuer; codes are right, and none is calculated and forgotten; no account is overwritten |
| Selection and listing (`commands/mod.rs`, `list.rs`, `ckman-transport/src/pcsc.rs`) | readers and connections | `single_target`, `targets_matching_reader` | the CanoKey used is the only one that fits; lists are complete |
| Admin (`ckman-core/src/admin.rs`, `commands/config.rs`) | Admin PIN tries; device settings | configuration, PASS, keymap, SM2, NFC, PIN change, factory reset, applet resets | a retried operation is not applied twice; one wrong PIN costs one try |
| OpenPGP (`ckman-core/src/openpgp.rs`, `commands/openpgp.rs`) | keys, attributes, certificates, data objects, PIN, Admin PIN and reset code with their tries | info, reset, access, cardholder, keys, certificates | a refusal leaves the card as it was; a wrong password costs one try; the user knows the passwords |
| NDEF, session driver, attestation, X.509, key files, otpauth URIs, information and diagnosis, command line | none or only data formats | | |

How they interact: a command (`commands/*.rs`) calls `single_target` (or `FidoLink::connect`) for a
connection, then functions of `ckman-core` that drive one operation of the external library
`libcanokey` over an exchange callback. Over PC/SC that callback is `PcscConnection::exchange` on an
exclusive connection; over HID it is `CtapHidAdapter::exchange`, which unwraps APDUs and calls
`CtapHidChannel::request`. Files go through `PreparedFile`, keys remembered for OATH through the
system keyring. The only state `ckman` itself keeps between two runs is the recovery files of the
management key, remembered OATH keys and output files.

## Modules

| Module | Models | Runs |
|---|---|---|
| `PivManagementKey` | all commands that change the management key, the PIN or the PUK | `piv_management_key`, `piv_recovery_instructions`, `piv_pin_change` |
| `PivManagementKeyProofs` | type correctness, the active key is never lost, a new key is saved first, metadata are true except after two interruptions, PIN and PUK | proved |
| `PivProvisioning` | all commands that write keys and certificates | in the next run |
| `PivKeyUse` | commands that use or export a key; extends `PivProvisioning` and interleaves with it | `piv_key_use` |
| `PivKeyProofs` | consent, batches confirmed as a whole, batch keys saved; one use of the key per command, the slot's key is named | proved |
| `PreparedFile` | output files of several processes and their directory, with kills and power loss | `prepared_file` |
| `PreparedFileProofs` | the destination is whole, secrets stay private, leftovers are accounted for | proved |
| `CtapHidFraming` | `frame_message` and `MessageDecoder` as operators | used by the next modules |
| `CtapHidTransfer` | one message fed report by report | in `ctaphid_adapter` |
| `CtapHidAdapter` | FIDO operations in APDU fragments, sent report by report; extends `CtapHidTransfer` | `ctaphid_adapter` |
| `AuthenticatorExchange` | the contract of `CtapHidChannel::request` | refined by the next one |
| `CtapHidChannel` | several applications, one authenticator | `ctaphid_channel` |
| `CtapHidProofs` | the framing round trip, whole messages, distinct channels, the refinement of `AuthenticatorExchange` | proved |
| `FidoCommands` | FIDO commands against a shared authenticator | `fido_commands` |
| `FidoCommandsProofs` | lists are snapshots, changes are as shown | proved |
| `OathAccess` | OATH unlocking, passwords and keyrings of several hosts | `oath_access` |
| `OathNames` | names of OATH credentials, as operators | used by the next one |
| `OathAccounts` | the accounts commands, with lost answers and touches of the card's button | `oath_accounts` |
| `OathProofs` | keyrings and who is denied; codes, counters, accounts, secrets and names | proved |
| `CardSelection` | reader by reader selection and listing | in `device_link` |
| `AdminCommands` | Admin PIN retry, factory reset; extends `CardSelection` | in `device_link` |
| `FidoLink` | the choice between HID and PC/SC; extends `AdminCommands` | `device_link` |
| `FidoLinkProofs` | selection, listing, retries, the FIDO connection | proved |
| `OpenPgp` | all OpenPGP commands over the typed operations | `openpgp` |
| `OpenPgpProofs` | refusals, tries, passwords, reports | proved |

`MC*` modules give the constants of the runs.

### Conventions

* A command is a record `job` (`task` in `OathAccounts`: its arguments) and a label `pc` (its next step); one action is one
  card command, prompt or file operation with the code around it. `Start`-like actions enumerate the
  argument combinations clap accepts.
* A card command can be refused, succeed, or succeed with its answer lost. `Interrupt`, `Abort`, `End`
  or `Fail` in each module ends a command at any point: it stands for an error returned with `?`, an
  interrupt and the death of the process alike, since `ckman` keeps nothing in memory between runs.
* Keys, PINs, names, reports and files are model values. Key derivation is the pair of its inputs,
  that is, collision-free.
* Operators whose comment begins with "Mutant" are wrong variants of the definition that follows, each
  a plausible mistake. Nothing uses them; `PROJECT.json` ("mutants") says which property notices each
  one when it replaces the definition.

### PIV management key

`mgmtKey`, `pin`, `pukBlocked`, `admin` and `printed` are the card, `recovery` the recovery files,
`known` what the user has typed or been shown. `change-management-key` is `ChangeManagementKey`, the
`Resolve*` actions (`resolve_management_protection`), `SaveRecoveryFile`, `InspectProtection`,
`ReplaceKey`, `StoreProtectedKey`, `UpdateMetadata`, `ProtectPuk`, `RemoveRecoveryFile`. `set-retries`
and `unblock-pin` share `EnsurePinResetSafe`; `change-pin` is `ReadBeforePinChange` ..
`WriteNewSalt`. `Exchange` gives every card command its three outcomes.

Initial states are a factory card, a card with a PIN-derived key as other tools leave it, and the
legacy stored key of the device tests.

The invariants say that an active key is derived, known to the user, in a recovery file or in PRINTED
(`ActiveKeyRetained`); that success means key and metadata agree (`SuccessMeansSynced`); that a new key is on
disk before it is on the card (`SavedBeforeReplaced`); that PIN resets spare derived keys
(`PinResetKeepsDerivedKey`), and that only completed protection blocks the PUK
(`PukBlockedOnlyToProtect`).

`CleanDiskMeansTrueMetadata` says that without a recovery file on disk ADMIN DATA is true: a stored-key claim is
backed by the active key in PRINTED, a salt is the one that derives the active key from the *current* PIN, without either the
user has seen the key, and a PUK said to be blocked is. Two commands write ADMIN DATA last and have no recovery
file, and the property names both as exceptions: a `change-pin` cut short after the new PIN (its salt no longer derives the key,
and once the key is rotated nobody can: finding 2), and a `set-retries` cut short before it has cleared the PUK's claim. The history
variable `behind` holds which of the two has happened; `Outdates` enters it when the card has changed under ADMIN DATA,
`CaughtUp` removes it when ADMIN DATA is rewritten or the command claims success, so that a success is never an excuse. `Next` is
`Step`, the code, with `KeepHistory`, which no action reads.

Bounds: three chosen keys (the default and two others: an old and a new one), two PINs, two salts, two
recovery files. A property that fails needs a current key, a new one and the one interrupted before;
commands follow one another without limit. Two recovery files are enough for an interrupted update and
the one that repairs it.

### PIV provisioning and key use

`keys`, `certs` are the card, `firmware` what its key metadata can tell (all, no public keys, nothing), `files`,
`spares` and `outputs` the published public keys. `ReadMetadata`, `ReadCertificate`, `Approve` and
`Decline` are the preflight of `overwrite.rs`; `NextKey` and `SavePublicKey` are the loop of
`generate_keys_with_progress` and its callback. `BatchKeysSaved` allows one unsaved key, the last one
generated, whose answer or file may have failed. Output paths may lead to one file (`PathMaps`, symbolic
links); `prepare_batch_outputs` compares resolved destinations.

`PivKeyUse` adds the commands that use a key, between any two that provision the card. `TryWithoutPin`,
`resolve_pin` and `UseWithPin` are `run_with_pin`: the card either says that it wants the PIN, and
then has not used the key, or it fails, perhaps after having used it. Whether a key wants the PIN is
its policy, hence a choice. `KeyUsedOnce` is what repeating only on `needs_pin` buys. `NamedKeysMatch` says that, on a card
that reports public keys, `certificates import` and `generate` give an occupied slot a certificate for its own
key only, and that no file a command writes (a public key, a request, a secret) is of another key.

Bounds: two slots and the attestation slot, three keys, batches of two, of a repeated slot, and empty; two
output files or one with two names.
Two slots suffice for "the first is written while the second is not approved"; three keys are one more
than a batch generates.

### Output files

A file and its name are two things. `files` is the file each process creates (how much it holds, whether that is on the disk, its
mode), `dest` and `temps` the directory, which names them, and `disk` the directory as the disk has it. `sync_all` brings a
file to the disk; nothing in `output.rs` does that for the directory (`piv_recovery.rs` does, lines 76 and 103), so the kernel
writes it at a time of its own (`Commit`) and `PowerLoss` goes back to what was written, besides taking any part of a
file that was not synchronised. Two writers, one of them with a secret, race for one destination, with three names the
random generator can draw; any of them fails or is killed at any step. An output given up is removed by `Drop`, and the removal may fail
unnoticed (`output.rs:147`, `stuck`).

`DestinationWhole`: the destination is what it was or one whole output that is safely on the disk, and one that existed
never disappears. After a writer has succeeded it is a new output, but only until the power is lost: `ckman` may say that a file was written
and the old one is back after a power cut. No text of the repository promises more, so this is stated and not a finding.
`SecretStaysPrivate`: no file holds a byte of a secret unless only its owner may read it. `LeftoversAreComplete`: an output retained
because the rename failed is whole and in place until the power is lost; before that, a temporary file that nobody was told of is
one of a killed process, or one whose removal failed.

Bounds: three names are enough for each writer to collide once and finish; one power loss, since every process ends with it.

### CTAPHID

`CtapHidFraming` keeps the arithmetic of the source and `CtapHidTransfer` feeds the reports of a
message to the decoder one by one. `CtapHidAdapter` puts the adapter in front of it: an operation's message
comes in APDU fragments, is collected in `pending`, and the last fragment hands the
chain to `NewRequest`; then its reports are written one at a time and the response ends the operation. An
APDU may be rejected, the request may fail after any report, and an operation may be dropped between two APDUs,
after which the next operation must select (`BeginOperation`). `RoundTrip` is the framing's contract,
`RequestsWhole` says that what the authenticator assembles is the current operation's message and
nothing else.

`CtapHidChannel` lets two applications see all reports. Its authenticator is external and the
least the specification of CTAPHID asks: one transaction at a time, busy otherwise. `ExchangeContract`
shows that `request` implements `AuthenticatorExchange`: each request is executed at most once and is
answered with its own whole response, or fails without saying whether it was executed.

Fairness (`FairSpec`): the write of a report returns and a deadline passes (`WF` of `WriteReport` and
`Timeout`). `request` computes its deadline once (`ctaphid.rs:350`) and reads with the remaining
time, so the deadline action, which stays enabled while a call waits, is what a clock gives. Nothing is assumed of the
authenticator, which may never answer or send keepalives for ever. `CallsEnd` is false when
the deadline is extended by traffic (its mutant).

Bounds: two requests of two reports, responses of three reports, three channels, one lost report, two
queued reports when a keepalive is sent. One lost report leaves a sequence gap; more lose more of the
same response. Channels are handed out in order, so a third one is what an application gets when it
comes back after a failure.

Bounds of the adapter: three operations, reports of two bytes and two sequence numbers, hence a limit of six;
messages of one, three, five, six and seven bytes, in APDUs of up to three: below a report, across
several, exactly at the limit and above it. The real sizes (57, 59, 128) are instances of the proved
`FramingRoundTrip`.

### FIDO commands

Between two requests of a command another application may act (`Other*`), as far as the
authenticator lets it: handing out a PIN/UV token invalidates the one that `ckman` holds, and so do a new PIN and a
reset. That rule is the authenticator's (CTAP 2.1), not this repository's, and the three theorems
rest on it: `ckman`'s part is to use one token from the enumeration to the change
(`fido.rs:990`), to insist on a single match and to write back the fields it read. The mutant that
gets a token for each request breaks `ListIsSnapshot`.

`blobs write` reads in getInfo whether a PIN is set and sends a token accordingly; the device decides
again. `enable-long-touch-for-reset` and `reset` ask before they have read anything, so their prompts are
no steps of the model. Whether a change is confirmed or forced is chosen where the code looks at it.

Bounds: two credentials, two values of a user field, one large-blob array besides the initial one, two PINs of which one is too short after the
minimum was raised. With two credentials a second match can appear and a list can be torn. The always-UV and long-touch settings and
the large-blob array are written and in no guard or property; the run's `VIEW` leaves them out, so that states that differ in nothing else are visited once.

### OATH

`OathAccess` moves one card between two hosts with a keyring each, two passwords and two device handles; a
keyring may fail at any access. Commands follow one another without limit.

`OathAccounts` runs the accounts commands on an unlocked applet. `card` is a set of credentials, each
with a raw name (a sequence of tokens: numerals, "/", ":", texts), its kind, its own period, its counter or last
time step (`moving`), and who it is (`id`), which no name tells. `add_credential`, `search` and the
`accounts_*` operators are the functions of the same names; `AddCredential`, `RenameCredential`,
`DeleteCredential`, `SetDefault`, `Calculate` are what the applet does with the one command that follows.
`CardFails` ends a command before the effect, `answered = FALSE` after it. `KeyboardTouch` is
the button that types the code of a default account at any time; it shares the counter. `OathNames` has
`format_id` and `parse_name`.

The properties: `TotpCodesRight` (a code is of the period its account was added with; no credential
that refuses older steps is moved beyond its own), `CodesAccounted` (a counter used up is a code the user got, or of a
command that reported failure), `NoAccountLost` (nothing is overwritten by a rename), `SecretShown` (a generated
secret has been shown, or its command said that it failed), `NameReadBack` (period, issuer and account are read back from every
name ckman gives).

Bounds: three commands, two new accounts besides none, one or two left by other software (one that
refuses older time steps, one with a zero period, one of an unknown kind), periods of 0, 30 and 60
seconds, issuers absent and "60/", which reads like a period prefix, names of at most six tokens, firmware 1 (where a rename
overwrites its destination) and 3, counters up to 2. Three commands suffice to add, rename and calculate, or to add twice and rename one
to the other.

### Selection, Admin and the FIDO connection

`CardSelection` visits readers one at a time while cards come, go and are held by other processes.
`steady` holds the cards in place since the readers were listed; they are what selection and listing answer for.
`AdminCommands` adds the operation: first without a PIN, and again with one only if the library or the
card refuses for want of it. `FidoLink` adds `fido`: FIDO interfaces of CanoKeys are listed, with the serial number in their
USB strings if they have one; one match is opened, several are an error, and none, or one that cannot be opened and
was not asked for by serial number, falls back to PC/SC selection. `fido info --admin-pin` and `--reader`
go to PC/SC at once. `LinkAsAsked`: the device linked has the serial number asked for, is the card
that was selected and configured, and without a request is the only one listed.

Bounds: two readers, three CanoKeys of which two report one serial number and one of these has none
in its USB strings, one other card, two tries. A third reader adds nothing to the loop: its decisions concern
the reader visited and what was collected before.

### OpenPGP

`card` is what the applet stores (per slot: attributes, key, touch policy, certificate; data objects; passwords and
their limits), `tries` the counters. A command is `Begin` with its argument checks, prompts and consent, and
`Send` of one or two operations, whose outcomes are `OperationRefused`, `OperationDone` and
`OperationFails` (with or without effect); `Accepted` says what the library refuses for a firmware,
`Effects` what the applet does. `told` is what the user was last told, or has typed, as a password.

`RefusedMeansUnchanged`: although generation and import send the slot's new algorithm first, which discards
the key, a refused or declined command has changed nothing; only a *failed* one may have. `OneTryPerCommand`,
`TruePasswords` and `InfoTruthful` are about wrong passwords, the defaults `set-retries` and `reset`
restore, and "a failed read is not absence" (`commands/openpgp.rs:556`).

Bounds: three commands on one slot and three firmware generations (without touch policy,
without key status, with both), four algorithms (one every card has, one that fits the slot and that the second generation
imports and does not generate, one that fits other slots only, one that ckman does not offer), three
passwords of which one fits the PIN only, counters of one and two tries. Each operation names one slot, so
a second one would only be left alone. Three commands are enough to change a password, exhaust or reset it,
and use it.

## What the runs show

| Run | Expected | What it shows |
|---|---|---|
| `piv_management_key` | pass | key retained, metadata true but for the two PIN commands cut short, recovery file first, PUK and derived keys spared, over any sequence of interrupted commands |
| `piv_recovery_instructions` | violation | finding 1 |
| `piv_pin_change` | violation | finding 2 |
| `piv_key_use` | pass | consent, batches, saved public keys, certificates and files for the key in the slot, one use of a key per command |
| `prepared_file` | pass | whole destinations, private secrets, leftovers accounted for, with a directory that reaches the disk late |
| `ctaphid_channel` | pass | distinct channels, whole requests, the exchange contract, every call ends |
| `ctaphid_adapter` | pass | no fragment of one operation reaches another's message, whatever is given up between two APDUs or two reports |
| `fido_commands` | pass | untorn lists; deletions and renames are as confirmed; other fields are kept |
| `oath_access` | pass | stale keys deny nobody, only proved keys are remembered, the keyring is settled by success |
| `oath_accounts` | pass | right codes, accounted counters, no account overwritten, secrets shown, names read back |
| `device_link` | pass | unambiguous selection, complete lists, no repeated operation, one try per command, the FIDO device asked for |
| `openpgp` | pass | refusals without effect, one try per command, known passwords, true reports |

`CHECK_DEADLOCK FALSE` is set where the system ends: the requests of the channel, the three operations of the
adapter, the commands of `OathAccounts` and `OpenPgp`, which are bounded.

### What is taken of the outside

These parts of the models are external to the repository; `PROJECT.json` marks the definitions.

* *The authenticator (CTAP):* one valid token, taken away by another one, a new PIN or a reset; the
  device checks length and PIN again.
* *The OATH applet:* adding does not replace a credential; a rename does before firmware 2.0; a calculation
  is refused when the counter is exhausted or a time step is older than the last one of a credential that says so. A
  credential of other software (`OfOtherSoftware`) has the period that its name shows, and no time step ahead of the clock.
* *The PIV applet:* it asks for the PIN instead of using a key, never after.
* *libcanokey:* which operations it refuses for a firmware before it sends anything.
* *The operating system:* `rename` is atomic; a directory reaches the disk as a whole, so that a power loss takes it back to some earlier state and never to half of a rename; a HID path names one device from listing to opening, a PC/SC connection is
  exclusive.

### Findings

1. *Recovery instructions that are refused* (`piv_recovery_instructions`). The recovery file says to repeat
   `change-management-key` with the saved key, adding it as `--management-key` if it is active. When the
   interrupted update was removing PIN protection, ADMIN DATA still claims a stored key;
   an explicit key makes `access()` pass no PIN (`commands/piv.rs:1982`), and
   `set_management_key_synced` refuses to go on without one (`piv.rs:1436`). The user holds
   the key, so nothing is lost, but the prescribed steps do not finish the update.
2. *A derived key whose salt is lost* (`piv_pin_change`). `change_pin_synced` replaces the derived key and then writes
   the salt (`piv.rs:1551`). Interrupted in between, the card runs on a key that nobody can derive: the
   salt existed in memory only, and this path has no recovery file.

A further sequence is reachable and promised otherwise nowhere: `set-retries` revives the PUK and clears only
its claim, after which a stored key is not used by ordinary commands until protection is
repeated with `--protect`.

## Proofs

Every safety property of the passing runs is the statement of a theorem. TLAPS checks these for every value of the constants that satisfies the named assumptions:

| Theorem | Says |
|---|---|
| `PivManagementKeyProofs!TypeCorrect` | `[](TypeOK /\ JobFits)` |
| `PivManagementKeyProofs!KeyNeverLost` | `[]ActiveKeyRetained` |
| `PivManagementKeyProofs!NewKeySavedFirst` | `SavedBeforeReplaced` |
| `PivManagementKeyProofs!SuccessLeavesSync` | `[]SuccessMeansSynced` |
| `PivManagementKeyProofs!NoFileMeansTruth` | `[]CleanDiskMeansTrueMetadata` |
| `PivManagementKeyProofs!DerivedKeyKeepsPin` | `PinResetKeepsDerivedKey` |
| `PivManagementKeyProofs!PukBlockedForAKey` | `PukBlockedOnlyToProtect` |
| `PivKeyProofs!NothingReplacedUnasked` | `ReplacedWithConsent` |
| `PivKeyProofs!BatchConfirmedAsAWhole` | `[]BatchConfirmedFirst` |
| `PivKeyProofs!BatchNeverLosesKeys` | `[]BatchKeysSaved` |
| `PreparedFileProofs!DestinationNeverTorn` | `[]DestinationWhole` |
| `PreparedFileProofs!SecretsNeverShared` | `[]SecretStaysPrivate` |
| `PreparedFileProofs!LeftoversAccountedFor` | `[]LeftoversAreComplete` |
| `OathProofs!OnlyWorkingKeysRemembered` | `[]RememberedKeyWorked` |
| `OathProofs!StaleKeysForgotten` | `[]StaleKeyNeverDenies` |
| `OathProofs!KeyringSettled` | `[]SuccessSettlesKeyring` |
| `OathProofs!CodesOfTheirTime` | `[]TotpCodesRight` |
| `OathProofs!NoCodeForgotten` | `[]CodesAccounted` |
| `OathProofs!AccountsStay` | `[]NoAccountLost` |
| `OathProofs!SecretsShown` | `[]SecretShown` |
| `OathProofs!NamesReadBack` | `[]NameReadBack`, if the names left by other software are as add writes them (`ConventionalNames`) |
| `PivKeyProofs!OneUsePerCommand` | `[]KeyUsedOnce` |
| `PivKeyProofs!SlotKeysNamed` | `NamedKeysMatch` |
| `FidoLinkProofs!NoOtherCanoKeyFits` | `[]SelectionIsUnambiguous` |
| `FidoLinkProofs!ListsAreComplete` | `ListingComplete` |
| `FidoLinkProofs!LinkedAsAsked` | `[]LinkAsAsked` |
| `FidoLinkProofs!NothingDoneTwice` | `[]RetriedOnce` |
| `CtapHidProofs!FramingRoundTrip` | `[]RoundTrip` of `TransferSpec`, for all report sizes and sequence ranges |
| `CtapHidProofs!NoFragmentSurvives` | `[](RoundTrip /\ RequestsWhole)` of `AdapterSpec` |
| `CtapHidProofs!ChannelsNeverShared` | `[]ChannelsDistinct` |
| `CtapHidProofs!OnlyWholeRequests` | `[]WholeRequests` |
| `CtapHidProofs!ExchangeKept` | `ExchangeContract`, the refinement of `AuthenticatorExchange` |
| `FidoCommandsProofs!ListNeverTorn` | `ListIsSnapshot` |
| `FidoCommandsProofs!ChangesAreAsShown` | `ChangedAsShown` |
| `FidoCommandsProofs!UnnamedFieldsSurvive` | `OtherFieldsKept` |
| `OpenPgpProofs!RefusalChangesNothing` | `[]RefusedMeansUnchanged` |
| `OpenPgpProofs!WrongPasswordCostsOneTry` | `[]OneTryPerCommand` |
| `OpenPgpProofs!ToldPasswordsAreTrue` | `[]TruePasswords` |
| `OpenPgpProofs!InfoTellsTheTruth` | `[]InfoTruthful` |

* *Management key.* `ActiveKeyRetained` is not inductive: while an update runs, what protects the
  new key changes from the recovery file to PRINTED. `JobFits` ties the command's remembered data to
  its step, `KeyHeld` says where the new key is at each step; both are preserved by one lemma per group of actions.
  Since only two card commands replace the key
  (`ReplacingSteps`) and an idle program has no job (`Idle`), the same facts give `SavedBeforeReplaced`.
  The metadata need more: `ClaimsFollow` says that what a command has read of ADMIN DATA stays true until it
  writes, that what it writes is what it worked out from that, and that a command about to replace a
  PIN has seen that no key is derived; `FileHeld`, that a recovery file is on disk whenever an update can be cut short. An
  update that ends has then written every claim, and one that does not has left its file. The salt and the PUK's claim
  have an invariant each. `SaltFollows`: unless `behind` says otherwise, the salt on the card derives the active key from the current
  PIN, and from the PIN on `change-pin` knows the key it is about to give the card and the salt it will write. `PukClaimAccounted`: a claim that is not true
  is one whose command is still running or is in `behind`. That a salt is never outdated by anything else rests on `DerivedKeyKeepsPin`'s
  argument: the other commands that replace the PIN have seen that no key is derived.
* *Provisioning.* The invariant says that every slot before `at` has been inspected and was empty or confirmed, and
  that nobody writes to the card in between (exclusive connection): what was found is still there when the
  slot is written. In a batch (`Writing`) the keys before `at` are in their files and those after it have not been
  generated; a file written later is not one written before, since the outputs are pairwise distinct. The theorems are about `Spec` of `PivProvisioning`; the run checks the same properties while key use
  is interleaved, which writes neither keys nor certificates.
* *Key use.* `Passes` says which commands go through which steps, so that a command that uses a key and one
  that writes keys never share a step; `Counted` ties the number of uses to the step, `Compared` says from where
  on the key a command names is the slot's. These theorems are about `UseSpec`, with both kinds of commands.
* *Selection.* `Account`: while readers are visited, a CanoKey that stayed in place is in a reader still to visit,
  is held, or was passed over for a reason. When no reader is left the one candidate is the only one.
  `Attempts` counts executions and PIN tries at each step of a command. That the readers are
  numbered is needed only for the next one to exist (the least of those left).
* *Output files.* A file belongs to the writer that created it, under a name that was free, so what a writer renames is what it
  wrote and synchronised. The same is said of the directory on the disk: whatever it names as the destination was whole when it was
  put there. A power loss therefore goes from one good directory to another, and it damages only files that are not yet
  synchronised, which no destination names and nobody has been told of.
* *Framing.* `Transfer` says what the decoder holds after `fed` reports: the first
  `Offset(fed)` bytes of the payload. The step adds one slice; the arithmetic of the last report
  (`ContCountCorrect`, `SequenceNumberFits`) is division with remainder.
* *Adapter.* `Chain` says that `pending` is the fragments sent so far of the operation under way or, when
  one was given up, anything at all, with no fragment accepted before the next SELECT empties it.
* *Channel.* `ChannelInv` has a part for each side. An application holds the channel that bears its nonce, and nonces in use
  differ (`Channels`); a request has one sender and no result before that sender is done (`Senders`). The authenticator
  assembles, for a channel that is sending, a part of its request (`HoldsPart`), and executes one that was asked and is not
  answered yet (`Executing`). A queue is described by what its owner will hear on its own channel: statuses only (`Quiet`), or
  from some report on, in order and perhaps with gaps, the reports of one response (`Heard`, `Ahead`); the decoder holds what came before
  (`Following`). Losing a report or receiving another channel's keeps that (`Undisturbed`), so most steps are settled by one lemma
  about the applications that do not act (`Bystander`). Since the reports of a response are told apart by their sequence numbers
  (`ReportsDiffer`), a gap ends in an error, never in another body (`PushNext`, `HearAnswer`). Executing is then `Execute`,
  reading the last report `Answer`, every way to end a session with a request pending `Fail`, and the rest is invisible.
* *OATH access.* A command holds the card, so the applet's key changes only by its own step: what a keyring stores is
  the key validated or set in this command (`Knows`), and a command without a password has compared the keyring
  with the applet before it goes on (`Consulted`).
* *OATH accounts.* First the names: the first ":" and the first "/" of a name are found where `format_id` put them
  or where they were (`FindIs`, `WithPeriod`, `SplitAndJoin`), so `parse_name` reads what it wrote (`NamesAreGood`).
  `TaskHolds` says that what a command read of the card is still true when it sends its change: the new account is one nobody has
  heard of, the new name is free and shows the period of the account renamed, the account to delete is no longer one to keep.
  Touches of the button happen meanwhile, but a calculation changes a counter or a time step and nothing
  else (`MovedIs`, `CalculationKeeps`). That a slot's default is a counter-based account (`DefaultsHold`) keeps a touch from
  calculating a code of a period of zero. The induction needs the names to be unique on the card (`CardType`).
* *FIDO.* The invariant says that while the command's token is valid, the credentials read are those
  the authenticator has, and those unread are the rest: any interference takes the token away.
* *OpenPGP.* `Busy` lists what a command that is under way may still have to send. Before anything has been sent the card is the one of the
  start (`OneOperation`, `AlgorithmThenKey`). Once the new algorithm is set (`KeyAfterAlgorithm`), it is the
  slot's, the firmware supports it, and the password has just been accepted, which gave it its tries back; so the
  key that follows is not refused, and only a failure can leave the slot without one. This needs `validate_generation_algorithm`, and that every
  limit is at least one (`OpenPgpAssumption`, from the range of the arguments). For `info`, `Reading`
  says that every object on the card has been reported or is still in the list of reads.

Only model-checked: liveness (`CallsEnd`), which the provers do not reach.

## Not modelled

* PIV: container names, CHUID, CCC and `objects import` of anything but a certificate: one write each.
  Writing ADMIN DATA or PRINTED raw through `objects import` is outside what the management-key
  properties promise. `random` reads no key, `logout` forgets a verification that every command repeats, and
  `attest` and `verify-attestation` use the attestation key without a PIN and change nothing.
* CTAPHID `CANCEL`: no command of `ckman` sends it.
* What settings, keymaps, PASS slots and SM2 identifiers contain: each is one protected write, which
  `AdminCommands` models as the operation. NDEF, whose write order is in the external library.
* Data formats: certificates, attestation, key files, otpauth URIs, fingerprints. They are functions of bytes with
  no state; their control flow is the encoding itself.
* Session driver and transports beyond "refused, done, done with the answer lost": input and output.
* Information, diagnosis, command line, manual pages, packaging: no state.

## Plan

Modules were written in the order of what is lost when they fail: keys (`PivManagementKey`, `PivProvisioning`,
`PreparedFile`), the transport (`CtapHidFraming` to `CtapHidAdapter`), access and shared state
(`OathAccess`, `FidoCommands`, `CardSelection`, `AdminCommands`), then the rest of the commands
(`OpenPgp`, `OathAccounts`, `PivKeyUse`, `FidoLink`). What remains worth doing:

1. A configuration patch of several fields that fails half-way; the order of its writes is the external library's.
2. The adapter over the shared channel instead of over one transfer.
