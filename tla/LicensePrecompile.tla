-------------------------- MODULE LicensePrecompile --------------------------
(***************************************************************************)
(* x/license as smart contracts see it: the precompile turns a call into   *)
(* the message of the same name, with the caller as its signer, and tells  *)
(* the contract in return values and EVM logs what happened.  Contracts    *)
(* know holders by their 20-byte addresses, the module by strings.         *)
(*                                                                         *)
(* A call that fails is undone with its frame by the EVM; it is a disabled *)
(* action here.                                                            *)
(***************************************************************************)
EXTENDS License
Seqs == INSTANCE SequencesExt

CONSTANTS
  EvmAddresses,     \* the accounts with an EVM address, named by it
  CanonicalOf,      \* [EvmAddresses -> Holders], hexToBech32
  HexOf             \* [Holders -> EvmAddresses], bech32ToHex

ASSUME EvmAddressAssumption ==
  /\ EvmAddresses \subseteq Accounts
  /\ CanonicalOf \in [EvmAddresses -> Holders]
  /\ HexOf \in [Holders -> EvmAddresses]
  /\ \A a \in EvmAddresses : AccountOf[CanonicalOf[a]] = a /\ HexOf[CanonicalOf[a]] = a

VARIABLE receipt    \* what the last step, if a call about licenses, returned and logged

NoReceipt == [ids |-> <<>>, logs |-> <<>>]

(* One IssueLicenseEntryArg, and the batch a list of them stands for.      *)
EntryArg == [type : LicenseTypeIds, holder : EvmAddresses, count : 1 .. MaxBatch]

CountsOf(list) == [i \in DOMAIN list |-> list[i].count]    \* of entries or of logs

(* What the first n counts add up to: one pair for each that is counted.   *)
UpTo(counts, n) == Cardinality(UNION {{i} \X (1 .. counts[i]) : i \in 1 .. n})

(* The entry that the k-th license of the batch belongs to.                *)
EntryOf(counts, k) ==
  CHOOSE i \in DOMAIN counts : UpTo(counts, i - 1) < k /\ k <= UpTo(counts, i)

Flat(entries) ==
  LET counts   == CountsOf(entries)
      entry(k) == entries[EntryOf(counts, k)]
  IN  [k \in 1 .. UpTo(counts, Len(entries)) |->
         <<entry(k).type, CanonicalOf[entry(k).holder]>>]

EntryLists ==
  {entries \in UNION {[1 .. n -> EntryArg] : n \in 1 .. MaxBatch} : Flat(entries) \in Batches}

Log(event, type, holder, count) ==
  [event |-> event, type |-> type, holder |-> holder, count |-> count]

\* Faulty: one log a holder and type, as if a batch named each pair once.
MergedIssueLogs(entries) ==
  Seqs!SetToSeq({Log("LicenseIssued", entries[i].type, entries[i].holder, entries[i].count) :
              i \in DOMAIN entries})

IssueLogs(entries) ==
  [i \in DOMAIN entries |->
     Log("LicenseIssued", entries[i].type, entries[i].holder, entries[i].count)]

-----------------------------------------------------------------------------
(* Transactions                                                            *)

CreateLicenseTypeCall(caller, type, transferrable, maxSupply) ==
  CreateLicenseType(caller, type, transferrable, maxSupply) /\ receipt' = NoReceipt

UpdateLicenseTypeCall(caller, type, transferrable) ==
  UpdateLicenseType(caller, type, transferrable) /\ receipt' = NoReceipt

IssueLicensesCall(caller, entries) ==
  LET slots == Flat(entries)
  IN  /\ IssueLicenses(caller, slots)
      /\ receipt' = [ids  |-> [i \in DOMAIN slots |-> nextLicenseID + i - 1],
                     logs |-> IssueLogs(entries)]

(* The walk over the index is descending.                                  *)
Descending(ids) ==
  CHOOSE s \in [1 .. Cardinality(ids) -> ids] : \A i, j \in DOMAIN s : i < j => s[i] > s[j]

RevokeLicensesCall(caller, type, holder, count) ==
  LET string == CanonicalOf[holder]
  IN  /\ RevokeLicenses(caller, string, type, count)
      /\ receipt' = [ids  |-> Descending(NewestActive(string, type, count)),
                     logs |-> <<Log("LicenseRevoked", type, holder, count)>>]

-----------------------------------------------------------------------------
(* Queries                                                                 *)

\* Faulty: listed from the index over types, which keeps revoked licenses.
ListedByType(holder, type) ==
  {id \in DOMAIN licenses : <<type, id>> \in licensesByType /\ HexOf[licenses[id].holder] = holder}

LicensesByHolderAndType(holder, type) == ActiveIds(CanonicalOf[holder], type)

(* The fields of a license that its output shows a contract.               *)
LicenseOutput(id) ==
  [type |-> licenses[id].type, holder |-> HexOf[licenses[id].holder],
   status |-> licenses[id].status]

-----------------------------------------------------------------------------

PrecompileInit == Init /\ receipt = NoReceipt

Call ==
  \E caller \in accounts \cap EvmAddresses :
    \/ \E type \in LicenseTypeIds, transferrable \in BOOLEAN :
         \/ \E maxSupply \in SupplyChoices :
              CreateLicenseTypeCall(caller, type, transferrable, maxSupply)
         \/ UpdateLicenseTypeCall(caller, type, transferrable)
    \/ \E entries \in EntryLists :
         /\ nextLicenseID + Len(Flat(entries)) - 1 <= MaxIssued
         /\ IssueLicensesCall(caller, entries)
    \/ \E type \in LicenseTypeIds, holder \in EvmAddresses, count \in 1 .. MaxIssued :
         RevokeLicensesCall(caller, type, holder, count)

Message == Next /\ receipt' = NoReceipt

PrecompileNext == Call \/ Message

PrecompileSpec == PrecompileInit /\ [][PrecompileNext]_<<vars, receipt>>

-----------------------------------------------------------------------------

(* The returned ids a log stands for: ids come flattened, in entry order.  *)
Logged(r, i) ==
  LET counts == CountsOf(r.logs)
  IN  {r.ids[k] : k \in UpTo(counts, i - 1) + 1 .. UpTo(counts, i)}

StatusAfter(event) == IF event = "LicenseIssued" THEN "active" ELSE "revoked"

(* LicenseI.sol: a contract that books what a call returned and logged has *)
(* the whole change it made and nothing else: each log stands for as many  *)
(* licenses as it says, which the call moved to that status for that       *)
(* address and type, and no license changed that is not returned.          *)
ReceiptsTellChange ==
  [][receipt' # NoReceipt =>
       /\ \A i \in DOMAIN receipt'.logs :
            LET log == receipt'.logs[i]
            IN  /\ Cardinality(Logged(receipt', i)) = log.count
                /\ \A id \in Logged(receipt', i) :
                     LicenseOutput(id)' = [type |-> log.type, holder |-> log.holder,
                                           status |-> StatusAfter(log.event)]
       /\ \A id \in DOMAIN licenses' :
            (id \in DOMAIN licenses => licenses[id] # licenses'[id])
              <=> \E i \in DOMAIN receipt'.logs : id \in Logged(receipt', i)]_<<vars, receipt>>

(* LicenseI.sol, licensesByHolderAndType: the licenses listed for a holder *)
(* are the active ones whose output names it.                              *)
HoldersListed ==
  \A holder \in EvmAddresses, type \in LicenseTypeIds :
    LicensesByHolderAndType(holder, type) =
      {id \in DOMAIN licenses :
         LicenseOutput(id) = [type |-> type, holder |-> holder, status |-> "active"]}
=============================================================================
