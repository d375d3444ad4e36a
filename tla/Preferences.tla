----------------------------- MODULE Preferences ----------------------------
(***************************************************************************)
(* A company's preferences (businesses/business-preferences.ts, and        *)
(* getPreferences() and updatePreferences() of businesses.service.ts).     *)
(*                                                                         *)
(* One JSON column holds every section; what it holds may be older than    *)
(* the table of fields below, or have been put there by other means, so    *)
(* each value is checked whenever it is read.  A save reads the column,    *)
(* lays the patch over all sections and writes all of them, with nothing   *)
(* locked in between.                                                      *)
(*                                                                         *)
(* A field is <<section, key>>.  Its value is a Boolean, an integer or a   *)
(* word; of a text only its length is modelled.                            *)
(***************************************************************************)
EXTENDS Integers, FiniteSets

CONSTANTS
  Requests,    \* saves under way at the same time
  Fields,      \* the fields that are looked at
  Numbers,     \* numbers stored or sent
  Lengths,     \* lengths of texts stored or sent
  Words        \* words stored or sent where a choice is expected

-----------------------------------------------------------------------------
(* PREFERENCE_SPECS.  Fields named in none of the three tables below are   *)
(* switches; Off lists those that are off until somebody sets them.        *)

Integer(default, min, max) == [kind |-> "int", default |-> default, min |-> min, max |-> max]
OneOf(default, values) == [kind |-> "enum", default |-> default, values |-> values]
Text(default, max) == [kind |-> "text", default |-> default, max |-> max]
Bool(default) == [kind |-> "boolean", default |-> default]

IMAGE_MAX == 350000
MESSAGE_MAX == 1000

Switches == [
  general |-> {"tinNumber", "itemDescription", "compressImages", "ownerNameOnPrint"},
  transaction |-> {"billingName", "eWayBill", "autoRoundOff", "negativeStock", "showTimeOnTransaction",
                   "editPriceOnInvoice", "additionalCharges", "autoNumbering"},
  taxes |-> {"roundOffTax", "compositionScheme", "reverseCharge"},
  message |-> {"autoShareOnSave"},
  party |-> {"openingBalance", "partyCategories", "paymentReminders", "showGstinOnPrint"},
  item |-> {"showMrp", "showBrand", "showBatch", "showBarcode", "showSerial", "showCount", "itemCategories",
            "wholesalePrice", "lowStockAlert"},
  printRegular |-> {"makeDefault", "repeatHeader", "showCompanyName", "showAddress", "showEmail", "showPhone",
                    "showGstin", "printOriginalDuplicate", "expandTable", "totalItemQuantity",
                    "amountWithDecimal", "receivedAmount", "balanceAmount", "currentBalanceOfParty",
                    "taxDetails", "youSaved", "amountWithGrouping", "amountInWords", "printDescription",
                    "printTerms", "printReceivedBy", "printDeliveredBy", "paymentMode",
                    "printAcknowledgement", "showBankDetails", "showUpiQrCode"},
  printThermal |-> {"makeDefault", "boldText", "autoCutPaper", "openCashDrawer", "showCompanyName",
                    "showAddress", "showEmail", "showPhone", "showGstin", "showSerialNo", "showHsn",
                    "showUnitOfMeasurement", "showMrp", "showItemDescription", "showBatchNo", "showExpDate",
                    "showMfgDate", "showSize", "showModelNo", "showItemSerialNo", "totalItemQuantity",
                    "amountWithDecimal", "receivedAmount", "balanceAmount", "currentBalanceOfParty",
                    "taxDetails", "youSaved", "amountWithGrouping", "amountInWords", "printDescription",
                    "printTerms"},
  printColumns |-> {"showHsnColumn", "showDiscountColumn", "showGstColumn", "showItemCode",
                    "showItemDescription"}]

Off == ({"general"} \X {"tinNumber", "ownerNameOnPrint"})
  \cup ({"transaction"} \X {"autoRoundOff", "showTimeOnTransaction", "additionalCharges"})
  \cup ({"taxes"} \X Switches.taxes) \cup {<<"message", "autoShareOnSave">>, <<"item", "wholesalePrice">>}
  \cup ({"printRegular"} \X {"repeatHeader", "showEmail", "expandTable", "currentBalanceOfParty",
          "amountWithGrouping", "printReceivedBy", "printDeliveredBy", "printAcknowledgement"})
  \cup ({"printThermal"} \X {"makeDefault", "boldText", "openCashDrawer", "showEmail", "showHsn", "showMrp",
          "showItemDescription", "showBatchNo", "showExpDate", "showMfgDate", "showSize", "showModelNo",
          "showItemSerialNo", "currentBalanceOfParty", "taxDetails", "youSaved", "amountWithGrouping",
          "amountInWords", "printDescription"})
  \cup ({"printColumns"} \X {"showItemCode", "showItemDescription"})

Numeric == [
  general |-> [quantityDecimals |-> Integer(2, 0, 4), amountDecimals |-> Integer(2, 0, 4)],
  party |-> [defaultPaymentTermDays |-> Integer(15, 0, 180)],
  item |-> [lowStockThreshold |-> Integer(5, 0, 1000)],
  printRegular |-> [companyNameTextSize |-> Integer(4, 1, 5), invoiceTextSize |-> Integer(3, 1, 5),
                    extraSpaceTop |-> Integer(0, 0, 100), minRows |-> Integer(0, 0, 40)],
  printThermal |-> [theme |-> Integer(1, 1, 5), customWidthChars |-> Integer(48, 20, 96),
                    extraLinesAtEnd |-> Integer(0, 0, 20), numberOfCopies |-> Integer(1, 1, 5)]]

Choices == [
  general |-> [dateFormat |-> OneOf("dd-mm-yyyy", {"dd-mm-yyyy", "mm-dd-yyyy", "dd/mm/yyyy"}),
               language |-> OneOf("english", {"english", "hindi", "gujarati", "marathi"})],
  transaction |-> [numberingPrefix |-> OneOf("invoice", {"invoice", "bill", "none"})],
  taxes |-> [taxType |-> OneOf("igst-cgst-sgst", {"igst-cgst-sgst", "igst", "cgst-sgst"})],
  printRegular |-> [template |-> OneOf("standard", {"standard", "compact", "classic"}),
                    paperSize |-> OneOf("a4", {"a4", "a5", "letter"}),
                    orientation |-> OneOf("portrait", {"portrait", "landscape"}),
                    amountInWordsFormat |-> OneOf("indian", {"indian", "international"})],
  printThermal |-> [pageSize |-> OneOf("2in", {"2in", "3in", "4in", "custom"}),
                    printingType |-> OneOf("text", {"text", "image"}),
                    amountInWordsFormat |-> OneOf("indian", {"indian", "international"})]]

\* Texts, with the length of their default.
Texts == [
  profile |-> [businessType |-> Text(0, 80), businessCategory |-> Text(0, 100), pincode |-> Text(0, 10)],
  message |-> [invoiceMessage |-> Text(111, MESSAGE_MAX), paymentReminderMessage |-> Text(147, MESSAGE_MAX),
               estimateMessage |-> Text(79, MESSAGE_MAX)],
  printRegular |-> [companyLogo |-> Text(0, IMAGE_MAX), signatureText |-> Text(20, 80),
                    signatureImage |-> Text(0, IMAGE_MAX), bankName |-> Text(0, 120),
                    bankAccountNumber |-> Text(0, 40), bankIfsc |-> Text(0, 20), upiId |-> Text(0, 80)],
  printThermal |-> [companyLogo |-> Text(0, IMAGE_MAX)],
  printNames |-> [saleInvoice |-> Text(11, 60), estimateQuotation |-> Text(20, 60),
                  proformaInvoice |-> Text(16, 60), purchaseOrder |-> Text(14, 60), saleOrder |-> Text(10, 60),
                  deliveryChallan |-> Text(16, 60), creditNote |-> Text(11, 60), debitNote |-> Text(10, 60),
                  paymentIn |-> Text(18, 60), paymentOut |-> Text(19, 60)]]

Has(table, f) == f[1] \in DOMAIN table /\ f[2] \in DOMAIN table[f[1]]
\* The declaration of a field; "unknown" where PREFERENCE_SPECS has none.
PreferenceSpec(f) ==
  IF Has(Numeric, f) THEN Numeric[f[1]][f[2]]
  ELSE IF Has(Choices, f) THEN Choices[f[1]][f[2]]
  ELSE IF Has(Texts, f) THEN Texts[f[1]][f[2]]
  ELSE IF f[1] \in DOMAIN Switches /\ f[2] \in Switches[f[1]] THEN Bool(f \notin Off)
  ELSE [kind |-> "unknown"]

AllFields == UNION {{s} \X Switches[s] : s \in DOMAIN Switches}
  \cup UNION {UNION {{s} \X DOMAIN table[s] : s \in DOMAIN table} : table \in {Numeric, Choices, Texts}}

-----------------------------------------------------------------------------
(* Values as stored or sent: the JSON type and what it holds.              *)

Value(type, v) == <<type, v>>
Absent == Value("undefined", 0)
Values == {Absent} \cup {Value("boolean", b) : b \in BOOLEAN}
  \cup {Value("number", n) : n \in Numbers} \cup {Value("string", n) : n \in Lengths}
  \cup {Value("word", w) : w \in Words}

\* Whether a value is one of a field's: what readField() keeps.
Valid(spec, value) ==
  CASE spec.kind = "boolean" -> value[1] = "boolean"
    [] spec.kind = "int" -> value[1] = "number" /\ value[2] >= spec.min /\ value[2] <= spec.max
    [] spec.kind = "enum" -> value[1] = "word" /\ value[2] \in spec.values
    [] spec.kind = "text" -> value[1] = "string" /\ value[2] <= spec.max
    [] OTHER -> FALSE

Default(spec) ==
  CASE spec.kind = "boolean" -> Value("boolean", spec.default)
    [] spec.kind = "int" -> Value("number", spec.default)
    [] spec.kind = "enum" -> Value("word", spec.default)
    [] spec.kind = "text" -> Value("string", spec.default)

\* readField(): the stored value, or the default when it is not valid.
ReadField(spec, value) == IF Valid(spec, value) THEN value ELSE Default(spec)

VARIABLES
  stored,      \* the JSON column: a value for each field, Absent included
  pc,          \* pc[q]: "idle", or "write" once the save has read the column
  job          \* job[q]: the patch sent, all the preferences to write, and whether another
               \* save was written meanwhile

vars == <<stored, pc, job>>

NoSave == [patch |-> <<>>, next |-> <<>>, overtaken |-> FALSE]

\* resolvePreferences() of the column.
Resolved == [f \in Fields |-> ReadField(PreferenceSpec(f), stored[f])]

Init ==
  /\ stored \in [Fields -> Values]
  /\ pc = [q \in Requests |-> "idle"]
  /\ job = [q \in Requests |-> NoSave]

\* validatePreferencePatch(): every field is known and every value reads back as itself.
Accepted(patch) == \A f \in DOMAIN patch : ReadField(PreferenceSpec(f), patch[f]) = patch[f]

\* updatePreferences(), up to the values it is going to write.  Up to two fields are sent.
Read(q) ==
  /\ pc[q] = "idle"
  /\ \E F \in (SUBSET Fields) \ {{}} :
       /\ Cardinality(F) <= 2
       /\ \E patch \in [F -> Values] :
            /\ Accepted(patch)
            /\ job' = [job EXCEPT ![q] = [patch |-> patch, overtaken |-> FALSE,
                 next |-> [f \in Fields |-> IF f \in F THEN patch[f] ELSE Resolved[f]]]]
  /\ pc' = [pc EXCEPT ![q] = "write"]
  /\ UNCHANGED stored

Written(q, column) ==
  /\ pc[q] = "write"
  /\ stored' = column
  /\ pc' = [pc EXCEPT ![q] = "idle"]
  /\ job' = [r \in Requests |-> IF r = q THEN NoSave ELSE [job[r] EXCEPT !.overtaken = (pc[r] = "write")]]

\* Mutant: only the sections sent are written, and the rest of the column is lost.
FaultyWrite(q) ==
  Written(q, [f \in Fields |-> IF \E g \in DOMAIN job[q].patch : g[1] = f[1] THEN job[q].next[f] ELSE Absent])
\* updatePreferences() writes every section.
Write(q) == Written(q, job[q].next)

Next == \E q \in Requests : Read(q) \/ Write(q)
Spec == Init /\ [][Next]_vars

-----------------------------------------------------------------------------
(* Properties.                                                             *)

TypeOK ==
  /\ pc \in [Requests -> {"idle", "write"}]
  /\ job = [q \in Requests |-> [patch |-> job[q].patch, next |-> job[q].next,
                               overtaken |-> job[q].overtaken]]

\* A save was sent valid values; it is going to write them and, unless it is overtaken, what
\* is still read of the other fields.
Saving(q) ==
  /\ Accepted(job[q].patch)
  /\ \A f \in Fields :
       IF f \in DOMAIN job[q].patch THEN job[q].next[f] = job[q].patch[f]
       ELSE job[q].overtaken \/ job[q].next[f] = Resolved[f]

IInv == TypeOK /\ \A q \in Requests : pc[q] = "write" => Saving(q)

\* A default is a value a client could have sent.
DefaultsAreValid == \A f \in AllFields : Valid(PreferenceSpec(f), Default(PreferenceSpec(f)))

\* Assumed of the constants, and of the table of fields.
PreferencesAssumption == Fields \subseteq AllFields /\ DefaultsAreValid

\* Whatever the column holds, the rest of the program reads valid values only.
ReadsAreValid == \A f \in Fields : Valid(PreferenceSpec(f), Resolved[f])

\* A save is read back as it was sent, and leaves what it did not send as it was read
\* before, unless another save was written while it was under way.
SavesKeepTheRestStep ==
  \A q \in Requests :
    pc[q] = "write" /\ pc'[q] = "idle" =>
      \A f \in Fields :
        IF f \in DOMAIN job[q].patch THEN Resolved'[f] = job[q].patch[f]
        ELSE job[q].overtaken \/ Resolved'[f] = Resolved[f]
SavesKeepTheRest == [][SavesKeepTheRestStep]_vars
=============================================================================
