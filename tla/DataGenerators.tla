---------------------------- MODULE DataGenerators ----------------------------
(***************************************************************************)
(* crates/*-data-generator: the programs that write sample data. Each      *)
(* draws the parts of a value, prints them, puts the value together with   *)
(* the builders of MoleculeCode and writes its bytes. What is drawn is an  *)
(* argument here: a byte32, a byte string, or a script of both.            *)
(***************************************************************************)
EXTENDS MoleculeCode

CONSTANT Draws \* [crate, top, value]: what a run of a generator draws

\* XBuilder::default() with every setter called, .build()
Built(crate, name, parts) ==
  LET fields == Code[crate][name].builder.fields
  IN  Build([crate |-> crate, name |-> name],
            [k \in DOMAIN fields |-> Held(fields[k].typ, parts[fields[k].name])])

\* XBuilder::default().set(bytes).build(), and .extend for a String
OfBytes(crate, name, data) ==
  Build([crate |-> crate, name |-> name],
        [k \in DOMAIN data |-> Held("byte", <<data[k]>>)])

\* XBuilder::default().set(item.into()).build()
OfItem(crate, name, type, item) ==
  Build([crate |-> crate, name |-> name], <<Held(type, item)>>)

random_byte32(crate, data) == OfBytes(crate, "Byte32", data)
random_bytesBare(crate, data) == data

random_bytes(crate, data) == OfBytes(crate, "Bytes", data)

random_address(crate, script) ==
  OfItem(crate, "Address", "Script",
         Built(crate, "Script",
               [code_hash |-> random_byte32(crate, script.code_hash),
                hash_type |-> <<script.hash_type>>,
                args |-> random_bytes(crate, script.args)]))

\* main of misc-data-generator
MiscMain(v) ==
  Built("misc", "Misc",
        [integer |-> OfBytes("misc", "Uint64", v.integer),
         hash |-> random_byte32("misc", v.hash),
         string |-> OfBytes("misc", "String", v.string),
         addr |-> random_address("misc", v.addr),
         var_bytes |-> random_bytes("misc", v.var_bytes)])

\* main of spore-data-generator; all that is drawn for an action is an id,
\* one or two addresses and a hash.
SporeMain(action, v) ==
  LET id == random_byte32("spore", v.spore_id)
      address(script) == random_address("spore", script)
      value == CASE action = "MintSpore" ->
                      [spore_id |-> id, to |-> address(v.to),
                       data_hash |-> random_byte32("spore", v.data_hash)]
                 [] action = "TransferSpore" ->
                      [spore_id |-> id, from |-> address(v.from), to |-> address(v.to)]
                 [] action = "BurnSpore" ->
                      [spore_id |-> id, from |-> address(v.from)]
  IN OfItem("spore", "SporeAction", action, Built("spore", action, value))

\* The accessor for a field of a table.
Access(t, d, name) ==
  LET fields == Generated(t).entity.fields
      k == CHOOSE j \in DOMAIN fields : fields[j].name = name
  IN  CHOOSE s \in Parts(Generated(t).entity, d)[k].slices : TRUE

\* to_address: what is printed as an address. args().as_bytes() is the
\* whole entity, its item count included.
to_address(crate, address) ==
  LET script == (CHOOSE s \in Parts(Code[crate].Address.entity, address)[1].slices : TRUE)
      part(name) == Access([crate |-> crate, name |-> "Script"], script, name)
  IN  part("hash_type") \o part("code_hash") \o part("args")

Output(draw) ==
  IF draw.top = "Misc" THEN MiscMain(draw.value) ELSE SporeMain(draw.top, draw.value)

Tops == [misc |-> "Misc", spore |-> "SporeAction"]

\* What each run of a generator writes, as input of a reader of its type.
Written ==
  {[draw |-> draw, typ |-> [crate |-> draw.crate, name |-> Tops[draw.crate]],
    slice |-> Output(draw)] : draw \in Draws}
-----------------------------------------------------------------------------
\* An address prints as the parts of the script that was drawn.
Printed(crate, script) ==
  <<script.hash_type>> \o script.code_hash \o random_bytes(crate, script.args)

\* The tables a written value holds, from the top down to the address.
Holder(w) ==
  IF w.typ.name = "Misc" THEN w
  ELSE [typ |-> [w.typ EXCEPT !.name = w.draw.top],
        slice |-> CHOOSE s \in Parts(Generated(w.typ).entity, w.slice)[1].slices : TRUE]

(***************************************************************************)
(* What a generator writes is a valid value of the crate's top-level type, *)
(* and the addresses a reader finds in it print as what was drawn.         *)
(***************************************************************************)
GeneratorsAgree ==
  \A w \in Written :
    typ = w.typ /\ slice = w.slice =>
      /\ state \notin {"refused", "incompatible", "panic"}
      /\ \A name \in {"addr", "from", "to"} \cap DOMAIN w.draw.value :
           to_address(typ.crate, Access(Holder(w).typ, Holder(w).slice, name)) =
             Printed(typ.crate, w.draw.value[name])
=============================================================================
