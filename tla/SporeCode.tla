------------------------------ MODULE SporeCode ------------------------------
(***************************************************************************)
(* spore.rs: the code generated from schemas/spore.mol for its generator.  *)
(* A type is what its three copies say: the entity (its literal of default *)
(* bytes and its accessors), the reader (its accessors and verify) and the *)
(* builder (what it holds, in the order it is written).                    *)
(***************************************************************************)
EXTENDS GeneratedTypes

Byte32 == Entity(Zeros(32), Array("byte", 1, 32))
Byte32Reader == Array("byte", 1, 32)
Byte32Builder == Array("byte", 1, 32)

Bytes == Entity(Zeros(4), Fixvec("byte", 1))
BytesReader == Fixvec("byte", 1)
BytesBuilder == Fixvec("byte", 1)

Script ==
  Entity(Numbers(<<53, 16, 48, 49>>) \o Zeros(37),
         Table(<<Field("code_hash", "Byte32"), Field("hash_type", "byte"),
                 Field("args", "Bytes")>>))
ScriptReader ==
  Table(<<Field("code_hash", "Byte32"), Field("hash_type", "byte"),
          Field("args", "Bytes")>>)
ScriptBuilder ==
  Table(<<Field("code_hash", "Byte32"), Field("hash_type", "byte"),
          Field("args", "Bytes")>>)

AddressUnion == <<"Script">>
Address ==
  Entity(Zeros(4) \o Numbers(<<53, 16, 48, 49>>) \o Zeros(37),
         Union(AddressUnion))
AddressReader == Union(<<"Script">>)
AddressBuilder == UnionBuilder(AddressUnion, "Script")

MintSpore ==
  Entity(Numbers(<<137, 16, 48, 105>>) \o Zeros(36) \o
         Numbers(<<53, 16, 48, 49>>) \o Zeros(69),
         Table(<<Field("spore_id", "Byte32"), Field("to", "Address"),
                 Field("data_hash", "Byte32")>>))
MintSporeReader ==
  Table(<<Field("spore_id", "Byte32"), Field("to", "Address"),
          Field("data_hash", "Byte32")>>)
MintSporeBuilder ==
  Table(<<Field("spore_id", "Byte32"), Field("to", "Address"),
          Field("data_hash", "Byte32")>>)

TransferSpore ==
  Entity(Numbers(<<162, 16, 48, 105>>) \o Zeros(36) \o
         Numbers(<<53, 16, 48, 49>>) \o Zeros(41) \o
         Numbers(<<53, 16, 48, 49>>) \o Zeros(37),
         Table(<<Field("spore_id", "Byte32"), Field("from", "Address"),
                 Field("to", "Address")>>))
TransferSporeReader ==
  Table(<<Field("spore_id", "Byte32"), Field("from", "Address"),
          Field("to", "Address")>>)
TransferSporeBuilder ==
  Table(<<Field("spore_id", "Byte32"), Field("from", "Address"),
          Field("to", "Address")>>)

BurnSpore ==
  Entity(Numbers(<<101, 12, 44>>) \o Zeros(36) \o
         Numbers(<<53, 16, 48, 49>>) \o Zeros(37),
         Table(<<Field("spore_id", "Byte32"), Field("from", "Address")>>))
BurnSporeReader ==
  Table(<<Field("spore_id", "Byte32"), Field("from", "Address")>>)
BurnSporeBuilder ==
  Table(<<Field("spore_id", "Byte32"), Field("from", "Address")>>)

MintCluster ==
  Entity(Numbers(<<137, 16, 48, 105>>) \o Zeros(36) \o
         Numbers(<<53, 16, 48, 49>>) \o Zeros(69),
         Table(<<Field("cluster_id", "Byte32"), Field("to", "Address"),
                 Field("data_hash", "Byte32")>>))
MintClusterReader ==
  Table(<<Field("cluster_id", "Byte32"), Field("to", "Address"),
          Field("data_hash", "Byte32")>>)
MintClusterBuilder ==
  Table(<<Field("cluster_id", "Byte32"), Field("to", "Address"),
          Field("data_hash", "Byte32")>>)

TransferCluster ==
  Entity(Numbers(<<162, 16, 48, 105>>) \o Zeros(36) \o
         Numbers(<<53, 16, 48, 49>>) \o Zeros(41) \o
         Numbers(<<53, 16, 48, 49>>) \o Zeros(37),
         Table(<<Field("cluster_id", "Byte32"), Field("from", "Address"),
                 Field("to", "Address")>>))
TransferClusterReader ==
  Table(<<Field("cluster_id", "Byte32"), Field("from", "Address"),
          Field("to", "Address")>>)
TransferClusterBuilder ==
  Table(<<Field("cluster_id", "Byte32"), Field("from", "Address"),
          Field("to", "Address")>>)

MintProxy ==
  Entity(Numbers(<<137, 16, 48, 80>>) \o Zeros(68) \o
         Numbers(<<53, 16, 48, 49>>) \o Zeros(37),
         Table(<<Field("cluster_id", "Byte32"), Field("proxy_id", "Byte32"),
                 Field("to", "Address")>>))
MintProxyReader ==
  Table(<<Field("cluster_id", "Byte32"), Field("proxy_id", "Byte32"),
          Field("to", "Address")>>)
MintProxyBuilder ==
  Table(<<Field("cluster_id", "Byte32"), Field("proxy_id", "Byte32"),
          Field("to", "Address")>>)

TransferProxy ==
  Entity(Numbers(<<198, 20, 52, 84, 141>>) \o Zeros(68) \o
         Numbers(<<53, 16, 48, 49>>) \o Zeros(41) \o
         Numbers(<<53, 16, 48, 49>>) \o Zeros(37),
         Table(<<Field("cluster_id", "Byte32"), Field("proxy_id", "Byte32"),
                 Field("from", "Address"), Field("to", "Address")>>))
TransferProxyReader ==
  Table(<<Field("cluster_id", "Byte32"), Field("proxy_id", "Byte32"),
          Field("from", "Address"), Field("to", "Address")>>)
TransferProxyBuilder ==
  Table(<<Field("cluster_id", "Byte32"), Field("proxy_id", "Byte32"),
          Field("from", "Address"), Field("to", "Address")>>)

BurnProxy ==
  Entity(Numbers(<<137, 16, 48, 80>>) \o Zeros(68) \o
         Numbers(<<53, 16, 48, 49>>) \o Zeros(37),
         Table(<<Field("cluster_id", "Byte32"), Field("proxy_id", "Byte32"),
                 Field("from", "Address")>>))
BurnProxyReader ==
  Table(<<Field("cluster_id", "Byte32"), Field("proxy_id", "Byte32"),
          Field("from", "Address")>>)
BurnProxyBuilder ==
  Table(<<Field("cluster_id", "Byte32"), Field("proxy_id", "Byte32"),
          Field("from", "Address")>>)

MintAgent ==
  Entity(Numbers(<<137, 16, 48, 80>>) \o Zeros(68) \o
         Numbers(<<53, 16, 48, 49>>) \o Zeros(37),
         Table(<<Field("cluster_id", "Byte32"), Field("proxy_id", "Byte32"),
                 Field("to", "Address")>>))
MintAgentReader ==
  Table(<<Field("cluster_id", "Byte32"), Field("proxy_id", "Byte32"),
          Field("to", "Address")>>)
MintAgentBuilder ==
  Table(<<Field("cluster_id", "Byte32"), Field("proxy_id", "Byte32"),
          Field("to", "Address")>>)

TransferAgent ==
  Entity(Numbers(<<162, 16, 48, 105>>) \o Zeros(36) \o
         Numbers(<<53, 16, 48, 49>>) \o Zeros(41) \o
         Numbers(<<53, 16, 48, 49>>) \o Zeros(37),
         Table(<<Field("cluster_id", "Byte32"), Field("from", "Address"),
                 Field("to", "Address")>>))
TransferAgentReader ==
  Table(<<Field("cluster_id", "Byte32"), Field("from", "Address"),
          Field("to", "Address")>>)
TransferAgentBuilder ==
  Table(<<Field("cluster_id", "Byte32"), Field("from", "Address"),
          Field("to", "Address")>>)

BurnAgent ==
  Entity(Numbers(<<101, 12, 44>>) \o Zeros(36) \o
         Numbers(<<53, 16, 48, 49>>) \o Zeros(37),
         Table(<<Field("cluster_id", "Byte32"), Field("from", "Address")>>))
BurnAgentReader ==
  Table(<<Field("cluster_id", "Byte32"), Field("from", "Address")>>)
BurnAgentBuilder ==
  Table(<<Field("cluster_id", "Byte32"), Field("from", "Address")>>)

SporeActionUnion ==
  <<"MintSpore", "TransferSpore", "BurnSpore", "MintCluster",
    "TransferCluster", "MintProxy", "TransferProxy", "BurnProxy", "MintAgent",
    "TransferAgent", "BurnAgent">>
SporeAction ==
  Entity(Zeros(4) \o Numbers(<<137, 16, 48, 105>>) \o Zeros(36) \o
         Numbers(<<53, 16, 48, 49>>) \o Zeros(69),
         Union(SporeActionUnion))
SporeActionReader ==
  Union(<<"MintSpore", "TransferSpore", "BurnSpore", "MintCluster",
          "TransferCluster", "MintProxy", "TransferProxy", "BurnProxy",
          "MintAgent", "TransferAgent", "BurnAgent">>)
SporeActionBuilder == UnionBuilder(SporeActionUnion, "MintSpore")

Types ==
  [ Byte32 |-> Type(Byte32, Byte32Reader, Byte32Builder),
    Bytes |-> Type(Bytes, BytesReader, BytesBuilder),
    Script |-> Type(Script, ScriptReader, ScriptBuilder),
    Address |-> Type(Address, AddressReader, AddressBuilder),
    MintSpore |-> Type(MintSpore, MintSporeReader, MintSporeBuilder),
    TransferSpore |-> Type(TransferSpore, TransferSporeReader, TransferSporeBuilder),
    BurnSpore |-> Type(BurnSpore, BurnSporeReader, BurnSporeBuilder),
    MintCluster |-> Type(MintCluster, MintClusterReader, MintClusterBuilder),
    TransferCluster |-> Type(TransferCluster, TransferClusterReader, TransferClusterBuilder),
    MintProxy |-> Type(MintProxy, MintProxyReader, MintProxyBuilder),
    TransferProxy |-> Type(TransferProxy, TransferProxyReader, TransferProxyBuilder),
    BurnProxy |-> Type(BurnProxy, BurnProxyReader, BurnProxyBuilder),
    MintAgent |-> Type(MintAgent, MintAgentReader, MintAgentBuilder),
    TransferAgent |-> Type(TransferAgent, TransferAgentReader, TransferAgentBuilder),
    BurnAgent |-> Type(BurnAgent, BurnAgentReader, BurnAgentBuilder),
    SporeAction |-> Type(SporeAction, SporeActionReader, SporeActionBuilder)]
==============================================================================
