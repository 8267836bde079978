---------------------------- MODULE ContractEvents ---------------------------
(***************************************************************************)
(* The events of the contract bindings (bindings/).  The bindings give     *)
(* every event of every contract the same seven declarations: an iterator  *)
(* with Next, Error and Close, the struct the log is unpacked into, and    *)
(* Filter, Watch and Parse.  They differ in what is written here: the name *)
(* of the event, its indexed arguments in the order of their rules, and    *)
(* the arguments that are in the log's data.  What the declarations do is  *)
(* in EventBinding, for any of these events.                               *)
(***************************************************************************)
EXTENDS FiniteSets, SequencesExt

Event(name, indexed, data) == [name |-> name, indexed |-> indexed, data |-> data]

\* AccessControl.go
AccessControl_RoleGranted ==
    Event("RoleGranted", <<"role", "account", "sender">>, << >>)
AccessControl_RoleRevoked ==
    Event("RoleRevoked", <<"role", "account", "sender">>, << >>)

\* Bridge.go
Bridge_Deposit ==
    Event("Deposit", <<"destinationChainID", "resourceID", "depositNonce">>,
          << >>)
Bridge_Paused == Event("Paused", << >>, <<"account">>)
Bridge_ProposalEvent ==
    Event("ProposalEvent", <<"originChainID", "depositNonce", "status">>,
          <<"resourceID", "dataHash">>)
Bridge_ProposalVote ==
    Event("ProposalVote", <<"originChainID", "depositNonce", "status">>,
          <<"resourceID">>)
Bridge_RelayerAdded == Event("RelayerAdded", <<"relayer">>, << >>)
Bridge_RelayerRemoved == Event("RelayerRemoved", <<"relayer">>, << >>)
Bridge_RelayerThresholdChanged ==
    Event("RelayerThresholdChanged", <<"newThreshold">>, << >>)
Bridge_RoleGranted == Event("RoleGranted", <<"role", "account", "sender">>,
          << >>)
Bridge_RoleRevoked == Event("RoleRevoked", <<"role", "account", "sender">>,
          << >>)
Bridge_Unpaused == Event("Unpaused", << >>, <<"account">>)

\* CentrifugeAsset.go
CentrifugeAsset_AssetStored == Event("AssetStored", <<"asset">>, << >>)

\* ERC20.go
ERC20_Approval == Event("Approval", <<"owner", "spender">>, <<"value">>)
ERC20_Transfer == Event("Transfer", <<"from", "to">>, <<"value">>)

\* ERC20Burnable.go
ERC20Burnable_Approval == Event("Approval", <<"owner", "spender">>, <<"value">>)
ERC20Burnable_Transfer == Event("Transfer", <<"from", "to">>, <<"value">>)

\* ERC20Pausable.go
ERC20Pausable_Approval == Event("Approval", <<"owner", "spender">>, <<"value">>)
ERC20Pausable_Paused == Event("Paused", << >>, <<"account">>)
ERC20Pausable_Transfer == Event("Transfer", <<"from", "to">>, <<"value">>)
ERC20Pausable_Unpaused == Event("Unpaused", << >>, <<"account">>)

\* ERC20PresetMinterPauser.go
ERC20PresetMinterPauser_Approval ==
    Event("Approval", <<"owner", "spender">>, <<"value">>)
ERC20PresetMinterPauser_Paused == Event("Paused", << >>, <<"account">>)
ERC20PresetMinterPauser_RoleGranted ==
    Event("RoleGranted", <<"role", "account", "sender">>, << >>)
ERC20PresetMinterPauser_RoleRevoked ==
    Event("RoleRevoked", <<"role", "account", "sender">>, << >>)
ERC20PresetMinterPauser_Transfer == Event("Transfer", <<"from", "to">>,
          <<"value">>)
ERC20PresetMinterPauser_Unpaused == Event("Unpaused", << >>, <<"account">>)

\* ERC721.go
ERC721_Approval == Event("Approval", <<"owner", "approved", "tokenId">>, << >>)
ERC721_ApprovalForAll ==
    Event("ApprovalForAll", <<"owner", "operator">>, <<"approved">>)
ERC721_Transfer == Event("Transfer", <<"from", "to", "tokenId">>, << >>)

\* ERC721Burnable.go
ERC721Burnable_Approval ==
    Event("Approval", <<"owner", "approved", "tokenId">>, << >>)
ERC721Burnable_ApprovalForAll ==
    Event("ApprovalForAll", <<"owner", "operator">>, <<"approved">>)
ERC721Burnable_Transfer == Event("Transfer", <<"from", "to", "tokenId">>, << >>)

\* ERC721MinterBurnerPauser.go
ERC721MinterBurnerPauser_Approval ==
    Event("Approval", <<"owner", "approved", "tokenId">>, << >>)
ERC721MinterBurnerPauser_ApprovalForAll ==
    Event("ApprovalForAll", <<"owner", "operator">>, <<"approved">>)
ERC721MinterBurnerPauser_Paused == Event("Paused", << >>, <<"account">>)
ERC721MinterBurnerPauser_RoleGranted ==
    Event("RoleGranted", <<"role", "account", "sender">>, << >>)
ERC721MinterBurnerPauser_RoleRevoked ==
    Event("RoleRevoked", <<"role", "account", "sender">>, << >>)
ERC721MinterBurnerPauser_Transfer ==
    Event("Transfer", <<"from", "to", "tokenId">>, << >>)
ERC721MinterBurnerPauser_Unpaused == Event("Unpaused", << >>, <<"account">>)

\* ERC721Pausable.go
ERC721Pausable_Approval ==
    Event("Approval", <<"owner", "approved", "tokenId">>, << >>)
ERC721Pausable_ApprovalForAll ==
    Event("ApprovalForAll", <<"owner", "operator">>, <<"approved">>)
ERC721Pausable_Paused == Event("Paused", << >>, <<"account">>)
ERC721Pausable_Transfer == Event("Transfer", <<"from", "to", "tokenId">>, << >>)
ERC721Pausable_Unpaused == Event("Unpaused", << >>, <<"account">>)

\* IERC20.go
IERC20_Approval == Event("Approval", <<"owner", "spender">>, <<"value">>)
IERC20_Transfer == Event("Transfer", <<"from", "to">>, <<"value">>)

\* IERC721.go
IERC721_Approval == Event("Approval", <<"owner", "approved", "tokenId">>, << >>)
IERC721_ApprovalForAll ==
    Event("ApprovalForAll", <<"owner", "operator">>, <<"approved">>)
IERC721_Transfer == Event("Transfer", <<"from", "to", "tokenId">>, << >>)

\* IERC721Enumerable.go
IERC721Enumerable_Approval ==
    Event("Approval", <<"owner", "approved", "tokenId">>, << >>)
IERC721Enumerable_ApprovalForAll ==
    Event("ApprovalForAll", <<"owner", "operator">>, <<"approved">>)
IERC721Enumerable_Transfer == Event("Transfer", <<"from", "to", "tokenId">>,
          << >>)

\* IERC721Metadata.go
IERC721Metadata_Approval ==
    Event("Approval", <<"owner", "approved", "tokenId">>, << >>)
IERC721Metadata_ApprovalForAll ==
    Event("ApprovalForAll", <<"owner", "operator">>, <<"approved">>)
IERC721Metadata_Transfer == Event("Transfer", <<"from", "to", "tokenId">>,
          << >>)

\* NoArgument.go
NoArgument_NoArgumentCalled == Event("NoArgumentCalled", << >>, << >>)

\* OneArgument.go
OneArgument_OneArgumentCalled ==
    Event("OneArgumentCalled", <<"argumentOne">>, << >>)

\* Pausable.go
Pausable_Paused == Event("Paused", << >>, <<"account">>)
Pausable_Unpaused == Event("Unpaused", << >>, <<"account">>)

\* ThreeArguments.go
ThreeArguments_ThreeArgumentsCalled ==
    Event("ThreeArgumentsCalled", << >>,
          <<"argumentOne", "argumentTwo", "argumentThree">>)

\* TwoArguments.go
TwoArguments_TwoArgumentsCalled ==
    Event("TwoArgumentsCalled", << >>, <<"argumentOne", "argumentTwo">>)

Events ==
    {AccessControl_RoleGranted, AccessControl_RoleRevoked, Bridge_Deposit,
     Bridge_Paused, Bridge_ProposalEvent, Bridge_ProposalVote,
     Bridge_RelayerAdded, Bridge_RelayerRemoved,
     Bridge_RelayerThresholdChanged, Bridge_RoleGranted, Bridge_RoleRevoked,
     Bridge_Unpaused, CentrifugeAsset_AssetStored, ERC20_Approval,
     ERC20_Transfer, ERC20Burnable_Approval, ERC20Burnable_Transfer,
     ERC20Pausable_Approval, ERC20Pausable_Paused, ERC20Pausable_Transfer,
     ERC20Pausable_Unpaused, ERC20PresetMinterPauser_Approval,
     ERC20PresetMinterPauser_Paused, ERC20PresetMinterPauser_RoleGranted,
     ERC20PresetMinterPauser_RoleRevoked, ERC20PresetMinterPauser_Transfer,
     ERC20PresetMinterPauser_Unpaused, ERC721_Approval,
     ERC721_ApprovalForAll, ERC721_Transfer, ERC721Burnable_Approval,
     ERC721Burnable_ApprovalForAll, ERC721Burnable_Transfer,
     ERC721MinterBurnerPauser_Approval,
     ERC721MinterBurnerPauser_ApprovalForAll,
     ERC721MinterBurnerPauser_Paused, ERC721MinterBurnerPauser_RoleGranted,
     ERC721MinterBurnerPauser_RoleRevoked, ERC721MinterBurnerPauser_Transfer,
     ERC721MinterBurnerPauser_Unpaused, ERC721Pausable_Approval,
     ERC721Pausable_ApprovalForAll, ERC721Pausable_Paused,
     ERC721Pausable_Transfer, ERC721Pausable_Unpaused, IERC20_Approval,
     IERC20_Transfer, IERC721_Approval, IERC721_ApprovalForAll,
     IERC721_Transfer, IERC721Enumerable_Approval,
     IERC721Enumerable_ApprovalForAll, IERC721Enumerable_Transfer,
     IERC721Metadata_Approval, IERC721Metadata_ApprovalForAll,
     IERC721Metadata_Transfer, NoArgument_NoArgumentCalled,
     OneArgument_OneArgumentCalled, Pausable_Paused, Pausable_Unpaused,
     ThreeArguments_ThreeArgumentsCalled, TwoArguments_TwoArgumentsCalled}
=============================================================================
