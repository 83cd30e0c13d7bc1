------------------------------- MODULE Devices -------------------------------
(***************************************************************************)
(* The device registry (device/device.c) on the tree of                    *)
(* util/generic_tree.h, and the drivers that fill it while the kernel      *)
(* boots: VGA, the PS/2 keyboard, the PCI scan (drivers/pci/pci.c) and the *)
(* SATA driver, which renames what the scan has found.  Storage devices    *)
(* and the volumes on them are the subject of the module Volumes.          *)
(*                                                                         *)
(* device_unregister and the look-ups by name and id have no caller        *)
(* besides device_generate_id and are left out.  A device's id is drawn    *)
(* until no registered device has it: in the model it is the number of the *)
(* node that will hold the device.                                         *)
(***************************************************************************)
EXTENDS Naturals, Sequences, FiniteSets, SequencesExt

CONSTANT Machines   \* the computers to boot, see Machine below

\* Each slot of the PCI scan has a sequence of functions.
ASSUME DevicesAssumption ==
  \A m \in Machines :
    m.pci \in Seq(Seq([present : BOOLEAN, multi : BOOLEAN, sata : BOOLEAN,
                      header : Nat, bar5 : STRING]))

NULL == 0           \* no node

VARIABLES
  machine,      \* the computer, which the kernel only asks
  device_tree,  \* the nodes: [name, type, bus, data, parent, children, next]
  stage,        \* how far kmain has come
  cursor        \* the slot or drive the scan is at

deviceVars == <<machine, device_tree, stage, cursor>>

(* A machine is [vga, keyboard, pci, initrd, drives, ...]: whether there   *)
(* is a VGA controller and a keyboard; for each PCI slot, in the order of  *)
(* the scan, its functions, each [present, multi, sata, header, bar5]; the *)
(* storage as described in Volumes and Ext2.                               *)

-----------------------------------------------------------------------------
(* The tree.  Node 1 is its root.                                          *)

Root == 1

\* The end of a list of siblings.
LastSibling(tree, n) ==
  LET last[k \in DOMAIN tree] == IF tree[k].next = NULL THEN k ELSE last[tree[k].next]
  IN last[n]

\* generic_tree_create_node
CreateNode(tree, device) ==
  Append(tree, [parent |-> NULL, children |-> NULL, next |-> NULL,
                name |-> device.name, type |-> device.type, bus |-> device.bus,
                data |-> device.data])

\* Mutant: the search for the last sibling stops at the first.
InsertBehindFirst(tree, parent, n) ==
  IF tree[parent].children = NULL
  THEN [tree EXCEPT ![parent].children = n, ![n].parent = parent]
  ELSE [tree EXCEPT ![tree[parent].children].next = n, ![n].parent = parent]

\* generic_tree_insert
Insert(tree, parent, n) ==
  IF tree[parent].children = NULL
  THEN [tree EXCEPT ![parent].children = n, ![n].parent = parent]
  ELSE [tree EXCEPT ![LastSibling(tree, tree[parent].children)].next = n,
                    ![n].parent = parent]

\* The order in which generic_tree_foreach and generic_tree_find visit nodes: a
\* node, then its children with what is below them.
Foreach(tree, n) ==
  LET siblings[k \in 0 .. Len(tree)] ==
        IF k = NULL THEN <<>>
        ELSE <<k>> \o siblings[tree[k].children] \o siblings[tree[k].next]
  IN <<n>> \o siblings[tree[n].children]

\* generic_tree_find: the first node that fits the question, or NULL.
Find(tree, fits) ==
  LET order == Foreach(tree, Root)
      k == SelectInSeq(order, LAMBDA n : n \in fits)
  IN IF k = 0 THEN NULL ELSE order[k]

-----------------------------------------------------------------------------
(* The registry.                                                           *)

Device(name, type, bus, data) == [name |-> name, type |-> type, bus |-> bus, data |-> data]

\* device_init
Computer == CreateNode(<<>>, Device(<<"Computer">>, "reserved", "reserved", NULL))

\* device_register: below the parent, or below the root when it is NULL; a
\* parent that is not registered is refused.
DeviceRegister(tree, parent, device) ==
  LET found == IF parent = NULL THEN Root ELSE Find(tree, {parent})
  IN IF found = NULL THEN tree
     ELSE Insert(CreateNode(tree, device), found, Len(tree) + 1)

\* device_find_by_type
FindByType(type) ==
  Find(device_tree, {n \in DOMAIN device_tree : device_tree[n].type = type})

\* device_find_all_by_bus_type
FindAllByBusType(bus) ==
  SelectSeq(Foreach(device_tree, Root), LAMBDA n : device_tree[n].bus = bus)

\* syscall_lsdev: the index-th node of the walk, NULL past the last.
LsDev(index) ==
  LET order == Foreach(device_tree, Root)
  IN IF index < Len(order) THEN order[index + 1] ELSE NULL

\* The program lsdev: asks for 0, 1, 2, ... until there is no more.
LsDevFrom(index) ==
  LET from[k \in 0 .. Len(Foreach(device_tree, Root))] ==
        IF LsDev(k) = NULL THEN <<>> ELSE <<LsDev(k)>> \o from[k + 1]
  IN from[index]

-----------------------------------------------------------------------------
(* The drivers, in the order of init_drivers.                              *)

\* vga_init: a text console when the controller answers.
VgaInit ==
  /\ stage = "vga"
  /\ device_tree' =
       IF machine.vga
       THEN DeviceRegister(device_tree, NULL, Device(<<"VGA Controller">>, "video", "platform", NULL))
       ELSE device_tree
  /\ stage' = "keyboard"
  /\ UNCHANGED <<machine, cursor>>

\* ps2_keyboard_init and ps2_keyboard_probe
Ps2KeyboardInit ==
  /\ stage = "keyboard"
  /\ device_tree' =
       IF machine.keyboard
       THEN DeviceRegister(device_tree, NULL, Device(<<"PS/2 Keyboard">>, "keyboard", "platform", NULL))
       ELSE device_tree
  /\ stage' = "pci" /\ cursor' = 1
  /\ UNCHANGED machine

\* pci_probe_device: a function is there if it has a vendor id.
PciProbe(slot, f) == machine.pci[slot][f].present

\* The functions of a slot that the scan reaches: it leaves the slot at the first
\* that is absent, and after the first one of a device that has only one.
PciFunctions(slot) ==
  LET all == DOMAIN machine.pci[slot]
      run == {f \in all : \A g \in 1 .. f : PciProbe(slot, g)}
  IN IF 1 \in run /\ ~machine.pci[slot][1].multi THEN {1} ELSE run

\* pci_get_device_name
PciDeviceName(slot, f) == <<"PCI Device", slot, f>>

\* pci_init for one slot: its first function is registered at the root, the
\* others below the first.
PciInitSlot ==
  /\ stage = "pci" /\ cursor \in DOMAIN machine.pci
  /\ LET fs == Cardinality(PciFunctions(cursor))
         device(f) == Device(PciDeviceName(cursor, f), "unknown", "pci", <<cursor, f>>)
         slotDevice == Len(device_tree) + 1
         trees[f \in 0 .. fs] ==
           IF f = 0 THEN device_tree
           ELSE DeviceRegister(trees[f - 1], IF f = 1 THEN NULL ELSE slotDevice, device(f))
     IN device_tree' = trees[fs]
  /\ cursor' = cursor + 1
  /\ UNCHANGED <<machine, stage>>

PciInitDone ==
  /\ stage = "pci" /\ cursor \notin DOMAIN machine.pci
  /\ stage' = "ata" /\ cursor' = 0
  /\ UNCHANGED <<machine, device_tree>>

\* pci_general_load_bar_info: an I/O range or a 32 bit memory range.
PciGeneralLoadBarInfo(f) == f.bar5 \in {"io", "memory32"}

\* pci_load_bar_info: only for general devices; bridges have no such range.
PciLoadBarInfo(f) == f.header = 0 /\ PciGeneralLoadBarInfo(f)

\* sata_init: the first SATA controller gets its name and type once its registers
\* are known and mapped.  vmm_map_memory may have no room for them.
SataInit ==
  /\ stage = "sata"
  /\ LET controllers ==
           SelectSeq(FindAllByBusType("pci"),
                     LAMBDA n : machine.pci[device_tree[n].data[1]][device_tree[n].data[2]].sata)
         first == Head(controllers)
         function == machine.pci[device_tree[first].data[1]][device_tree[first].data[2]]
     IN \/ /\ controllers # <<>> /\ PciLoadBarInfo(function)
           /\ device_tree' = [device_tree EXCEPT ![first].name = <<"AHCI SATA Controller">>,
                                                 ![first].type = "controller"]
        \/ UNCHANGED device_tree
  /\ stage' = "console"
  /\ UNCHANGED <<machine, cursor>>

-----------------------------------------------------------------------------
\* Safety: whatever the drivers have registered, a user who lists the devices by
\* index sees every one of them, none of them twice, and each below a device
\* that was listed before (generic_tree_insert, generic_tree_foreach and the
\* counting in syscall_lsdev_callback).
DevicesListedOnce ==
  LET list == LsDevFrom(0)
  IN /\ ToSet(list) = DOMAIN device_tree
     /\ Len(list) = Len(device_tree)
     /\ \A k \in 2 .. Len(list) :
          \E j \in 1 .. k - 1 : list[j] = device_tree[list[k]].parent
=============================================================================
