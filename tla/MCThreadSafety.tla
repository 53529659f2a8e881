--------------------------- MODULE MCThreadSafety ---------------------------
(* Instances of ThreadSafety for TLC. *)
EXTENDS ThreadSafety

Symmetry == Permutations(Thread) \cup Permutations(CommandPool)

\* The callback may stop a collision on anything but descriptor sets.
AllButSets == Object \ DescriptorSet

CommandCalls == {"vkCmd", "vkCreateCommandPool", "vkAllocateCommandBuffers", "vkFreeCommandBuffers",
                 "vkResetCommandPool", "vkDestroyCommandPool"}
DescriptorCalls == {"vkAllocateDescriptorSets", "vkFreeDescriptorSets", "vkResetDescriptorPool",
                    "vkDestroyDescriptorPool", "vkUpdateDescriptorSets"}
QueueCalls == {"vkQueueSubmit", "vkGetDeviceQueue", "vkDeviceWaitIdle"}
AllFamilies == {CommandCalls, DescriptorCalls, QueueCalls}
=============================================================================
